----------------------------- MODULE TokenSource ----------------------------
(***************************************************************************)
(* What the parser relies on when it calls the scanner: a source of        *)
(* tokens.  Any token may come next, except that the end of the input and  *)
(* a character that starts no token come again for ever.  The source       *)
(* counts an error for each ERROR token that it delivers, every time.  It  *)
(* may end the process instead, with two reports or without any.           *)
(***************************************************************************)
EXTENDS Tokens

VARIABLES
  tok,     \* the token delivered last
  errors,  \* the errors that the source has reported
  ended    \* the source has ended the process

Init == tok = BadDirective /\ errors = 0 /\ ended = FALSE

Deliver ==
  /\ ~ended
  /\ tok' \in Following(tok)
  /\ errors' = errors + ScanErrors(tok')
  /\ UNCHANGED ended

End ==
  /\ ~ended /\ tok \notin Sticky
  /\ ended' = TRUE
  /\ errors' \in {errors, errors + 2}
  /\ UNCHANGED tok

Next == Deliver \/ End

Spec == Init /\ [][Next]_<<tok, errors, ended>>
=============================================================================
