----------------------------- MODULE CharStream -----------------------------
(***************************************************************************)
(* What fileio.h promises its caller: one stream of characters.  Opening a *)
(* file puts its text in front of what is left; consume_char drops the     *)
(* current character; both it and get_char return the current one, or EOF  *)
(* when nothing is left.                                                   *)
(***************************************************************************)
EXTENDS Naturals, Sequences

CONSTANTS
  Texts,  \* the contents a file can have
  EOF     \* not a character

VARIABLES
  rest,  \* the characters that are left, the current one first
  ret    \* what the last operation returned

Current(s) == IF s = <<>> THEN EOF ELSE Head(s)

Init == rest = <<>> /\ ret = EOF

Open == \E text \in Texts : rest' = text \o rest /\ UNCHANGED ret

Get == ret' = Current(rest) /\ UNCHANGED rest

Consume ==
  /\ rest' = IF rest = <<>> THEN rest ELSE Tail(rest)
  /\ ret' = Current(rest')

Next == Open \/ Get \/ Consume

Spec == Init /\ [][Next]_<<rest, ret>>
=============================================================================
