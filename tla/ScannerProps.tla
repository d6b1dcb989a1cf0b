---------------------------- MODULE ScannerProps ----------------------------
(* What consume_token delivers, against the reference Lexicon.             *)
EXTENDS Scanner

Lex == INSTANCE Lexicon

(* The tokens delivered so far and the one being read, from the reference. *)
Expected == Lex!Lexemes(text, Len(tokens) + 1)
NextLexeme == Expected[Len(tokens) + 1]

(***************************************************************************)
(* Every token that consume_token returns is the next token of the text:   *)
(* its type and its characters, with spaces, comments, quotes and outer    *)
(* braces dropped and inner braces kept, however short the text is and     *)
(* wherever it ends.  The reference takes what the code takes where the    *)
(* comments in scanner.h say otherwise: a symbol of one letter (line 10),  *)
(* a newline or nothing in a block or string (lines 8 and 11), and the end *)
(* of the input at a byte 0xFF inside the file (line 17).                  *)
(***************************************************************************)
TokensAreRight ==
  \A k \in DOMAIN tokens : tokens[k] = Expected[k]

(***************************************************************************)
(* consume_token goes on for ever only where the text ends inside a        *)
(* comment, a string or a block, and it exits only there, for lack of      *)
(* memory, or after a byte above 0x7F in a string or directive.            *)
(***************************************************************************)
StopsOnlyWhereItMust ==
  /\ ~alive => NextLexeme = IF rest = <<>> THEN Lex!Hang ELSE Lex!Fatal
  /\ pc \in {"comment", "string", "block"} /\ rest = <<>> =>
       NextLexeme = Lex!Hang

(***************************************************************************)
(* The scanner is the token source that the parser is written for: where   *)
(* it has come to the end, or to a character that it does not consume, it  *)
(* stays, every error token is counted each time, and it exits only where  *)
(* there is something left, after two reports or for lack of memory.       *)
(***************************************************************************)
AnyChar == Bytes \ {NUL}

Source ==
  INSTANCE TokenSource WITH
    Symbols <- {s \in Seq(Letters \cup Digits) : s # <<>> /\ s[1] \in Letters},
    Numerals <- Seq(Digits) \ {<<>>},
    Strings <- Seq(AnyChar \ {Quote}), Blocks <- Seq(AnyChar),
    UnknownName <- UnknownDirective, NoText <- <<>>, NullText <- "none",
    tok <- AsToken(IF tokens = <<>> THEN [type |-> "ERROR", str |-> UnknownDirective]
                                    ELSE Last(tokens)),
    ended <- ~alive
ImplementsSource == Source!Spec

(***************************************************************************)
(* A call returns, or the process exits, unless the text ends inside a     *)
(* comment, string or block.                                               *)
(***************************************************************************)
CallsReturn ==
  (pc # "idle") ~> (pc = "idle" \/ ~alive \/ NextLexeme = Lex!Hang)
=============================================================================
