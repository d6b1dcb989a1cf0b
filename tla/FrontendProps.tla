---------------------------- MODULE FrontendProps ---------------------------
(* What rdpgen makes of a file, stated on the characters of the file.      *)
EXTENDS Frontend

Lex == INSTANCE Lexicon WITH
         FF <- Scan!FF, NUL <- Scan!NUL, Quote <- Scan!Quote,
         LBrace <- Scan!LBrace, RBrace <- Scan!RBrace
Language == INSTANCE Grammar WITH
              UnknownName <- Scan!UnknownDirective, NoText <- <<>>, NullText <- None

(* The tokens of the file up to the first end of the input, if it has one. *)
TokensOf(s) ==
  LET lexemes == Lex!Lexemes(s, Len(s) + 1)
      all == [k \in DOMAIN lexemes |-> Scan!AsToken(lexemes[k])]
      end == SelectInSeq(all, LAMBDA t : t.type = "END_OF_INPUT")
  IN  IF end = 0 THEN all ELSE SubSeq(all, 1, end)

(***************************************************************************)
(* parse_input reports no error exactly for the texts whose tokens are a   *)
(* grammar file: every lookahead that one of the three components reads    *)
(* and another consumes is consumed once, from the first character to the  *)
(* last.                                                                   *)
(***************************************************************************)
VerdictIsThatOfTheText ==
  pc = "done" => (errors = 0 <=> Language!Grammatical(TokensOf(text)))

(***************************************************************************)
(* An error is reported at the character behind the token that was read    *)
(* last, although the parser has looked ahead by then; and without name    *)
(* and position exactly when that token ends the file.  The line is one    *)
(* short after a newline that is the first character.                      *)
(***************************************************************************)
NewlinesIn(i) == {k \in 2 .. i : text[k] = NL}

PositionOf(i) ==
  IF i > Len(text) THEN [named |-> FALSE, line |-> -1, col |-> -1]
  ELSE [named |-> TRUE, line |-> 1 + Cardinality(NewlinesIn(i)),
        col |-> IF NewlinesIn(i) = {} THEN i ELSE i - Max(NewlinesIn(i)) + 1]

Behind(k) == Lex!Cuts(text, k)[k].next

Refuses(i) == i <= Len(text) /\ text[i] \in High \cup {Scan!FF}

ErrorsPointBehindTheToken ==
  \A r \in ToSet(reports) :
    IF pc = "fatal" /\ r = Last(reports)
    THEN \E i \in DOMAIN text : Refuses(i) /\ r.at = PositionOf(i)
    ELSE r.at = PositionOf(Behind(r.last))

(***************************************************************************)
(* Parsing a file ends, with a verdict or by exit, unless it reaches a     *)
(* comment without a newline or a string or block without its end.         *)
(***************************************************************************)
Reaches(mark) == Last(Lex!Lexemes(text, Len(input) + 1)) = mark

ParsingEnds == <>(Over \/ Reaches(Lex!Hang))
=============================================================================
