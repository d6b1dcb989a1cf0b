------------------------------ MODULE Lexicon -------------------------------
(***************************************************************************)
(* The tokens of a text, defined from where each one begins and ends       *)
(* instead of by a scanner: Lexemes(s, n) are the first n tokens of s,     *)
(* with a mark from where the scanner cannot deliver one.                  *)
(***************************************************************************)
EXTENDS Naturals, Sequences, FiniteSets, FiniteSetsExt

CONSTANTS
  Letters, Digits, Spaces, High, NL, FF, NUL, Quote, LBrace, RBrace,
  Keyword   \* as in Scanner

Hang  == [type |-> "HANG", str |-> <<>>]   \* the text ends inside the token
Fatal == [type |-> "FATAL", str |-> <<>>]  \* a byte that check_eof refuses

(* The last index of the run of characters of S that begins at i.          *)
RunEnd(s, i, S) ==
  Max({j \in i - 1 .. Len(s) : \A k \in i .. j : s[k] \in S})

(* The first index from i on with the character c, or 0.                   *)
Find(s, i, c) ==
  LET at == {j \in i .. Len(s) : s[j] = c}
  IN  IF at = {} THEN 0 ELSE Min(at)

(* The index of the brace that closes the one at i, or 0.                  *)
Braces(s, i, j, c) == Cardinality({k \in i .. j : s[k] = c})
Closing(s, i) ==
  LET at == {j \in i .. Len(s) : Braces(s, i, j, LBrace) = Braces(s, i, j, RBrace)}
  IN  IF at = {} THEN 0 ELSE Min(at)

Refused(s, i, j) == \E k \in i .. j : k <= Len(s) /\ s[k] \in High \cup {FF}

(* Where the token after position i begins: behind spaces and comments,    *)
(* each from a "#" to the end of its line; 0 in a comment that has none.   *)
Start(s, i) ==
  LET at == {j \in i .. Len(s) + 1 :
               /\ j <= Len(s) => s[j] \notin Spaces \cup {"#"}
               /\ \A k \in i .. j - 1 :
                    s[k] = "#" => \E m \in k + 1 .. j - 1 : s[m] = NL}
  IN  IF at = {} THEN 0 ELSE Min(at)

(* The token whose text goes from i to j, as far as its first NUL, and the *)
(* position behind the token.                                              *)
Tok(type, s, i, j, next) ==
  LET to == IF Find(s, i, NUL) \in i .. j THEN Find(s, i, NUL) - 1 ELSE j
  IN  [tok |-> [type |-> type, str |-> SubSeq(s, i, to)], next |-> next]
Stop(mark) == [tok |-> mark, next |-> 0]

DirectiveAt(s, i) ==
  LET j == RunEnd(s, i + 1, Letters)
      word == SubSeq(s, i, j)
  IN  IF j > i /\ Refused(s, j + 1, j + 1) THEN Stop(Fatal)
      ELSE Tok(IF word \in DOMAIN Keyword THEN Keyword[word] ELSE "ERROR",
               s, i, j, j + 1)

StringAt(s, i) ==
  LET quote == Find(s, i + 1, Quote)
      last == IF quote = 0 THEN Len(s) ELSE IF quote = i + 1 THEN 0 ELSE quote
  IN  IF Refused(s, i + 2, last) THEN Stop(Fatal)
      ELSE IF quote = 0 THEN Stop(Hang)
      ELSE Tok("STRG", s, i + 1, quote - 1, quote + 1)

BlockAt(s, i) ==
  LET j == Closing(s, i)
  IN  IF j = 0 THEN Stop(Hang) ELSE Tok("BLOCK", s, i + 1, j - 1, j + 1)

RunAt(type, s, i, S) ==
  LET j == RunEnd(s, i, S) IN Tok(type, s, i, j, j + 1)

TokenAt(s, i) ==
  LET c == IF i > Len(s) THEN FF ELSE s[i]
  IN
  CASE c = FF -> Tok("END_OF_INPUT", s, i, i - 1, i)
    [] c = ":" -> Tok("COLON", s, i, i - 1, i + 1)
    [] c \in Digits -> RunAt("NUMBER", s, i, Digits)
    [] c \in Letters -> RunAt("SYMBOL", s, i, Letters \cup Digits)
    [] c = "%" -> DirectiveAt(s, i)
    [] c = Quote -> StringAt(s, i)
    [] c = LBrace -> BlockAt(s, i)
    [] OTHER -> Tok("ERROR", s, i, i - 1, i)

(* The first n tokens of s, each with the position behind it, and what is  *)
(* in front of them as the 0th.  A mark comes again.                       *)
Outset == [tok |-> Hang, next |-> 1]
After(s, last) ==
  IF last.next = 0 THEN last
  ELSE IF Start(s, last.next) = 0 THEN Stop(Hang)
  ELSE TokenAt(s, Start(s, last.next))

Cuts(s, n) ==
  LET cut[k \in 0 .. n] ==
        IF k = 0 THEN Outset ELSE After(s, cut[k - 1])
  IN  cut

Lexemes(s, n) == LET cuts == Cuts(s, n) IN [k \in 1 .. n |-> cuts[k].tok]
=============================================================================
