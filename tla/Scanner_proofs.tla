---------------------------- MODULE Scanner_proofs --------------------------
(***************************************************************************)
(* The scanner is the source of tokens that the parser is written for, for *)
(* every text over any classes of characters.                              *)
(***************************************************************************)
EXTENDS ScannerProps, SequenceTheorems, FiniteSetTheorems, NaturalsInduction,
        WellFoundedInduction, TLAPS

-----------------------------------------------------------------------------
(* The characters that are named are different ones.                       *)
LEMMA Marks ==
  /\ FF # NUL /\ FF # Quote /\ FF # LBrace /\ FF # RBrace
  /\ NUL # Quote /\ NUL # LBrace /\ NUL # RBrace
  /\ Quote # LBrace /\ Quote # RBrace /\ LBrace # RBrace
  /\ {FF, NUL, Quote, LBrace, RBrace} \cap {"#", ":", "%"} = {}
BY Zenon DEF FF, NUL, Quote, LBrace, RBrace

(* One more at the end of a sequence.                                      *)
LEMMA OneMore ==
  ASSUME NEW S, NEW s \in Seq(S), s # <<>>, NEW c \in S
  PROVE  /\ Append(s, c) \in Seq(S) /\ Append(s, c) # <<>>
         /\ Append(s, c)[1] = s[1]
<1>1. Len(s) \in Nat /\ Len(s) # 0
  OBVIOUS
<1>2. 1 \in 1 .. Len(s)
  BY <1>1
<1> QED BY <1>2, AppendProperties

(* A set of natural numbers has a least element.                           *)
LEMMA LeastNumber ==
  ASSUME NEW T, T \subseteq Nat, T # {}
  PROVE  \E x \in T : \A y \in T : x <= y
<1>1. PICK x \in T : \A y \in T : ~(<<y, x>> \in OpToRel(<, Nat))
  BY WFMin, NatLessThanWellFounded, Zenon
<1>2. \A y \in T : ~(y < x)
  BY <1>1 DEF OpToRel
<1> QED BY <1>2

(* copy_str keeps what comes before the first NUL.                         *)
LEMMA CopyStrIs ==
  ASSUME NEW S, NEW s \in Seq(S)
  PROVE  /\ CopyStr(s) \in Seq(S \ {NUL})
         /\ s # <<>> /\ s[1] # NUL => CopyStr(s) # <<>> /\ CopyStr(s)[1] = s[1]
         /\ s = <<>> => CopyStr(s) = <<>>
<1> DEFINE I == {i \in 1 .. Len(s) : s[i] = NUL}
<1>1. CopyStr(s) = IF (IF I # {} THEN Min(I) ELSE 0) = 0 THEN s
                   ELSE SubSeq(s, 1, (IF I # {} THEN Min(I) ELSE 0) - 1)
  BY DEF CopyStr, SelectInSeq
<1>2. /\ I \subseteq 1 .. Len(s) /\ Len(s) \in Nat
      /\ \A i \in 1 .. Len(s) : s[i] \in S /\ (s[i] = NUL <=> i \in I)
  OBVIOUS
<1> HIDE DEF I
<1>3. CASE I = {}
  <2>1. CopyStr(s) = s
    BY <1>1, <1>3
  <2>2. s \in Seq(S \ {NUL})
    BY <1>2, <1>3
  <2> QED BY <2>1, <2>2
<1>4. CASE I # {}
  <2>1. Min(I) \in I /\ \A y \in I : Min(I) <= y
    <3>1. \E x \in I : \A y \in I : x <= y
      <4>1. I \subseteq Nat
        BY <1>2
      <4> QED BY <1>4, <4>1, LeastNumber
    <3> QED BY <3>1 DEF Min
  <2> DEFINE n == Min(I)
             t == SubSeq(s, 1, n - 1)
  <2>2. n \in 1 .. Len(s) /\ s[n] = NUL
    BY <1>2, <2>1
  <2>3. CopyStr(s) = t
    BY <1>1, <1>4, <2>2
  <2>4. \A i \in 1 .. n - 1 : s[i] \in S \ {NUL}
    BY <1>2, <2>1, <2>2
  <2> HIDE DEF n
  <2>5. /\ t \in Seq(S) /\ Len(t) = n - 1
        /\ \A i \in 1 .. n - 1 : t[i] = s[i]
    BY <2>2
  <2> HIDE DEF t
  <2>6. t \in Seq(S \ {NUL})
    BY <2>2, <2>4, <2>5
  <2>7. s[1] # NUL => 1 \in 1 .. n - 1
    BY <2>2
  <2>8. s # <<>>
    BY <1>2, <2>2
  <2>9. 1 \in 1 .. n - 1 => t # <<>> /\ t[1] = s[1]
    BY <2>5
  <2> QED BY <2>3, <2>6, <2>7, <2>8, <2>9
<1> QED BY <1>3, <1>4

-----------------------------------------------------------------------------
(* The token that the parser was given last, and the invariant.            *)

TokenTypes ==
  {"none", "SYMBOL", "STRG", "NUMBER", "BLOCK", "COLON", "END_OF_INPUT", "ERROR",
   "VERBOSITY", "NAME", "PREFIX", "CODE"}
Cell == [type : TokenTypes, str : Seq(Bytes)]

Delivered ==
  AsToken(IF tokens = <<>> THEN [type |-> "ERROR", str |-> UnknownDirective]
                           ELSE Last(tokens))

TypeOK ==
  /\ rest \in Seq(Bytes) /\ tok \in Cell /\ tokens \in Seq(Cell)
  /\ errors \in Nat /\ alive \in BOOLEAN

(* What the text of the token is while it is read.                         *)
TextFits ==
  /\ pc \in {"start", "comment"} => tok.str = <<>>
  /\ pc = "symbol" => /\ tok.str \in Seq(Letters \cup Digits)
                      /\ tok.str # <<>> /\ tok.str[1] \in Letters
  /\ pc = "number" => tok.str \in Seq(Digits) /\ tok.str # <<>>
  /\ pc = "directive" => tok.str # <<>> /\ tok.str[1] = "%"
  /\ pc = "string" => tok.str \in Seq(Bytes \ {Quote})

(* A token that comes again for ever was delivered at a character that was *)
(* not consumed, or at the end.                                            *)
Stays ==
  /\ Delivered \in Source!Token
  /\ Delivered \in Source!Sticky => alive /\ pc \in {"idle", "start"}
  /\ Delivered = Source!EndToken => IsEnd(ch)
  /\ Delivered = Source!BadChar => ch \notin Starters /\ ~IsEnd(ch)

IInv == TypeOK /\ TextFits /\ Stays

(* The current character, and dropping it.                                 *)
LEMMA CurrentChar ==
  ASSUME rest \in Seq(Bytes)
  PROVE  /\ rest = <<>> => ch = EOF
         /\ rest # <<>> => ch \in Bytes
         /\ Drop(rest) \in Seq(Bytes)
         /\ ch \in Letters \cup Digits \cup Spaces => rest # <<>> /\ ch # NUL
         /\ IsEnd(ch) => ch \notin Letters \cup Digits \cup Spaces
                                     \cup {"#", ":", "%", Quote, LBrace, RBrace}
<1>1. rest = <<>> => ch = EOF
  BY DEF ch, Char
<1>2. rest # <<>> => ch \in Bytes
  BY DEF ch, Char
<1>3. Drop(rest) \in Seq(Bytes)
  BY DEF Drop
<1>4. ch \in Letters \cup Digits \cup Spaces => rest # <<>> /\ ch # NUL
  BY <1>1, ScannerAssumption DEF Bytes
<1>5. IsEnd(ch) => ch \notin Letters \cup Digits \cup Spaces
                              \cup {"#", ":", "%", Quote, LBrace, RBrace}
  BY ScannerAssumption, Marks DEF IsEnd, Bytes
<1> QED BY <1>1, <1>2, <1>3, <1>4, <1>5

(* How the parser sees a token of each type.                               *)
LEMMA AsTokenIs ==
  ASSUME NEW type \in TokenTypes, NEW s \in Seq(Bytes)
  PROVE  AsToken([type |-> type, str |-> s]) =
           IF type \in {"SYMBOL", "STRG", "NUMBER", "BLOCK"}
           THEN [type |-> type, str |-> s]
           ELSE IF type = "ERROR" /\ s # <<>>
           THEN [type |-> "ERROR", str |-> UnknownDirective]
           ELSE [type |-> type, str |-> <<>>]
BY DEF AsToken

(* consume_token returns.                                                  *)
LEMMA ReturnGives ==
  ASSUME TypeOK, NEW type \in TokenTypes, Return(type)
  PROVE  /\ tok' \in Cell /\ tokens' \in Seq(Cell) /\ pc' = "idle"
         /\ CopyStr(tok.str) \in Seq(AnyChar)
         /\ Delivered' = AsToken([type |-> type, str |-> CopyStr(tok.str)])
<1> DEFINE s == CopyStr(tok.str)
           c == [type |-> type, str |-> s]
<1>1. tok' = [tok EXCEPT !.type = type] /\ tokens' = Append(tokens, c)
      /\ pc' = "idle"
  BY DEF Return
<1>2. tok \in Cell /\ tokens \in Seq(Cell) /\ tok.str \in Seq(Bytes)
  BY DEF TypeOK, Cell
<1>3. s \in Seq(AnyChar)
  BY <1>2, CopyStrIs DEF AnyChar
<1> HIDE DEF s
<1>4. s \in Seq(Bytes)
  BY <1>3 DEF AnyChar
<1>5. c \in Cell
  BY <1>4 DEF Cell
<1>6. tok' \in Cell
  BY <1>1, <1>2 DEF Cell
<1> HIDE DEF c
<1>7. tokens' \in Seq(Cell) /\ tokens' # <<>> /\ Last(tokens') = c
  <2> DEFINE C == Cell
  <2>1. tokens \in Seq(C) /\ c \in C
    BY <1>2, <1>5
  <2> HIDE DEF C
  <2> DEFINE q == Append(tokens, c)
  <2>2. q \in Seq(C) /\ Len(q) = Len(tokens) + 1 /\ q[Len(tokens) + 1] = c
        /\ Len(tokens) \in Nat
    BY <2>1
  <2> HIDE DEF q
  <2>3. q # <<>> /\ Last(q) = c
    BY <2>2 DEF Last
  <2> QED BY <1>1, <2>2, <2>3 DEF q, C
<1>8. Delivered' = AsToken(c)
  BY <1>7 DEF Delivered
<1> QED BY <1>1, <1>3, <1>6, <1>7, <1>8 DEF c, s

(* The tokens that the scanner returns, as those of the source.            *)
LEMMA SourceTokens ==
  /\ \A s \in Seq(Letters \cup Digits) : s # <<>> /\ s[1] \in Letters =>
       [type |-> "SYMBOL", str |-> s] \in Source!Token
  /\ \A s \in Seq(Digits) : s # <<>> => [type |-> "NUMBER", str |-> s] \in Source!Token
  /\ \A s \in Seq(AnyChar \ {Quote}) : [type |-> "STRG", str |-> s] \in Source!Token
  /\ \A s \in Seq(AnyChar) : [type |-> "BLOCK", str |-> s] \in Source!Token
  /\ \A y \in {"VERBOSITY", "NAME", "PREFIX", "CODE", "COLON", "END_OF_INPUT", "ERROR"} :
       [type |-> y, str |-> <<>>] \in Source!Token
  /\ [type |-> "ERROR", str |-> UnknownDirective] \in Source!Token
  /\ Source!Sticky = {Source!EndToken, Source!BadChar}
  /\ Source!EndToken = [type |-> "END_OF_INPUT", str |-> <<>>]
  /\ Source!BadChar = [type |-> "ERROR", str |-> <<>>]
  /\ UnknownDirective # <<>>
BY DEF Source!Token, Source!Sticky, Source!EndToken, Source!BadChar, Source!Colon,
       Source!BadDirective, Source!DirectiveTypes, UnknownDirective

(* Nothing is returned: the parser keeps the token that it has.            *)
LEMMA NothingReturned ==
  ASSUME IInv, UNCHANGED <<tokens, errors, alive>>,
         rest' \in Seq(Bytes), tok' \in Cell, TextFits',
         Delivered \in Source!Sticky => pc' \in {"idle", "start"} /\ rest' = rest
  PROVE  IInv' /\ UNCHANGED <<Delivered, errors, alive>>
<1>1. Delivered' = Delivered
  BY DEF Delivered
<1>2. TypeOK'
  BY DEF IInv, TypeOK
<1>3. rest' = rest => ch' = ch
  BY DEF ch
<1>4. /\ Delivered \in Source!Token
      /\ Delivered \in Source!Sticky => alive /\ pc' \in {"idle", "start"} /\ ch' = ch
      /\ Delivered = Source!EndToken => Delivered \in Source!Sticky /\ IsEnd(ch)
      /\ Delivered = Source!BadChar =>
           Delivered \in Source!Sticky /\ ch \notin Starters /\ ~IsEnd(ch)
  BY <1>3, SourceTokens DEF IInv, Stays
<1>5. Stays'
  BY <1>1, <1>4 DEF Stays
<1> QED BY <1>1, <1>2, <1>5 DEF IInv

(* The source delivers a token that does not come again by itself.         *)
LEMMA TokenReturned ==
  ASSUME IInv, NEW type \in TokenTypes, Return(type), alive, UNCHANGED alive,
         rest' \in Seq(Bytes), Delivered \notin Source!Sticky,
         Delivered' \in Source!Token, Delivered' \notin Source!Sticky,
         errors' = errors + Source!ScanErrors(Delivered')
  PROVE  IInv' /\ Source!Next
<1>1. tok' \in Cell /\ tokens' \in Seq(Cell) /\ pc' = "idle"
  BY ReturnGives DEF IInv
<1>2. errors' \in Nat
  <2>1. Source!ScanErrors(Delivered') \in Nat
    BY DEF Source!ScanErrors, Source!Report
  <2> QED BY <2>1 DEF IInv, TypeOK
<1>3. TypeOK' /\ TextFits'
  BY <1>1, <1>2 DEF IInv, TypeOK, TextFits
<1>4. Stays'
  BY SourceTokens DEF Stays
<1>5. Source!Deliver
  BY DEF Source!Deliver, Source!Following, Delivered
<1> QED BY <1>3, <1>4, <1>5 DEF IInv, Source!Next

(* Such a token that is no error.                                          *)
LEMMA PlainReturned ==
  ASSUME IInv, NEW type \in TokenTypes, type \notin {"none", "ERROR", "END_OF_INPUT"},
         Return(type), alive, UNCHANGED <<errors, alive>>,
         rest' \in Seq(Bytes), Delivered \notin Source!Sticky,
         Delivered' \in Source!Token, Delivered'.type = type
  PROVE  IInv' /\ Source!Next
<1>1. Delivered' \notin Source!Sticky
  <2>1. /\ Source!EndToken.type = "END_OF_INPUT" /\ Source!BadChar.type = "ERROR"
        /\ Source!Sticky = {Source!EndToken, Source!BadChar}
    BY SourceTokens
  <2> QED BY <2>1
<1>2. Source!ScanErrors(Delivered') = 0
  BY DEF Source!ScanErrors, Source!Report
<1>3. errors' = errors + Source!ScanErrors(Delivered')
  BY <1>2 DEF IInv, TypeOK
<1> QED BY <1>1, <1>3, TokenReturned

(* Where the current character starts a token or is skipped, and within a  *)
(* token, the source has not come to a stop.                               *)
LEMMA NotStuck ==
  ASSUME IInv, pc \notin {"idle", "start"} \/ ch \in Starters
  PROVE  Delivered \notin Source!Sticky
<1>1. IsEnd(ch) => ch \notin Starters
  BY CurrentChar DEF IInv, TypeOK, Starters
<1> QED BY <1>1, SourceTokens DEF IInv, Stays

(* The current character is kept.                                          *)
LEMMA CharKept ==
  ASSUME IInv, KeepChar, ch \in Bytes
  PROVE  tok' \in Cell /\ tok'.str = Append(tok.str, ch)
<1> DEFINE s == Append(tok.str, ch)
<1>1. tok \in Cell /\ tok' = [tok EXCEPT !.str = s]
  BY DEF KeepChar, IInv, TypeOK
<1>2. s \in Seq(Bytes)
  BY <1>1 DEF Cell
<1> HIDE DEF s
<1>3. tok' \in Cell /\ tok'.str = s
  BY <1>1, <1>2 DEF Cell
<1> QED BY <1>3 DEF s

(* consume_token is called.                                                *)
LEMMA CallStep ==
  ASSUME IInv, Call
  PROVE  IInv' /\ UNCHANGED <<Delivered, errors, alive>>
<1>1. /\ pc' = "start" /\ tok' = NoToken
      /\ UNCHANGED <<rest, tokens, errors, alive>>
  BY DEF Call
<1>2. tok' \in Cell /\ tok'.str = <<>>
  BY <1>1 DEF NoToken, Cell, TokenTypes
<1>3. rest' \in Seq(Bytes) /\ TextFits'
  BY <1>1, <1>2 DEF IInv, TypeOK, TextFits
<1> QED BY <1>1, <1>2, <1>3, NothingReturned

(* Spaces, comments and the characters that open a token.                  *)
LEMMA SkipStep ==
  ASSUME IInv, SkipSpace \/ BeginComment \/ SkipComment \/ BeginString \/ BeginBlock
  PROVE  IInv' /\ UNCHANGED <<Delivered, errors, alive>>
<1>1. /\ UNCHANGED <<tok, tokens, errors, alive>>
      /\ rest' = Drop(rest) \/ rest' = rest
      /\ pc \in {"start", "comment"}
      /\ pc' \in {"start", "comment", "string", "block"}
  BY DEF SkipSpace, BeginComment, SkipComment, BeginString, BeginBlock, ConsumeChar,
         Working
<1>2. Delivered \notin Source!Sticky
  <2>1. pc = "comment" \/ ch \in Starters
    BY DEF SkipSpace, BeginComment, SkipComment, BeginString, BeginBlock, Working,
           Starters
  <2> QED BY <2>1, NotStuck
<1>3. rest' \in Seq(Bytes) /\ tok' \in Cell
  BY <1>1, CurrentChar DEF IInv, TypeOK
<1>4. TextFits'
  <2>1. tok'.str = <<>>
    BY <1>1 DEF IInv, TextFits
  <2> QED BY <1>1, <2>1 DEF TextFits
<1> QED BY <1>1, <1>2, <1>3, <1>4, NothingReturned

(* The tokens of one character, and of none.                               *)
LEMMA ColonStep ==
  ASSUME IInv, GetColon
  PROVE  IInv' /\ Source!Next
<1>1. /\ pc = "start" /\ ch = ":" /\ alive /\ UNCHANGED <<errors, alive>>
      /\ rest' = Drop(rest) /\ Return("COLON")
  BY DEF GetColon, ConsumeChar, Working
<1>2. rest' \in Seq(Bytes)
  BY <1>1, CurrentChar DEF IInv, TypeOK
<1>3. Delivered \notin Source!Sticky
  BY <1>1, NotStuck DEF Starters
<1>4. Delivered' = [type |-> "COLON", str |-> <<>>]
  <2>1. "COLON" \in TokenTypes
    BY DEF TokenTypes
  <2>2. /\ CopyStr(tok.str) \in Seq(Bytes)
        /\ Delivered' = AsToken([type |-> "COLON", str |-> CopyStr(tok.str)])
    BY <1>1, <2>1, ReturnGives DEF IInv, AnyChar
  <2> QED BY <2>1, <2>2, AsTokenIs
<1>5. Delivered' \in Source!Token /\ Delivered'.type = "COLON"
  BY <1>4, SourceTokens
<1> QED BY <1>1, <1>2, <1>3, <1>5, PlainReturned DEF TokenTypes

(* The end of the input stays the end.                                     *)
LEMMA EndStep ==
  ASSUME IInv, EndOfInput
  PROVE  IInv' /\ Source!Next /\ Delivered' \in Source!Sticky
<1>1. /\ pc = "start" /\ IsEnd(ch) /\ alive /\ UNCHANGED <<rest, errors, alive>>
      /\ Return("END_OF_INPUT")
  BY DEF EndOfInput, Working
<1>2. "END_OF_INPUT" \in TokenTypes
  BY DEF TokenTypes
<1>3. /\ CopyStr(tok.str) \in Seq(Bytes)
      /\ Delivered' = AsToken([type |-> "END_OF_INPUT", str |-> CopyStr(tok.str)])
      /\ tok' \in Cell /\ tokens' \in Seq(Cell) /\ pc' = "idle"
  BY <1>1, <1>2, ReturnGives DEF IInv, AnyChar
<1>4. Delivered' = Source!EndToken
  BY <1>2, <1>3, AsTokenIs, SourceTokens
<1>5. TypeOK' /\ TextFits'
  BY <1>1, <1>3 DEF IInv, TypeOK, TextFits
<1>6. Stays'
  <2>1. IsEnd(ch)'
    BY <1>1 DEF ch
  <2>2. Delivered' \in Source!Token /\ Delivered' # Source!BadChar
    BY <1>4, SourceTokens
  <2> QED BY <1>1, <1>3, <2>1, <2>2 DEF Stays
<1>7. Delivered' \in Source!Following(Delivered)
  <2>1. Delivered # Source!BadChar
    BY <1>1 DEF IInv, Stays
  <2>2. Delivered' \in Source!Token
    BY <1>4, SourceTokens
  <2> QED BY <1>4, <2>1, <2>2, SourceTokens DEF Source!Following
<1>8. errors' = errors + Source!ScanErrors(Delivered')
  <2>1. Source!ScanErrors(Delivered') = 0
    BY <1>4, SourceTokens DEF Source!ScanErrors, Source!Report
  <2> QED BY <1>1, <2>1 DEF IInv, TypeOK
<1>9. Source!Deliver
  BY <1>1, <1>7, <1>8 DEF Source!Deliver, Delivered
<1> QED BY <1>4, <1>5, <1>6, <1>9, SourceTokens DEF IInv, Source!Next

(* A character that starts no token is reported at every call.             *)
LEMMA BadCharStep ==
  ASSUME IInv, BadChar
  PROVE  IInv' /\ Source!Next /\ Delivered' \in Source!Sticky
<1>1. /\ pc = "start" /\ ch \notin Starters /\ ~IsEnd(ch) /\ alive
      /\ UNCHANGED <<rest, alive>> /\ errors' = errors + 1
      /\ Return("ERROR")
  BY DEF BadChar, Working, LeaveChar
<1>2. "ERROR" \in TokenTypes /\ tok.str = <<>> /\ tok.str \in Seq(Bytes)
  <2>1. tok.str = <<>>
    BY <1>1 DEF IInv, TextFits
  <2> QED BY <2>1 DEF TokenTypes
<1>3. /\ CopyStr(tok.str) = <<>>
      /\ Delivered' = AsToken([type |-> "ERROR", str |-> <<>>])
      /\ tok' \in Cell /\ tokens' \in Seq(Cell) /\ pc' = "idle"
  <2>1. CopyStr(tok.str) = <<>>
    BY <1>2, CopyStrIs
  <2> QED BY <1>1, <1>2, <2>1, ReturnGives DEF IInv
<1>4. Delivered' = Source!BadChar
  <2>1. <<>> \in Seq(Bytes)
    OBVIOUS
  <2> QED BY <1>2, <1>3, <2>1, AsTokenIs, SourceTokens
<1>5. TypeOK' /\ TextFits'
  BY <1>1, <1>3 DEF IInv, TypeOK, TextFits
<1>6. Stays'
  <2>1. ch' = ch
    BY <1>1 DEF ch
  <2>2. Delivered' \in Source!Token /\ Delivered' # Source!EndToken
    BY <1>4, SourceTokens
  <2> QED BY <1>1, <1>3, <2>1, <2>2 DEF Stays
<1>7. Delivered' \in Source!Following(Delivered)
  <2>1. Delivered # Source!EndToken
    BY <1>1 DEF IInv, Stays
  <2>2. Delivered' \in Source!Token
    BY <1>4, SourceTokens
  <2> QED BY <1>4, <2>1, <2>2, SourceTokens DEF Source!Following
<1>8. errors' = errors + Source!ScanErrors(Delivered')
  <2>1. Source!ScanErrors(Delivered') = 1
    BY <1>4, SourceTokens DEF Source!ScanErrors, Source!Report
  <2> QED BY <1>1, <2>1
<1>9. Source!Deliver
  BY <1>1, <1>7, <1>8 DEF Source!Deliver, Delivered
<1> QED BY <1>4, <1>5, <1>6, <1>9, SourceTokens DEF IInv, Source!Next

(* A directive, a number and a symbol begin with their first character.    *)
LEMMA WordBegins ==
  ASSUME IInv, BeginWord
  PROVE  IInv' /\ UNCHANGED <<Delivered, errors, alive>>
<1>1. /\ pc = "start" /\ UNCHANGED <<tokens, errors, alive>>
      /\ rest' = Drop(rest) /\ KeepChar
      /\ \/ ch = "%" /\ pc' = "directive"
         \/ ch \in Digits /\ pc' = "number"
         \/ ch \in Letters /\ pc' = "symbol"
  BY DEF BeginWord, ConsumeChar, Working
<1>2. ch \in Starters /\ ch \in Bytes
  BY <1>1 DEF Starters, Bytes
<1>3. tok' \in Cell /\ tok'.str = <<ch>>
  <2>1. tok' \in Cell /\ tok'.str = Append(tok.str, ch) /\ tok.str = <<>>
    BY <1>1, <1>2, CharKept DEF IInv, TextFits
  <2>2. \A z : Append(<<>>, z) = <<z>>
    OBVIOUS
  <2> QED BY <2>1, <2>2
<1>4. rest' \in Seq(Bytes)
  BY <1>1, CurrentChar DEF IInv, TypeOK
<1>5. TextFits'
  <2>1. /\ <<ch>> # <<>> /\ <<ch>>[1] = ch
        /\ ch \in Digits => <<ch>> \in Seq(Digits)
        /\ ch \in Letters => <<ch>> \in Seq(Letters \cup Digits)
    OBVIOUS
  <2> QED BY <1>1, <1>3, <2>1 DEF TextFits
<1>6. Delivered \notin Source!Sticky
  BY <1>2, NotStuck
<1> QED BY <1>1, <1>3, <1>4, <1>5, <1>6, NothingReturned

(* The process ends within a token.                                        *)
LEMMA Exits ==
  ASSUME IInv, alive, alive' = FALSE, errors' \in {errors, errors + 2},
         UNCHANGED tokens, rest' \in Seq(Bytes), tok' \in Cell, TextFits',
         Delivered \notin Source!Sticky
  PROVE  IInv' /\ Source!Next
<1>1. Delivered' = Delivered
  BY DEF Delivered
<1>2. TypeOK'
  <2>1. errors \in Nat
    BY DEF IInv, TypeOK
  <2>2. errors' \in Nat
    BY <2>1
  <2> QED BY <2>2 DEF IInv, TypeOK
<1>3. Stays'
  <2>1. Delivered \in Source!Token
    BY DEF IInv, Stays
  <2> QED BY <1>1, <2>1, SourceTokens DEF Stays
<1>4. Source!End
  BY <1>1 DEF Source!End, Delivered
<1> QED BY <1>2, <1>3, <1>4 DEF IInv, Source!Next

(* Within a directive or a string: one more character, or a refused one.   *)
LEMMA ReadStep ==
  ASSUME IInv, ReadDirective \/ ReadString
  PROVE  IInv' /\ (UNCHANGED <<Delivered, errors, alive>> \/ Source!Next)
<1>1. /\ pc \in {"directive", "string"} /\ alive /\ UNCHANGED <<pc, tokens>>
      /\ rest' = Drop(rest) /\ KeepChar
      /\ (errors' = errors + 2 /\ alive' = FALSE) \/ UNCHANGED <<errors, alive>>
  BY DEF ReadDirective, ReadString, Working, ConsumeChar, CheckEof
<1>2. ch \in Bytes /\ (pc = "string" => ch # Quote)
  <2>1. ch \in Letters \/ rest # <<>>
    BY DEF ReadDirective, ReadString
  <2>2. ch \in Bytes
    BY <2>1, CurrentChar DEF IInv, TypeOK, Bytes
  <2> QED BY <2>2 DEF ReadDirective, ReadString, Working
<1>3. tok' \in Cell /\ tok'.str = Append(tok.str, ch)
  BY <1>1, <1>2, CharKept
<1>4. rest' \in Seq(Bytes)
  BY <1>1, CurrentChar DEF IInv, TypeOK
<1>5. TextFits'
  <2> DEFINE s == tok.str
             t == Append(s, ch)
  <2>1. CASE pc = "directive"
    <3>1. s \in Seq(Bytes) /\ s # <<>> /\ s[1] = "%"
      BY <2>1 DEF IInv, TypeOK, TextFits, Cell
    <3>2. t # <<>> /\ t[1] = s[1]
      BY <1>2, <3>1, OneMore
    <3> QED BY <1>1, <1>3, <2>1, <3>1, <3>2 DEF TextFits
  <2>2. CASE pc = "string"
    <3> DEFINE S == Bytes \ {Quote}
    <3>1. s \in Seq(S) /\ ch \in S
      BY <1>2, <2>2 DEF IInv, TextFits
    <3> HIDE DEF s, S
    <3>2. t \in Seq(S)
      BY <3>1
    <3> QED BY <1>1, <1>3, <2>2, <3>2 DEF TextFits, s, S
  <2> QED BY <1>1, <2>1, <2>2
<1>6. Delivered \notin Source!Sticky
  BY <1>1, NotStuck
<1>7. CASE UNCHANGED <<errors, alive>>
  BY <1>1, <1>3, <1>4, <1>5, <1>6, <1>7, NothingReturned
<1>8. CASE errors' = errors + 2 /\ alive' = FALSE
  BY <1>1, <1>3, <1>4, <1>5, <1>6, <1>8, Exits
<1> QED BY <1>1, <1>7, <1>8

(* A directive is complete, and known or not.                              *)
LEMMA DirectiveEnds ==
  ASSUME IInv, EndDirective
  PROVE  IInv' /\ Source!Next
<1>1. pc = "directive" /\ alive /\ UNCHANGED <<rest, alive>>
  BY DEF EndDirective, Working
<1>2. Delivered \notin Source!Sticky /\ rest' \in Seq(Bytes)
  BY <1>1, NotStuck DEF IInv, TypeOK
<1>3. CASE tok.str \in DOMAIN Keyword
  <2> DEFINE y == Keyword[tok.str]
  <2>1. Return(y) /\ UNCHANGED errors
    BY <1>3 DEF EndDirective
  <2>2. y \in {"VERBOSITY", "NAME", "PREFIX", "CODE"}
    BY <1>3, ScannerAssumption
  <2> HIDE DEF y
  <2>3. y \in TokenTypes
    BY <2>2 DEF TokenTypes
  <2>4. /\ CopyStr(tok.str) \in Seq(Bytes)
        /\ Delivered' = AsToken([type |-> y, str |-> CopyStr(tok.str)])
    BY <2>1, <2>3, ReturnGives DEF IInv, AnyChar
  <2>5. Delivered' = [type |-> y, str |-> <<>>]
    BY <2>2, <2>3, <2>4, AsTokenIs
  <2>6. Delivered' \in Source!Token /\ Delivered'.type = y
    BY <2>2, <2>5, SourceTokens
  <2> QED BY <1>1, <1>2, <2>1, <2>2, <2>3, <2>6, PlainReturned
<1>4. CASE tok.str \notin DOMAIN Keyword
  <2>1. Return("ERROR") /\ errors' = errors + 1 /\ "ERROR" \in TokenTypes
    BY <1>4 DEF EndDirective, TokenTypes
  <2>2. tok.str # <<>> /\ tok.str[1] # NUL /\ tok.str \in Seq(Bytes)
    BY <1>1 DEF IInv, TypeOK, TextFits, Cell, NUL
  <2>3. /\ CopyStr(tok.str) \in Seq(Bytes)
        /\ Delivered' = AsToken([type |-> "ERROR", str |-> CopyStr(tok.str)])
    BY <2>1, ReturnGives DEF IInv, AnyChar
  <2>4. CopyStr(tok.str) # <<>>
    BY <2>2, CopyStrIs
  <2>5. Delivered' = [type |-> "ERROR", str |-> UnknownDirective]
    BY <2>1, <2>3, <2>4, AsTokenIs
  <2>6. Delivered' \in Source!Token /\ Delivered' \notin Source!Sticky
    BY <2>5, SourceTokens
  <2>7. Source!ScanErrors(Delivered') = 1
    BY <2>5 DEF Source!ScanErrors, Source!Report
  <2>8. errors' = errors + Source!ScanErrors(Delivered')
    BY <2>1, <2>7
  <2> QED BY <1>1, <1>2, <2>1, <2>6, <2>8, TokenReturned
<1> QED BY <1>3, <1>4
(* A string is complete.                                                   *)
LEMMA StringEnds ==
  ASSUME IInv, EndString
  PROVE  IInv' /\ Source!Next
<1>1. /\ pc = "string" /\ alive /\ UNCHANGED <<errors, alive>>
      /\ rest' = Drop(rest) /\ Return("STRG")
  BY DEF EndString, Working, ConsumeChar
<1>2. Delivered \notin Source!Sticky /\ rest' \in Seq(Bytes)
  BY <1>1, NotStuck, CurrentChar DEF IInv, TypeOK
<1>3. "STRG" \in TokenTypes
  BY DEF TokenTypes
<1> DEFINE s == CopyStr(tok.str)
<1>4. s \in Seq(AnyChar \ {Quote}) /\ s \in Seq(Bytes)
  <2> DEFINE S == Bytes \ {Quote}
  <2>1. tok.str \in Seq(S)
    BY <1>1 DEF IInv, TextFits
  <2> HIDE DEF S
  <2>2. s \in Seq(S \ {NUL})
    BY <2>1, CopyStrIs
  <2> HIDE DEF s
  <2> DEFINE T == AnyChar \ {Quote}
  <2>3. S \ {NUL} = T /\ T \subseteq Bytes
    BY DEF S, AnyChar
  <2> HIDE DEF T
  <2>4. s \in Seq(T) /\ s \in Seq(Bytes)
    BY <2>2, <2>3
  <2> QED BY <2>4 DEF T
<1>5. Delivered' = AsToken([type |-> "STRG", str |-> s])
  BY <1>1, <1>3, ReturnGives DEF IInv
<1> HIDE DEF s
<1>6. Delivered' = [type |-> "STRG", str |-> s]
  BY <1>3, <1>4, <1>5, AsTokenIs
<1>7. Delivered' \in Source!Token /\ Delivered'.type = "STRG"
  BY <1>4, <1>6, SourceTokens
<1> QED BY <1>1, <1>2, <1>3, <1>7, PlainReturned

(* The text of a number or a symbol has no NUL, and is returned as it is.  *)
LEMMA WordText ==
  ASSUME NEW S, S \subseteq Letters \cup Digits, tok.str \in Seq(S), tok.str # <<>>
  PROVE  /\ CopyStr(tok.str) \in Seq(S) /\ CopyStr(tok.str) \in Seq(Bytes)
         /\ CopyStr(tok.str) # <<>> /\ CopyStr(tok.str)[1] = tok.str[1]
<1> DEFINE s == tok.str
           c == CopyStr(s)
<1>1. NUL \notin S /\ S \subseteq Bytes
  BY ScannerAssumption DEF Bytes
<1>2. s \in Seq(S) /\ s # <<>>
  OBVIOUS
<1> HIDE DEF s
<1>3. s[1] \in S
  BY <1>2
<1>4. c \in Seq(S \ {NUL}) /\ c # <<>> /\ c[1] = s[1]
  BY <1>1, <1>2, <1>3, CopyStrIs
<1> HIDE DEF c
<1>5. c \in Seq(S) /\ c \in Seq(Bytes)
  BY <1>1, <1>4
<1> QED BY <1>4, <1>5 DEF c, s

(* One more digit, or the end of a number.                                 *)
LEMMA NumberStep ==
  ASSUME IInv, ReadNumber
  PROVE  IInv' /\ (UNCHANGED <<Delivered, errors, alive>> \/ Source!Next)
<1>1. pc = "number" /\ alive /\ UNCHANGED <<errors, alive>>
  BY DEF ReadNumber, Working
<1>2. Delivered \notin Source!Sticky /\ tok.str \in Seq(Digits) /\ tok.str # <<>>
  BY <1>1, NotStuck DEF IInv, TextFits
<1>3. CASE ch \in Digits
  <2>1. rest' = Drop(rest) /\ KeepChar /\ UNCHANGED <<pc, tokens>>
    BY <1>3 DEF ReadNumber, ConsumeChar
  <2>2. rest' \in Seq(Bytes) /\ ch \in Bytes
    BY <1>3, <2>1, CurrentChar DEF IInv, TypeOK, Bytes
  <2>3. tok' \in Cell /\ tok'.str = Append(tok.str, ch)
    BY <2>1, <2>2, CharKept
  <2>4. Append(tok.str, ch) \in Seq(Digits) /\ Append(tok.str, ch) # <<>>
    BY <1>2, <1>3, OneMore
  <2>5. TextFits'
    BY <1>1, <2>1, <2>3, <2>4 DEF TextFits
  <2> QED BY <1>1, <1>2, <2>1, <2>2, <2>3, <2>5, NothingReturned
<1>4. CASE ch \notin Digits
  <2>1. Return("NUMBER") /\ UNCHANGED rest /\ "NUMBER" \in TokenTypes
    BY <1>4 DEF ReadNumber, TokenTypes
  <2> DEFINE s == CopyStr(tok.str)
  <2>2. s \in Seq(Digits) /\ s \in Seq(Bytes) /\ s # <<>>
    BY <1>2, WordText
  <2>3. Delivered' = AsToken([type |-> "NUMBER", str |-> s])
    BY <2>1, ReturnGives DEF IInv
  <2> HIDE DEF s
  <2>4. Delivered' = [type |-> "NUMBER", str |-> s]
    BY <2>1, <2>2, <2>3, AsTokenIs
  <2>5. Delivered' \in Source!Token /\ Delivered'.type = "NUMBER"
    BY <2>2, <2>4, SourceTokens
  <2>6. rest' \in Seq(Bytes)
    BY <2>1 DEF IInv, TypeOK
  <2> QED BY <1>1, <1>2, <2>1, <2>5, <2>6, PlainReturned
<1> QED BY <1>3, <1>4

(* One more character, or the end of a symbol.                             *)
LEMMA SymbolStep ==
  ASSUME IInv, ReadSymbol
  PROVE  IInv' /\ (UNCHANGED <<Delivered, errors, alive>> \/ Source!Next)
<1> DEFINE S == Letters \cup Digits
<1>1. pc = "symbol" /\ alive /\ UNCHANGED <<errors, alive>>
  BY DEF ReadSymbol, Working
<1>2. /\ Delivered \notin Source!Sticky
      /\ tok.str \in Seq(S) /\ tok.str # <<>> /\ tok.str[1] \in Letters
  BY <1>1, NotStuck DEF IInv, TextFits
<1>3. CASE IsSymbol1(ch)
  <2>1. rest' = Drop(rest) /\ KeepChar /\ UNCHANGED <<pc, tokens>> /\ ch \in S
    BY <1>3 DEF ReadSymbol, ConsumeChar, IsSymbol1
  <2>2. rest' \in Seq(Bytes) /\ ch \in Bytes
    BY <2>1, CurrentChar DEF IInv, TypeOK, Bytes
  <2>3. tok' \in Cell /\ tok'.str = Append(tok.str, ch)
    BY <2>1, <2>2, CharKept
  <2>4. /\ Append(tok.str, ch) \in Seq(S) /\ Append(tok.str, ch) # <<>>
        /\ Append(tok.str, ch)[1] \in Letters
    BY <1>2, <2>1, OneMore
  <2>5. TextFits'
    BY <1>1, <2>1, <2>3, <2>4 DEF TextFits
  <2> QED BY <1>1, <1>2, <2>1, <2>2, <2>3, <2>5, NothingReturned
<1>4. CASE ~IsSymbol1(ch)
  <2>1. Return("SYMBOL") /\ UNCHANGED rest /\ "SYMBOL" \in TokenTypes
    BY <1>4 DEF ReadSymbol, TokenTypes
  <2> DEFINE s == CopyStr(tok.str)
  <2>2. s \in Seq(S) /\ s \in Seq(Bytes) /\ s # <<>> /\ s[1] \in Letters
    BY <1>2, WordText
  <2>3. Delivered' = AsToken([type |-> "SYMBOL", str |-> s])
    BY <2>1, ReturnGives DEF IInv
  <2> HIDE DEF s
  <2>4. Delivered' = [type |-> "SYMBOL", str |-> s]
    BY <2>1, <2>2, <2>3, AsTokenIs
  <2>5. Delivered' \in Source!Token /\ Delivered'.type = "SYMBOL"
    BY <2>2, <2>4, SourceTokens
  <2>6. rest' \in Seq(Bytes)
    BY <2>1 DEF IInv, TypeOK
  <2> QED BY <1>1, <1>2, <2>1, <2>5, <2>6, PlainReturned
<1> QED BY <1>3, <1>4

(* One more character, or the end of a block.                              *)
LEMMA BlockStep ==
  ASSUME IInv, ReadBlock
  PROVE  IInv' /\ (UNCHANGED <<Delivered, errors, alive>> \/ Source!Next)
<1>1. /\ pc = "block" /\ alive /\ UNCHANGED <<errors, alive>>
      /\ rest # <<>> /\ rest' = Drop(rest)
  BY DEF ReadBlock, Working, ConsumeChar
<1>2. /\ Delivered \notin Source!Sticky
      /\ rest' \in Seq(Bytes) /\ ch \in Bytes
  BY <1>1, NotStuck, CurrentChar DEF IInv, TypeOK
<1>3. CASE count' > 0
  <2>1. KeepChar /\ UNCHANGED <<pc, tokens>>
    BY <1>3 DEF ReadBlock
  <2>2. tok' \in Cell
    BY <1>2, <2>1, CharKept
  <2>3. TextFits'
    BY <1>1, <2>1 DEF TextFits
  <2> QED BY <1>1, <1>2, <2>1, <2>2, <2>3, NothingReturned
<1>4. CASE ~(count' > 0)
  <2>1. Return("BLOCK") /\ "BLOCK" \in TokenTypes
    BY <1>4 DEF ReadBlock, TokenTypes
  <2> DEFINE s == CopyStr(tok.str)
  <2>2. s \in Seq(AnyChar) /\ Delivered' = AsToken([type |-> "BLOCK", str |-> s])
    BY <2>1, ReturnGives DEF IInv
  <2> HIDE DEF s
  <2>3. s \in Seq(Bytes)
    BY <2>2 DEF AnyChar
  <2>4. Delivered' = [type |-> "BLOCK", str |-> s]
    BY <2>1, <2>2, <2>3, AsTokenIs
  <2>5. Delivered' \in Source!Token /\ Delivered'.type = "BLOCK"
    <3>1. [type |-> "BLOCK", str |-> s] \in Source!Token
      BY <2>2, SourceTokens
    <3> QED BY <2>4, <3>1
  <2> QED BY <1>1, <1>2, <2>1, <2>5, PlainReturned
<1> QED BY <1>3, <1>4

(* The loop that the end of the file does not stop runs out of memory.     *)
LEMMA MemoryEnds ==
  ASSUME IInv, OutOfMemory
  PROVE  IInv' /\ Source!Next
<1>1. /\ pc \in {"string", "block"} /\ alive /\ alive' = FALSE
      /\ UNCHANGED <<rest, tok, pc, tokens, errors>>
  BY DEF OutOfMemory, Spinning
<1>2. Delivered \notin Source!Sticky
  BY <1>1, NotStuck
<1>3. rest' \in Seq(Bytes) /\ tok' \in Cell /\ TextFits'
  BY <1>1 DEF IInv, TypeOK, TextFits
<1> QED BY <1>1, <1>2, <1>3, Exits

(* Nothing happens.                                                        *)
LEMMA Stutter ==
  ASSUME IInv, UNCHANGED vars
  PROVE  IInv' /\ UNCHANGED <<Delivered, errors, alive>>
<1>1. UNCHANGED <<rest, tok, pc, tokens, errors, alive>>
  BY DEF vars
<1>2. UNCHANGED <<Delivered, ch>>
  BY <1>1 DEF Delivered, ch
<1>3. TypeOK'
  BY <1>1 DEF IInv, TypeOK
<1>4. TextFits'
  BY <1>1 DEF IInv, TextFits
<1>5. Stays'
  BY <1>1, <1>2 DEF IInv, Stays
<1> QED BY <1>1, <1>2, <1>3, <1>4, <1>5 DEF IInv

-----------------------------------------------------------------------------
(* At the start nothing has been delivered.                                *)
LEMMA InitIInv ==
  ASSUME Init
  PROVE  IInv /\ Source!Init
<1>1. /\ text \in Texts /\ rest = text /\ tok = NoToken /\ pc = "idle"
      /\ tokens = <<>> /\ errors = 0 /\ alive = TRUE
  BY DEF Init
<1>2. Delivered = Source!BadDirective
  <2>1. AsToken([type |-> "ERROR", str |-> UnknownDirective])
          = [type |-> "ERROR", str |-> UnknownDirective]
    BY DEF AsToken
  <2> QED BY <1>1, <2>1 DEF Delivered, Source!BadDirective
<1>3. TypeOK
  <2>1. rest \in Seq(Bytes)
    BY <1>1, ScannerAssumption
  <2>2. tok \in Cell
    BY <1>1 DEF NoToken, Cell, TokenTypes
  <2> QED BY <1>1, <2>1, <2>2 DEF TypeOK
<1>4. TextFits
  BY <1>1 DEF TextFits
<1>5. Stays
  <2>1. Delivered = [type |-> "ERROR", str |-> UnknownDirective]
    BY <1>2 DEF Source!BadDirective
  <2> QED BY <1>1, <2>1, SourceTokens DEF Stays
<1>6. Source!Init
  BY <1>1, <1>2 DEF Source!Init, Delivered
<1> QED BY <1>3, <1>4, <1>5, <1>6 DEF IInv

(* Every step of the scanner keeps the invariant, and is one of the source *)
(* or nothing to it.                                                       *)
LEMMA ScannerStep ==
  ASSUME IInv, [Next]_vars
  PROVE  IInv' /\ (UNCHANGED <<Delivered, errors, alive>> \/ Source!Next)
<1>1. CASE Call
  BY <1>1, CallStep
<1>2. CASE SkipSpace \/ BeginComment \/ SkipComment \/ BeginString \/ BeginBlock
  BY <1>2, SkipStep
<1>3. CASE EndOfInput
  BY <1>3, EndStep
<1>4. CASE GetColon
  BY <1>4, ColonStep
<1>5. CASE BadChar
  BY <1>5, BadCharStep
<1>6. CASE BeginWord
  BY <1>6, WordBegins
<1>7. CASE ReadDirective \/ ReadString
  BY <1>7, ReadStep
<1>8. CASE EndDirective
  BY <1>8, DirectiveEnds
<1>9. CASE EndString
  BY <1>9, StringEnds
<1>10. CASE ReadNumber
  BY <1>10, NumberStep
<1>11. CASE ReadSymbol
  BY <1>11, SymbolStep
<1>12. CASE ReadBlock
  BY <1>12, BlockStep
<1>13. CASE OutOfMemory
  BY <1>13, MemoryEnds
<1>14. CASE Spin \/ Rest \/ UNCHANGED vars
  BY <1>14, Stutter DEF Spin, Rest
<1> QED BY <1>1, <1>2, <1>3, <1>4, <1>5, <1>6, <1>7, <1>8, <1>9, <1>10, <1>11,
           <1>12, <1>13, <1>14 DEF Next, ScanStep

(***************************************************************************)
(* What is read of a token fits its type, and an end or a character that   *)
(* starts no token, once returned, is what the scanner stands at.          *)
(***************************************************************************)
THEOREM ScannerInvariant == Spec => []IInv
<1>1. Init => IInv
  BY InitIInv
<1>2. IInv /\ [Next]_vars => IInv'
  BY ScannerStep
<1> QED BY <1>1, <1>2, PTL DEF Spec

(***************************************************************************)
(* For every text, the tokens that consume_token returns are those that    *)
(* the parser is written for: the end of the input and a character that    *)
(* starts no token come again for ever, nothing else does, every error     *)
(* token is counted each time, and the process exits only within a token.  *)
(***************************************************************************)
THEOREM ScannerIsTheSource == Spec => ImplementsSource
<1>1. Init => Source!Init
  BY InitIInv
<1>2. IInv /\ [Next]_vars => [Source!Next]_<<Delivered, errors, ~alive>>
  BY ScannerStep
<1>3. IInv /\ [Next]_vars => [Source!Next]_<<
        AsToken(IF tokens = <<>> THEN [type |-> "ERROR", str |-> UnknownDirective]
                                 ELSE Last(tokens)), errors, ~alive>>
  BY <1>2 DEF Delivered
<1> QED BY <1>1, <1>3, ScannerInvariant, PTL DEF Spec, ImplementsSource, Source!Spec

-----------------------------------------------------------------------------
(* The least number of a set.                                              *)
LEMMA MinIs ==
  ASSUME NEW T, T \subseteq Int, NEW j \in T, \A k \in T : j <= k
  PROVE  Lex!Min(T) = j
<1> DEFINE x == Lex!Min(T)
<1>1. x \in T /\ \A y \in T : x <= y
  BY DEF Lex!Min
<1>2. x <= j /\ j <= x /\ x \in Int
  BY <1>1
<1> HIDE DEF x
<1>3. x = j
  BY <1>2
<1> QED BY <1>3 DEF x

(* The greatest number of a set.                                           *)
LEMMA MaxIs ==
  ASSUME NEW T, T \subseteq Int, NEW j \in T, \A k \in T : k <= j
  PROVE  Lex!Max(T) = j
<1> DEFINE x == Lex!Max(T)
<1>1. x \in T /\ \A y \in T : y <= x
  BY DEF Lex!Max
<1>2. x <= j /\ j <= x /\ x \in Int
  BY <1>1
<1> HIDE DEF x
<1>3. x = j
  BY <1>2
<1> QED BY <1>3 DEF x

(* A run ends at the last character that is one of S.                      *)
LEMMA RunEndIs ==
  ASSUME NEW s \in Seq(Bytes), NEW S, NEW i \in Nat \ {0}, NEW j \in i - 1 .. Len(s),
         \A k \in i .. j : s[k] \in S, j < Len(s) => s[j + 1] \notin S
  PROVE  Lex!RunEnd(s, i, S) = j
<1> DEFINE T == {m \in i - 1 .. Len(s) : \A k \in i .. m : s[k] \in S}
<1>1. j \in T /\ T \subseteq Int
  OBVIOUS
<1>2. \A m \in T : m <= j
  <2>1. SUFFICES ASSUME NEW m \in T, m > j PROVE FALSE
    BY <1>1
  <2>2. j + 1 \in i .. m /\ j < Len(s)
    BY <2>1
  <2> QED BY <2>1, <2>2
<1>3. Lex!RunEnd(s, i, S) = Lex!Max(T)
  BY DEF Lex!RunEnd
<1> HIDE DEF T
<1> QED BY <1>1, <1>2, <1>3, MaxIs

(* The first index with a character, or none.                              *)
LEMMA FindIs ==
  ASSUME NEW s \in Seq(Bytes), NEW c, NEW i \in Nat \ {0}
  PROVE  /\ (\A k \in i .. Len(s) : s[k] # c) => Lex!Find(s, i, c) = 0
         /\ \A j \in i .. Len(s) :
              s[j] = c /\ (\A k \in i .. j - 1 : s[k] # c) => Lex!Find(s, i, c) = j
<1> DEFINE T == {j \in i .. Len(s) : s[j] = c}
<1>1. Lex!Find(s, i, c) = IF T = {} THEN 0 ELSE Lex!Min(T)
  BY DEF Lex!Find
<1>2. (\A k \in i .. Len(s) : s[k] # c) => T = {}
  OBVIOUS
<1>3. ASSUME NEW j \in i .. Len(s), s[j] = c, \A k \in i .. j - 1 : s[k] # c
      PROVE  T # {} /\ Lex!Min(T) = j
  <2>1. j \in T /\ T \subseteq Int
    BY <1>3
  <2>2. \A k \in T : j <= k
    BY <1>3
  <2> HIDE DEF T
  <2> QED BY <2>1, <2>2, MinIs
<1> HIDE DEF T
<1> QED BY <1>1, <1>2, <1>3

(* The first place where the braces are even, or none.                     *)
LEMMA ClosingIs ==
  ASSUME NEW s \in Seq(Bytes), NEW i \in Nat \ {0}
  PROVE  /\ (\A k \in i .. Len(s) : Lex!Braces(s, i, k, LBrace) # Lex!Braces(s, i, k, RBrace))
              => Lex!Closing(s, i) = 0
         /\ \A j \in i .. Len(s) :
              /\ Lex!Braces(s, i, j, LBrace) = Lex!Braces(s, i, j, RBrace)
              /\ \A k \in i .. j - 1 :
                   Lex!Braces(s, i, k, LBrace) # Lex!Braces(s, i, k, RBrace)
              => Lex!Closing(s, i) = j
<1> DEFINE Even(k) == Lex!Braces(s, i, k, LBrace) = Lex!Braces(s, i, k, RBrace)
           T == {j \in i .. Len(s) : Even(j)}
<1>1. Lex!Closing(s, i) = IF T = {} THEN 0 ELSE Lex!Min(T)
  BY DEF Lex!Closing
<1> HIDE DEF Even
<1>2. (\A k \in i .. Len(s) : ~Even(k)) => T = {}
  OBVIOUS
<1>3. ASSUME NEW j \in i .. Len(s), Even(j), \A k \in i .. j - 1 : ~Even(k)
      PROVE  T # {} /\ Lex!Min(T) = j
  <2>1. j \in T /\ T \subseteq Int
    BY <1>3
  <2>2. \A k \in T : j <= k
    BY <1>3
  <2> HIDE DEF T
  <2> QED BY <2>1, <2>2, MinIs
<1> HIDE DEF T
<1>4. /\ (\A k \in i .. Len(s) : ~Even(k)) => Lex!Closing(s, i) = 0
      /\ \A j \in i .. Len(s) :
           Even(j) /\ (\A k \in i .. j - 1 : ~Even(k)) => Lex!Closing(s, i) = j
  BY <1>1, <1>2, <1>3
<1> QED BY <1>4 DEF Even

(* One more character changes the count of braces at most by that one.     *)
LEMMA BracesGrow ==
  ASSUME NEW s \in Seq(Bytes), NEW c, NEW i \in Nat \ {0}, NEW j \in Nat, j + 1 >= i
  PROVE  /\ Lex!Braces(s, i, j, c) \in Nat
         /\ Lex!Braces(s, i, j + 1, c) = IF s[j + 1] = c THEN Lex!Braces(s, i, j, c) + 1
                                         ELSE Lex!Braces(s, i, j, c)
         /\ Lex!Braces(s, i, i - 1, c) = 0
<1> DEFINE T(m) == {k \in i .. m : s[k] = c}
<1>1. \A m : Lex!Braces(s, i, m, c) = Cardinality(T(m))
  BY Zenon DEF Lex!Braces, Lex!Cardinality, Cardinality
<1>2. IsFiniteSet(T(j)) /\ Cardinality(T(j)) \in Nat
  <2>1. IsFiniteSet(i .. j)
    BY FS_Interval
  <2>2. T(j) \subseteq i .. j
    OBVIOUS
  <2> HIDE DEF T
  <2> QED BY <2>1, <2>2, FS_Subset, FS_CardinalityType
<1>3. /\ s[j + 1] = c => T(j + 1) = T(j) \cup {j + 1}
      /\ s[j + 1] # c => T(j + 1) = T(j)
      /\ j + 1 \notin T(j)
      /\ T(i - 1) = {}
  OBVIOUS
<1> HIDE DEF T
<1>4. s[j + 1] = c => Cardinality(T(j + 1)) = Cardinality(T(j)) + 1
  BY <1>2, <1>3, FS_AddElement
<1>5. Cardinality(T(i - 1)) = 0
  BY <1>3, FS_EmptySet
<1> QED BY <1>1, <1>2, <1>3, <1>4, <1>5

(* An opening brace is one more than the closing ones.                     *)
LEMMA FirstBrace ==
  ASSUME NEW s \in Seq(Bytes), NEW i \in Nat \ {0}, s[i] = LBrace
  PROVE  Lex!Braces(s, i, i, LBrace) = 1 /\ Lex!Braces(s, i, i, RBrace) = 0
<1> DEFINE p == i - 1
<1>1. p \in Nat /\ p + 1 >= i /\ p + 1 = i
  OBVIOUS
<1>2. Lex!Braces(s, i, p, LBrace) = 0 /\ Lex!Braces(s, i, p, RBrace) = 0
  BY <1>1, BracesGrow
<1> HIDE DEF p
<1>3. ASSUME NEW c
      PROVE  Lex!Braces(s, i, p + 1, c) = IF s[p + 1] = c THEN Lex!Braces(s, i, p, c) + 1
                                          ELSE Lex!Braces(s, i, p, c)
  <2> SUFFICES s \in Seq(Bytes) /\ i \in Nat \ {0} /\ p \in Nat /\ p + 1 >= i
    BY BracesGrow
  <2> QED BY <1>1
<1>4. s[p + 1] = LBrace /\ s[p + 1] # RBrace
  BY <1>1, Marks
<1> QED BY <1>1, <1>2, <1>3, <1>4

-----------------------------------------------------------------------------
(* Spaces and comments are skipped, and a token starts at what is neither. *)
LEMMA StartSkips ==
  ASSUME NEW s \in Seq(Bytes), NEW p \in 1 .. Len(s)
  PROVE  s[p] \in Spaces => Lex!Start(s, p) = Lex!Start(s, p + 1)
<1> DEFINE T(i) == {j \in i .. Len(s) + 1 :
                      /\ j <= Len(s) => s[j] \notin Spaces \cup {"#"}
                      /\ \A k \in i .. j - 1 :
                           s[k] = "#" => \E m \in k + 1 .. j - 1 : s[m] = NL}
<1>1. ASSUME s[p] \in Spaces PROVE T(p) = T(p + 1)
  <2>1. s[p] # "#"
    BY <1>1, ScannerAssumption
  <2>2. ASSUME NEW j \in p + 1 .. Len(s) + 1
        PROVE  j \in T(p) <=> j \in T(p + 1)
    <3>1. \A k \in p .. j - 1 : s[k] = "#" => k \in p + 1 .. j - 1
      BY <2>1
    <3>2. j \in p .. Len(s) + 1 /\ \A k \in p + 1 .. j - 1 : k \in p .. j - 1
      OBVIOUS
    <3> QED BY <3>1, <3>2
  <2>3. p \notin T(p)
    BY <1>1
  <2>4. T(p) \subseteq p .. Len(s) + 1 /\ T(p + 1) \subseteq p + 1 .. Len(s) + 1
    OBVIOUS
  <2> HIDE DEF T
  <2>5. \A j : j \in T(p) => j \in T(p + 1)
    BY <2>2, <2>3, <2>4
  <2>6. \A j : j \in T(p + 1) => j \in T(p)
    BY <2>2, <2>4
  <2> QED BY <2>5, <2>6
<1>2. \A i : Lex!Start(s, i) = IF T(i) = {} THEN 0 ELSE Lex!Min(T(i))
  BY DEF Lex!Start
<1> HIDE DEF T
<1> QED BY <1>1, <1>2

(* What is neither a space nor a comment begins a token.                   *)
LEMMA StartStays ==
  ASSUME NEW s \in Seq(Bytes), NEW p \in 1 .. Len(s) + 1,
         p <= Len(s) => s[p] \notin Spaces \cup {"#"}
  PROVE  Lex!Start(s, p) = p
<1> DEFINE T == {j \in p .. Len(s) + 1 :
                      /\ j <= Len(s) => s[j] \notin Spaces \cup {"#"}
                      /\ \A k \in p .. j - 1 :
                           s[k] = "#" => \E m \in k + 1 .. j - 1 : s[m] = NL}
<1>1. Lex!Start(s, p) = IF T = {} THEN 0 ELSE Lex!Min(T)
  BY DEF Lex!Start
<1>2. p \in T /\ T \subseteq Int /\ \A k \in T : p <= k
  OBVIOUS
<1> HIDE DEF T
<1> QED BY <1>1, <1>2, MinIs

(* A comment goes on to the end of the line, or of the text.               *)
LEMMA StartInComment ==
  ASSUME NEW s \in Seq(Bytes), NEW p \in 1 .. Len(s) + 1, NEW h \in 1 .. p - 1,
         s[h] = "#", \A k \in h + 1 .. p - 1 : s[k] # NL
  PROVE  /\ p <= Len(s) /\ s[p] = NL => Lex!Start(s, h) = Lex!Start(s, p)
         /\ p = Len(s) + 1 => Lex!Start(s, h) = 0
<1> DEFINE T(i) == {j \in i .. Len(s) + 1 :
                      /\ j <= Len(s) => s[j] \notin Spaces \cup {"#"}
                      /\ \A k \in i .. j - 1 :
                           s[k] = "#" => \E m \in k + 1 .. j - 1 : s[m] = NL}
<1>1. \A j \in h .. p : j <= Len(s) => j \notin T(h) \/ (j = p /\ s[p] # NL)
  <2>1. ASSUME NEW j \in h .. p, j \in T(h), j <= Len(s) PROVE j = p /\ s[p] # NL
    <3>1. j # h
      BY <2>1
    <3>2. h \in h .. j - 1
      BY <3>1
    <3>3. PICK m \in h + 1 .. j - 1 : s[m] = NL
      BY <2>1, <3>2
    <3>4. m \in h + 1 .. p - 1
      OBVIOUS
    <3> QED BY <3>3, <3>4
  <2> QED BY <2>1
<1>2. ASSUME p = Len(s) + 1 PROVE T(h) = {}
  <2>1. ASSUME NEW j \in T(h) PROVE FALSE
    <3>1. j \in h .. p /\ (j = h => j <= Len(s))
      BY <1>2
    <3>2. j # h
      BY <3>1
    <3>3. h \in h .. j - 1
      BY <3>1, <3>2
    <3>4. PICK m \in h + 1 .. j - 1 : s[m] = NL
      BY <3>3
    <3>5. m \in h + 1 .. p - 1
      BY <3>1
    <3> QED BY <3>4, <3>5
  <2> QED BY <2>1
<1>3. ASSUME p <= Len(s), s[p] = NL PROVE T(h) = T(p)
  <2>1. s[p] \in Spaces
    BY <1>3, ScannerAssumption
  <2>2. p \notin T(p) /\ p \notin T(h)
    BY <1>3, <2>1
  <2>3. \A j \in h .. p : j \notin T(h)
    BY <1>1, <1>3
  <2>4. ASSUME NEW j \in p + 1 .. Len(s) + 1
        PROVE  j \in T(p) <=> j \in T(h)
    <3>1. \A k \in h .. p - 1 : \E m \in k + 1 .. j - 1 : s[m] = NL
      BY <1>3
    <3>2. \A k \in h .. j - 1 : k \in h .. p - 1 \/ k \in p .. j - 1
      OBVIOUS
    <3>3. \A k \in p .. j - 1 : k \in h .. j - 1
      OBVIOUS
    <3>4. j \in h .. Len(s) + 1 /\ j \in p .. Len(s) + 1
      OBVIOUS
    <3> QED BY <3>1, <3>2, <3>3, <3>4
  <2>5. T(h) \subseteq h .. Len(s) + 1 /\ T(p) \subseteq p .. Len(s) + 1
    OBVIOUS
  <2> HIDE DEF T
  <2>6. \A j : j \in T(h) => j \in p + 1 .. Len(s) + 1
    BY <2>3, <2>5
  <2>7. \A j : j \in T(p) => j \in p + 1 .. Len(s) + 1
    BY <2>2, <2>5
  <2> QED BY <2>4, <2>6, <2>7
<1>4. \A i : Lex!Start(s, i) = IF T(i) = {} THEN 0 ELSE Lex!Min(T(i))
  BY DEF Lex!Start
<1> HIDE DEF T
<1> QED BY <1>2, <1>3, <1>4

-----------------------------------------------------------------------------
(* copy_str and the reference cut a text at the same place.                *)
LEMMA CopyStrCuts ==
  ASSUME NEW S, NEW s \in Seq(S)
  PROVE  /\ (\A k \in 1 .. Len(s) : s[k] # NUL) => CopyStr(s) = s
         /\ \A n \in 1 .. Len(s) :
              s[n] = NUL /\ (\A k \in 1 .. n - 1 : s[k] # NUL)
              => CopyStr(s) = SubSeq(s, 1, n - 1)
<1> DEFINE I == {i \in 1 .. Len(s) : s[i] = NUL}
<1>1. CopyStr(s) = IF (IF I # {} THEN Min(I) ELSE 0) = 0 THEN s
                   ELSE SubSeq(s, 1, (IF I # {} THEN Min(I) ELSE 0) - 1)
  BY DEF CopyStr, SelectInSeq
<1>2. (\A k \in 1 .. Len(s) : s[k] # NUL) => I = {}
  OBVIOUS
<1>3. ASSUME NEW n \in 1 .. Len(s), s[n] = NUL, \A k \in 1 .. n - 1 : s[k] # NUL
      PROVE  I # {} /\ Min(I) = n
  <2>1. n \in I /\ I \subseteq Int /\ \A k \in I : n <= k
    BY <1>3
  <2> HIDE DEF I
  <2>2. Min(I) \in I /\ \A k \in I : Min(I) <= k
    BY <2>1 DEF Min
  <2> DEFINE x == Min(I)
  <2> HIDE DEF x
  <2>3. x \in Int /\ x <= n /\ n <= x
    BY <2>1, <2>2 DEF x
  <2> QED BY <2>1, <2>3 DEF x
<1> HIDE DEF I
<1>4. ASSUME NEW n \in 1 .. Len(s), s[n] = NUL, \A k \in 1 .. n - 1 : s[k] # NUL
      PROVE  CopyStr(s) = SubSeq(s, 1, n - 1)
  BY <1>1, <1>3, <1>4
<1>5. (\A k \in 1 .. Len(s) : s[k] # NUL) => CopyStr(s) = s
  BY <1>1, <1>2
<1> QED BY <1>4, <1>5

(* A part of a text, and the beginning of that part.                       *)
LEMMA PartOfPart ==
  ASSUME NEW S, NEW s \in Seq(S), NEW i \in Nat \ {0}, NEW j \in i - 1 .. Len(s),
         NEW n \in 0 .. j - i + 1
  PROVE  /\ SubSeq(s, i, j) \in Seq(S) /\ Len(SubSeq(s, i, j)) = j - i + 1
         /\ \A k \in 1 .. j - i + 1 : SubSeq(s, i, j)[k] = s[i + k - 1]
         /\ SubSeq(SubSeq(s, i, j), 1, n) = SubSeq(s, i, i + n - 1)
<1> DEFINE u == SubSeq(s, i, j)
           v == SubSeq(s, i, i + n - 1)
<1>1. /\ u \in Seq(S) /\ Len(u) = j - i + 1
      /\ \A k \in 1 .. j - i + 1 : u[k] = s[i + k - 1]
  OBVIOUS
<1>2. /\ v \in Seq(S) /\ Len(v) = n
      /\ \A k \in 1 .. n : v[k] = s[i + k - 1]
  OBVIOUS
<1> HIDE DEF u, v
<1> DEFINE w == SubSeq(u, 1, n)
<1>3. w \in Seq(S) /\ Len(w) = n /\ \A k \in 1 .. n : w[k] = u[k]
  BY <1>1
<1>4. \A k \in 1 .. n : w[k] = v[k]
  BY <1>1, <1>2, <1>3
<1> HIDE DEF w
<1>5. w = v
  BY <1>2, <1>3, <1>4
<1> QED BY <1>1, <1>5 DEF u, v, w

(* The text of a reference token is the copy that copy_str makes.          *)
LEMMA TokIs ==
  ASSUME NEW s \in Seq(Bytes), NEW i \in Nat \ {0}, NEW j \in i - 1 .. Len(s),
         NEW type, NEW next
  PROVE  Lex!Tok(type, s, i, j, next) =
           [tok |-> [type |-> type, str |-> CopyStr(SubSeq(s, i, j))], next |-> next]
<1> DEFINE f == Lex!Find(s, i, NUL)
           to == IF f \in i .. j THEN f - 1 ELSE j
           u == SubSeq(s, i, j)
<1>1. Lex!Tok(type, s, i, j, next) =
        [tok |-> [type |-> type, str |-> SubSeq(s, i, to)], next |-> next]
  BY DEF Lex!Tok
<1>2. /\ u \in Seq(Bytes) /\ Len(u) = j - i + 1
      /\ \A k \in 1 .. j - i + 1 : u[k] = s[i + k - 1]
      /\ \A n \in 0 .. j - i + 1 : SubSeq(u, 1, n) = SubSeq(s, i, i + n - 1)
  <2>1. 0 \in 0 .. j - i + 1
    OBVIOUS
  <2>2. /\ u \in Seq(Bytes) /\ Len(u) = j - i + 1
        /\ \A k \in 1 .. j - i + 1 : u[k] = s[i + k - 1]
    BY <2>1, PartOfPart
  <2>3. ASSUME NEW n \in 0 .. j - i + 1
        PROVE  SubSeq(u, 1, n) = SubSeq(s, i, i + n - 1)
    BY PartOfPart
  <2> QED BY <2>2, <2>3
<1> HIDE DEF u
<1>3. CASE \A k \in i .. j : s[k] # NUL
  <2>1. f \notin i .. j
    <3>1. CASE \A k \in i .. Len(s) : s[k] # NUL
      BY <3>1, FindIs
    <3>2. CASE ~ \A k \in i .. Len(s) : s[k] # NUL
      <4> DEFINE T == {k \in i .. Len(s) : s[k] = NUL}
      <4>1. T \subseteq Nat /\ T # {}
        BY <3>2
      <4>2. PICK k \in T : \A y \in T : k <= y
        BY <4>1, LeastNumber
      <4>3. \A y \in i .. k - 1 : s[y] # NUL
        BY <4>2
      <4>4. f = k
        BY <4>2, <4>3, FindIs
      <4> QED BY <1>3, <4>2, <4>4
    <3> QED BY <3>1, <3>2
  <2>2. \A k \in 1 .. Len(u) : u[k] # NUL
    BY <1>2, <1>3
  <2>3. CopyStr(u) = u
    BY <1>2, <2>2, CopyStrCuts
  <2> QED BY <1>1, <2>1, <2>3 DEF u
<1>4. CASE ~ \A k \in i .. j : s[k] # NUL
  <2> DEFINE T == {k \in i .. j : s[k] = NUL}
  <2>1. T \subseteq Nat /\ T # {}
    BY <1>4
  <2>2. PICK k \in T : \A y \in T : k <= y
    BY <2>1, LeastNumber
  <2>3. k \in i .. j /\ s[k] = NUL /\ \A y \in i .. k - 1 : s[y] # NUL
    BY <2>2
  <2> HIDE DEF T
  <2>4. f = k
    BY <2>3, FindIs
  <2> DEFINE n == k - i + 1
  <2>5. n \in 1 .. Len(u) /\ u[n] = NUL /\ \A y \in 1 .. n - 1 : u[y] # NUL
    BY <1>2, <2>3
  <2>6. CopyStr(u) = SubSeq(u, 1, n - 1)
    BY <1>2, <2>5, CopyStrCuts
  <2>7. SubSeq(u, 1, n - 1) = SubSeq(s, i, k - 1)
    <3>1. n - 1 \in 0 .. j - i + 1 /\ i + (n - 1) - 1 = k - 1
      BY <2>3
    <3> QED BY <1>2, <3>1
  <2>8. to = k - 1
    BY <2>3, <2>4
  <2> QED BY <1>1, <2>6, <2>7, <2>8 DEF u
<1> QED BY <1>3, <1>4

(* The reference token, by the character it starts with.                   *)
LEMMA TokenAtIs ==
  ASSUME NEW s \in Seq(Bytes), NEW i \in 1 .. Len(s) + 1
  PROVE  /\ i = Len(s) + 1 \/ s[i] = FF =>
              Lex!TokenAt(s, i) = Lex!Tok("END_OF_INPUT", s, i, i - 1, i)
         /\ i <= Len(s) =>
              /\ s[i] = ":" => Lex!TokenAt(s, i) = Lex!Tok("COLON", s, i, i - 1, i + 1)
              /\ s[i] \in Digits =>
                   Lex!TokenAt(s, i) = Lex!RunAt("NUMBER", s, i, Digits)
              /\ s[i] \in Letters =>
                   Lex!TokenAt(s, i) = Lex!RunAt("SYMBOL", s, i, Letters \cup Digits)
              /\ s[i] = "%" => Lex!TokenAt(s, i) = Lex!DirectiveAt(s, i)
              /\ s[i] = Quote => Lex!TokenAt(s, i) = Lex!StringAt(s, i)
              /\ s[i] = LBrace => Lex!TokenAt(s, i) = Lex!BlockAt(s, i)
              /\ s[i] \notin Starters \cup {FF} =>
                   Lex!TokenAt(s, i) = Lex!Tok("ERROR", s, i, i - 1, i)
<1> DEFINE c == IF i > Len(s) THEN FF ELSE s[i]
<1>1. Lex!TokenAt(s, i) =
        CASE c = FF -> Lex!Tok("END_OF_INPUT", s, i, i - 1, i)
          [] c = ":" -> Lex!Tok("COLON", s, i, i - 1, i + 1)
          [] c \in Digits -> Lex!RunAt("NUMBER", s, i, Digits)
          [] c \in Letters -> Lex!RunAt("SYMBOL", s, i, Letters \cup Digits)
          [] c = "%" -> Lex!DirectiveAt(s, i)
          [] c = Quote -> Lex!StringAt(s, i)
          [] c = LBrace -> Lex!BlockAt(s, i)
          [] OTHER -> Lex!Tok("ERROR", s, i, i - 1, i)
  BY DEF Lex!TokenAt
<1>2. /\ i = Len(s) + 1 \/ s[i] = FF => c = FF
      /\ i <= Len(s) => c = s[i]
  OBVIOUS
<1> HIDE DEF c
<1>3. /\ Letters \cap (Digits \cup {FF, ":", "%", Quote, LBrace}) = {}
      /\ Digits \cap {FF, ":", "%", Quote, LBrace} = {}
      /\ \A x : x \notin Starters => x \notin Letters \cup Digits \cup {":", "%", Quote, LBrace}
  BY ScannerAssumption, Marks DEF Starters
<1>4. /\ c = FF => Lex!TokenAt(s, i) = Lex!Tok("END_OF_INPUT", s, i, i - 1, i)
      /\ c = ":" => Lex!TokenAt(s, i) = Lex!Tok("COLON", s, i, i - 1, i + 1)
  BY <1>1, <1>3, Marks
<1>5. /\ c \in Digits => Lex!TokenAt(s, i) = Lex!RunAt("NUMBER", s, i, Digits)
      /\ c \in Letters =>
           Lex!TokenAt(s, i) = Lex!RunAt("SYMBOL", s, i, Letters \cup Digits)
  BY <1>1, <1>3, Marks
<1>6. /\ c = "%" => Lex!TokenAt(s, i) = Lex!DirectiveAt(s, i)
      /\ c = Quote => Lex!TokenAt(s, i) = Lex!StringAt(s, i)
      /\ c = LBrace => Lex!TokenAt(s, i) = Lex!BlockAt(s, i)
  BY <1>1, <1>3, Marks
<1>7. c \notin Starters \cup {FF} =>
        Lex!TokenAt(s, i) = Lex!Tok("ERROR", s, i, i - 1, i)
  BY <1>1, <1>3, Marks
<1> QED BY <1>2, <1>4, <1>5, <1>6, <1>7

-----------------------------------------------------------------------------
(* f cuts the first n tokens off s.                                        *)
IsCuts(f, s, n) ==
  f = [k \in 0 .. n |-> IF k = 0 THEN Lex!Outset ELSE Lex!After(s, f[k - 1])]

(* There is a function that cuts off n tokens.                             *)
LEMMA CutsExist ==
  ASSUME NEW s, NEW n \in Nat
  PROVE  \E f : IsCuts(f, s, n)
<1> DEFINE T == {m \in Nat : ~(\E f : IsCuts(f, s, m))}
<1>1. SUFFICES ASSUME T # {} PROVE FALSE
  <2>1. n \notin T => \E f : IsCuts(f, s, n)
    OBVIOUS
  <2> QED BY <2>1
<1>2. PICK m \in T : \A k \in T : m <= k
  BY <1>1, LeastNumber
<1>3. m \in Nat /\ ~(\E f : IsCuts(f, s, m))
  OBVIOUS
<1>4. m # 0
  <2> DEFINE g == [k \in 0 .. 0 |-> Lex!Outset]
  <2>1. g = [k \in 0 .. 0 |-> IF k = 0 THEN Lex!Outset ELSE Lex!After(s, g[k - 1])]
    OBVIOUS
  <2> QED BY <1>3, <2>1 DEF IsCuts
<1>5. m - 1 \in Nat /\ m - 1 \notin T
  BY <1>2, <1>3, <1>4
<1>6. PICK f : IsCuts(f, s, m - 1)
  BY <1>5
<1> HIDE DEF T
<1> DEFINE g == [k \in 0 .. m |-> IF k < m THEN f[k] ELSE Lex!After(s, f[m - 1])]
<1>7. \A k \in 0 .. m - 1 : f[k] = IF k = 0 THEN Lex!Outset ELSE Lex!After(s, f[k - 1])
  BY <1>5, <1>6 DEF IsCuts
<1>8. \A k \in 0 .. m : g[k] = IF k = 0 THEN Lex!Outset ELSE Lex!After(s, g[k - 1])
  <2>1. \A k \in 0 .. m - 1 : g[k] = f[k]
    BY <1>3
  <2>2. g[m] = Lex!After(s, f[m - 1])
    BY <1>3
  <2> HIDE DEF g
  <2>3. g[m] = Lex!After(s, g[m - 1])
    BY <1>5, <2>1, <2>2
  <2>4. \A k \in 0 .. m - 1 : k # 0 => k - 1 \in 0 .. m - 1
    BY <1>3
  <2>5. \A k \in 0 .. m - 1 : g[k] = IF k = 0 THEN Lex!Outset ELSE Lex!After(s, g[k - 1])
    BY <1>7, <2>1, <2>4
  <2> QED BY <1>3, <1>4, <2>3, <2>5
<1>9. g = [k \in 0 .. m |-> IF k = 0 THEN Lex!Outset ELSE Lex!After(s, g[k - 1])]
  <2>1. g = [k \in 0 .. m |-> g[k]]
    OBVIOUS
  <2> HIDE DEF g
  <2> QED BY <1>8, <2>1
<1> QED BY <1>3, <1>9 DEF IsCuts

(* Each token is cut off where the one before it ends.                     *)
LEMMA CutsLaw ==
  ASSUME NEW s, NEW n \in Nat
  PROVE  /\ Lex!Cuts(s, n)[0] = Lex!Outset
         /\ \A k \in 1 .. n : Lex!Cuts(s, n)[k] = Lex!After(s, Lex!Cuts(s, n)[k - 1])
<1> DEFINE F == CHOOSE f : IsCuts(f, s, n)
<1>1. IsCuts(F, s, n)
  BY CutsExist
<1>2. Lex!Cuts(s, n) = F
  BY DEF Lex!Cuts, IsCuts
<1> HIDE DEF F
<1>3. \A k \in 0 .. n : F[k] = IF k = 0 THEN Lex!Outset ELSE Lex!After(s, F[k - 1])
  BY <1>1 DEF IsCuts
<1> QED BY <1>2, <1>3

(* The first m of n tokens are the m tokens.                               *)
LEMMA CutsAgree ==
  ASSUME NEW s, NEW n \in Nat, NEW m \in 0 .. n, NEW k \in 0 .. m
  PROVE  Lex!Cuts(s, m)[k] = Lex!Cuts(s, n)[k]
<1> DEFINE F == Lex!Cuts(s, m)
           G == Lex!Cuts(s, n)
           T == {j \in Nat : j <= m /\ F[j] # G[j]}
<1>1. /\ F[0] = Lex!Outset /\ G[0] = Lex!Outset
      /\ \A j \in 1 .. m : F[j] = Lex!After(s, F[j - 1]) /\ G[j] = Lex!After(s, G[j - 1])
  BY CutsLaw
<1> HIDE DEF F, G
<1>2. SUFFICES ASSUME T # {} PROVE FALSE
  <2>1. k \notin T => F[k] = G[k]
    OBVIOUS
  <2> QED BY <2>1 DEF F, G
<1>3. PICK j \in T : \A i \in T : j <= i
  BY <1>2, LeastNumber
<1>4. j \in 1 .. m /\ j - 1 \notin T /\ F[j] # G[j]
  BY <1>1, <1>3
<1>5. F[j - 1] = G[j - 1]
  BY <1>4
<1> QED BY <1>1, <1>4, <1>5

-----------------------------------------------------------------------------
(***************************************************************************)
(* Where the scanner is in the text, what the reference cut off last, and  *)
(* where the next token begins.                                            *)
(***************************************************************************)
Pos == Len(text) - Len(rest) + 1
Here == Lex!Cuts(text, Len(tokens))[Len(tokens)]
From == Lex!Start(text, Here.next)

Placed ==
  /\ text \in Seq(Bytes) /\ Pos \in 1 .. Len(text) + 1
  /\ rest = SubSeq(text, Pos, Len(text))

Delivering ==
  /\ tokens \in Seq(Cell)
  /\ \A k \in 1 .. Len(tokens) : tokens[k] = Lex!Cuts(text, Len(tokens))[k].tok
  /\ Here.next \in 1 .. Len(text) + 1

(* Between tokens: what is passed does not change where the next begins.   *)
Skipping ==
  /\ pc = "idle" => Here.next = Pos
  /\ pc = "start" => From = Lex!Start(text, Pos)
  /\ pc = "comment" =>
       \E h \in 1 .. Pos - 1 :
         /\ From = Lex!Start(text, h) /\ text[h] = "#"
         /\ \A k \in h + 1 .. Pos - 1 : text[k] # NL

(* Within a token: its text is what has been passed.                       *)
InDirective ==
  /\ text[From] = "%"
  /\ \A k \in From + 1 .. Pos - 1 : text[k] \in Letters
  /\ Pos - 1 > From => (alive <=> ~Lex!Refused(text, Pos, Pos))
  /\ ~alive => Pos - 1 > From

Wording ==
  /\ pc \in {"symbol", "number", "directive"} =>
       From \in 1 .. Pos - 1 /\ tok.str = SubSeq(text, From, Pos - 1)
  /\ pc = "number" => \A k \in From .. Pos - 1 : text[k] \in Digits
  /\ pc = "symbol" => /\ text[From] \in Letters
                      /\ \A k \in From .. Pos - 1 : text[k] \in Letters \cup Digits
  /\ pc = "directive" => InDirective

InString ==
  /\ text[From] = Quote
  /\ \A k \in From + 1 .. Pos - 1 : text[k] # Quote
  /\ alive \/ rest = <<>> <=> ~Lex!Refused(text, From + 2, Pos)

InBlock ==
  /\ text[From] = LBrace
  /\ count > 0
  /\ count = Lex!Braces(text, From, Pos - 1, LBrace) - Lex!Braces(text, From, Pos - 1, RBrace)
  /\ \A k \in From .. Pos - 1 :
       Lex!Braces(text, From, k, LBrace) # Lex!Braces(text, From, k, RBrace)
  /\ alive \/ rest = <<>>

Quoting ==
  /\ pc \in {"string", "block"} =>
       From \in 1 .. Pos - 1 /\ tok.str = SubSeq(text, From + 1, Pos - 1)
  /\ pc = "string" => InString
  /\ pc = "block" => InBlock

StoppedWithin == alive \/ pc \in {"directive", "string", "block"}

LexInv ==
  /\ Placed /\ Delivering /\ Skipping /\ Wording /\ Quoting /\ StoppedWithin

-----------------------------------------------------------------------------
(* What is left of a text, and one character more of a part of it.         *)
LEMMA LeftOver ==
  ASSUME NEW s \in Seq(Bytes), NEW p \in 1 .. Len(s) + 1
  PROVE  /\ Len(SubSeq(s, p, Len(s))) = Len(s) - p + 1
         /\ SubSeq(s, p, Len(s)) = <<>> <=> p = Len(s) + 1
         /\ p = Len(s) + 1 => Char(SubSeq(s, p, Len(s))) = EOF
         /\ p <= Len(s) => /\ Char(SubSeq(s, p, Len(s))) = s[p]
                           /\ Drop(SubSeq(s, p, Len(s))) = SubSeq(s, p + 1, Len(s))
<1> DEFINE u == SubSeq(s, p, Len(s))
<1>1. /\ u \in Seq(Bytes) /\ Len(u) = Len(s) - p + 1
      /\ \A k \in 1 .. Len(s) - p + 1 : u[k] = s[p + k - 1]
  OBVIOUS
<1>2. p <= Len(s) => SubSeq(s, p + 1, Len(s)) \in Seq(Bytes)
        /\ Len(SubSeq(s, p + 1, Len(s))) = Len(s) - p
        /\ \A k \in 1 .. Len(s) - p : SubSeq(s, p + 1, Len(s))[k] = s[p + k]
  OBVIOUS
<1> HIDE DEF u
<1>3. u = <<>> <=> p = Len(s) + 1
  BY <1>1
<1>4. p = Len(s) + 1 => Char(u) = EOF
  BY <1>3 DEF Char
<1>5. p <= Len(s) => Char(u) = s[p]
  BY <1>1, <1>3 DEF Char
<1>6. ASSUME p <= Len(s) PROVE Drop(u) = SubSeq(s, p + 1, Len(s))
  <2> DEFINE v == SubSeq(s, p + 1, Len(s))
             w == Tail(u)
  <2>1. Drop(u) = w
    BY <1>3, <1>6 DEF Drop
  <2>2. u # <<>>
    BY <1>3, <1>6
  <2>3. /\ w \in Seq(Bytes) /\ Len(w) = Len(s) - p
        /\ \A k \in 1 .. Len(s) - p : w[k] = u[k + 1]
    BY <1>1, <2>2
  <2>4. /\ v \in Seq(Bytes) /\ Len(v) = Len(s) - p
        /\ \A k \in 1 .. Len(s) - p : v[k] = s[p + k]
    BY <1>2, <1>6
  <2> HIDE DEF v, w
  <2>5. ASSUME NEW k \in 1 .. Len(s) - p PROVE w[k] = v[k]
    <3>1. k + 1 \in 1 .. Len(s) - p + 1 /\ p + (k + 1) - 1 = p + k
      OBVIOUS
    <3>2. u[k + 1] = s[p + (k + 1) - 1]
      BY <1>1, <3>1
    <3>3. u[k + 1] = s[p + k]
      BY <3>1, <3>2
    <3> QED BY <2>3, <2>4, <3>3
  <2>6. w = v
    BY <2>3, <2>4, <2>5, SMTT(30)
  <2> QED BY <2>1, <2>6 DEF v
<1> QED BY <1>1, <1>3, <1>4, <1>5, <1>6 DEF u

(* A part and the character behind it are the longer part.                 *)
LEMMA PartGrows ==
  ASSUME NEW s \in Seq(Bytes), NEW p \in 1 .. Len(s), NEW i \in 1 .. p
  PROVE  /\ Append(SubSeq(s, i, p - 1), s[p]) = SubSeq(s, i, p)
         /\ SubSeq(s, i, i - 1) = <<>>
<1> DEFINE u == SubSeq(s, i, p - 1)
           v == SubSeq(s, i, p)
           w == Append(u, s[p])
<1>1. /\ u \in Seq(Bytes) /\ Len(u) = p - i
      /\ \A k \in 1 .. p - i : u[k] = s[i + k - 1]
  OBVIOUS
<1>2. /\ v \in Seq(Bytes) /\ Len(v) = p - i + 1
      /\ \A k \in 1 .. p - i + 1 : v[k] = s[i + k - 1]
  OBVIOUS
<1>3. s[p] \in Bytes
  OBVIOUS
<1> HIDE DEF u, v
<1>4. /\ w \in Seq(Bytes) /\ Len(w) = p - i + 1
      /\ \A k \in 1 .. p - i : w[k] = u[k]
      /\ w[p - i + 1] = s[p]
  BY <1>1, <1>3
<1> HIDE DEF w
<1>5. \A k \in 1 .. p - i + 1 : w[k] = v[k]
  <2>1. \A k \in 1 .. p - i + 1 : k \in 1 .. p - i \/ k = p - i + 1
    OBVIOUS
  <2>2. v[p - i + 1] = s[p]
    BY <1>2
  <2> QED BY <1>1, <1>2, <1>4, <2>1, <2>2
<1>6. w = v
  BY <1>2, <1>4, <1>5
<1>7. SubSeq(s, i, i - 1) = <<>>
  OBVIOUS
<1> QED BY <1>6, <1>7 DEF u, v, w

(* The scanner stands at a character or at the end.                        *)
LEMMA Standing ==
  ASSUME Placed
  PROVE  /\ rest = <<>> <=> Pos = Len(text) + 1
         /\ Pos = Len(text) + 1 => ch = EOF
         /\ Pos <= Len(text) => ch = text[Pos] /\ text[Pos] \in Bytes
         /\ EOF \notin Bytes \cup {FF, "#", ":", "%", Quote, LBrace, RBrace}
         /\ EOF \notin Letters \cup Digits \cup Spaces \cup High
<1>1. /\ rest = <<>> <=> Pos = Len(text) + 1
      /\ Pos = Len(text) + 1 => ch = EOF
      /\ Pos <= Len(text) => ch = text[Pos]
  BY LeftOver DEF Placed, ch
<1>2. Pos <= Len(text) => text[Pos] \in Bytes
  BY DEF Placed
<1>3. /\ EOF \notin Bytes \cup {FF, "#", ":", "%", Quote, LBrace, RBrace}
      /\ EOF \notin Letters \cup Digits \cup Spaces \cup High
  BY ScannerAssumption DEF Bytes
<1> QED BY <1>1, <1>2, <1>3

(* A character is consumed, or is not.                                     *)
LEMMA Reads ==
  ASSUME Placed, rest # <<>>, ConsumeChar, UNCHANGED text
  PROVE  /\ Placed' /\ Pos' = Pos + 1
         /\ Pos \in 1 .. Len(text) /\ ch = text[Pos] /\ text[Pos] \in Bytes
         /\ Char(rest') = IF Pos + 1 <= Len(text) THEN text[Pos + 1] ELSE EOF
         /\ rest' = <<>> <=> Pos + 1 = Len(text) + 1
<1>1. /\ text \in Seq(Bytes) /\ Pos \in 1 .. Len(text) + 1
      /\ rest = SubSeq(text, Pos, Len(text))
  BY DEF Placed
<1>2. Pos <= Len(text) /\ ch = text[Pos] /\ text[Pos] \in Bytes
  <2>1. Len(text) \in Nat
    BY <1>1
  <2>2. Pos # Len(text) + 1
    BY Standing
  <2>3. Pos <= Len(text)
    BY <1>1, <2>1, <2>2
  <2> QED BY <2>3, Standing
<1>3. rest' = SubSeq(text, Pos + 1, Len(text))
  BY <1>1, <1>2, LeftOver DEF ConsumeChar
<1> DEFINE p == Pos
<1>4. p + 1 \in 1 .. Len(text) + 1 /\ Len(text) \in Nat
  BY <1>1, <1>2
<1> HIDE DEF p
<1>5. Len(rest') = Len(text) - (p + 1) + 1
  BY <1>1, <1>3, <1>4, LeftOver DEF p
<1>6. Pos' = p + 1
  <2>1. Pos' = Len(text') - Len(rest') + 1
    BY DEF Pos
  <2>2. p \in Int
    BY <1>1 DEF p
  <2> QED BY <1>4, <1>5, <2>1, <2>2
<1>7. Placed'
  BY <1>1, <1>3, <1>4, <1>6 DEF Placed, p
<1>8. /\ Char(rest') = IF p + 1 <= Len(text) THEN text[p + 1] ELSE EOF
      /\ rest' = <<>> <=> p + 1 = Len(text) + 1
  BY <1>1, <1>3, <1>4, LeftOver DEF p
<1> QED BY <1>1, <1>2, <1>6, <1>7, <1>8 DEF p

(* Nothing is consumed, and the position stays.                            *)
LEMMA Waits ==
  ASSUME Placed, UNCHANGED <<rest, text>>
  PROVE  Placed' /\ Pos' = Pos
<1>1. Pos' = Pos
  BY DEF Pos
<1> QED BY <1>1 DEF Placed

(* No token is returned.                                                   *)
LEMMA SameToken ==
  ASSUME Delivering, UNCHANGED <<tokens, text>>
  PROVE  Delivering' /\ Here' = Here /\ From' = From
<1>1. Here' = Here
  BY DEF Here
<1>2. From' = From
  BY <1>1 DEF From
<1> QED BY <1>1, <1>2 DEF Delivering

(* The token that the reference cuts off next.                             *)
LEMMA NextIs ==
  ASSUME Delivering
  PROVE  /\ From = 0 => Lex!After(text, Here) = Lex!Stop(Lex!Hang)
         /\ From # 0 => Lex!After(text, Here) = Lex!TokenAt(text, From)
         /\ NextLexeme = Lex!After(text, Here).tok
<1>1. Here.next # 0 /\ Len(tokens) \in Nat
  BY DEF Delivering
<1>2. /\ From = 0 => Lex!After(text, Here) = Lex!Stop(Lex!Hang)
      /\ From # 0 => Lex!After(text, Here) = Lex!TokenAt(text, From)
  BY <1>1 DEF Lex!After, From
<1>3. NextLexeme = Lex!After(text, Here).tok
  <2> DEFINE n == Len(tokens)
             c == Lex!Cuts(text, n + 1)
  <2>1. Expected = [k \in 1 .. n + 1 |-> c[k].tok]
    BY DEF Expected, Lex!Lexemes
  <2>2. NextLexeme = Expected[n + 1]
    BY DEF NextLexeme
  <2>3. n \in Nat
    BY <1>1
  <2> HIDE DEF n
  <2>4. c[n + 1] = Lex!After(text, c[n])
    <3>1. n + 1 \in 1 .. n + 1 /\ (n + 1) - 1 = n /\ n + 1 \in Nat
      BY <2>3
    <3>2. c[n + 1] = Lex!After(text, c[(n + 1) - 1])
      BY <3>1, CutsLaw
    <3> QED BY <3>1, <3>2
  <2>5. c[n] = Here
    <3>1. n \in 0 .. n + 1 /\ n \in 0 .. n /\ n + 1 \in Nat
      BY <2>3
    <3>2. Lex!Cuts(text, n)[n] = Lex!Cuts(text, n + 1)[n]
      BY <3>1, CutsAgree
    <3> QED BY <3>2 DEF Here, n
  <2> HIDE DEF c
  <2>6. n + 1 \in 1 .. n + 1
    BY <2>3
  <2> QED BY <2>1, <2>2, <2>4, <2>5, <2>6
<1> QED BY <1>2, <1>3

(* The token that is returned is the one that the reference cuts off.      *)
LEMMA Returns ==
  ASSUME IInv, LexInv, NEW type \in TokenTypes, Return(type), alive, UNCHANGED <<text, alive>>,
         Placed',
         Lex!After(text, Here) =
           [tok |-> [type |-> type, str |-> CopyStr(tok.str)], next |-> Pos']
  PROVE  LexInv'
<1> DEFINE n == Len(tokens)
           new == [type |-> type, str |-> CopyStr(tok.str)]
           d == Lex!Cuts(text, n + 1)
<1>1. tokens' = Append(tokens, new) /\ pc' = "idle"
  BY DEF Return
<1>2. tokens' \in Seq(Cell)
  BY ReturnGives DEF IInv
<1>3. tokens \in Seq(Cell) /\ n \in Nat
  BY DEF LexInv, Delivering
<1>4. new \in Cell
  <2>1. CopyStr(tok.str) \in Seq(Bytes)
    BY ReturnGives DEF IInv, AnyChar
  <2> QED BY <2>1 DEF Cell
<1>5. /\ Len(tokens') = n + 1 /\ tokens'[n + 1] = new
      /\ \A k \in 1 .. n : tokens'[k] = tokens[k]
  <2> DEFINE C == Cell
  <2>1. tokens \in Seq(C) /\ new \in C
    BY <1>3, <1>4
  <2> HIDE DEF C, new
  <2> QED BY <1>1, <2>1
<1>6. d[n + 1] = Lex!After(text, Here)
  <2>1. n + 1 \in 1 .. n + 1 /\ (n + 1) - 1 = n /\ n + 1 \in Nat
        /\ n \in 0 .. n + 1 /\ n \in 0 .. n
    BY <1>3
  <2>2. d[n + 1] = Lex!After(text, d[(n + 1) - 1])
    BY <2>1, CutsLaw
  <2>3. Lex!Cuts(text, n)[n] = d[n]
    BY <2>1, CutsAgree
  <2> QED BY <2>1, <2>2, <2>3 DEF Here
<1>7. \A k \in 1 .. n : tokens[k] = d[k].tok
  <2>1. ASSUME NEW k \in 1 .. n PROVE tokens[k] = d[k].tok
    <3>1. n + 1 \in Nat /\ n \in 0 .. n + 1 /\ k \in 0 .. n
      BY <1>3
    <3>2. Lex!Cuts(text, n)[k] = d[k]
      BY <3>1, CutsAgree
    <3>3. tokens[k] = Lex!Cuts(text, n)[k].tok
      BY DEF LexInv, Delivering
    <3> QED BY <3>2, <3>3
  <2> QED BY <2>1
<1>8. d[n + 1].tok = new /\ d[n + 1].next = Pos'
  BY <1>6
<1>9. Here' = d[n + 1]
  BY <1>5 DEF Here
<1> HIDE DEF n, new, d
<1>10. \A k \in 1 .. Len(tokens') : tokens'[k] = d[k].tok
  <2>1. \A k \in 1 .. n + 1 : k \in 1 .. n \/ k = n + 1
    BY <1>3 DEF n
  <2> QED BY <1>5, <1>7, <1>8, <2>1
<1>11. Delivering'
  <2>1. Here'.next = Pos' /\ Pos' \in 1 .. Len(text') + 1
    BY <1>8, <1>9 DEF Placed
  <2>2. \A k \in 1 .. Len(tokens') : tokens'[k] = Lex!Cuts(text', Len(tokens'))[k].tok
    BY <1>5, <1>10 DEF d
  <2> QED BY <1>2, <2>1, <2>2 DEF Delivering
<1>12. Skipping'
  BY <1>1, <1>8, <1>9 DEF Skipping
<1>13. Wording' /\ Quoting' /\ StoppedWithin'
  BY <1>1 DEF Wording, Quoting, StoppedWithin
<1> QED BY <1>11, <1>12, <1>13 DEF LexInv

-----------------------------------------------------------------------------
(* At the start, and while nothing happens.                                *)
LEMMA InitLexInv ==
  ASSUME Init
  PROVE  LexInv
<1>1. /\ text \in Seq(Bytes) /\ rest = text /\ pc = "idle" /\ tokens = <<>>
      /\ alive = TRUE
  BY ScannerAssumption DEF Init
<1>2. Pos = 1
  BY <1>1 DEF Pos
<1>3. Placed
  <2>1. SubSeq(text, 1, Len(text)) = text
    BY <1>1
  <2> QED BY <1>1, <1>2, <2>1 DEF Placed
<1>4. Here = Lex!Outset
  <2>1. Len(tokens) = 0
    BY <1>1
  <2> QED BY <2>1, CutsLaw DEF Here
<1>5. Here.next = 1
  BY <1>4 DEF Lex!Outset
<1>6. Delivering
  BY <1>1, <1>5 DEF Delivering
<1>7. Skipping /\ Wording /\ Quoting /\ StoppedWithin
  BY <1>1, <1>2, <1>5 DEF Skipping, Wording, Quoting, StoppedWithin
<1> QED BY <1>3, <1>6, <1>7 DEF LexInv

(* Nothing happens.                                                        *)
LEMMA LexStutter ==
  ASSUME LexInv, UNCHANGED vars
  PROVE  LexInv'
<1>1. UNCHANGED <<text, rest, tok, pc, count, tokens, alive>>
  BY DEF vars
<1>2. Placed' /\ Pos' = Pos /\ Delivering' /\ Here' = Here /\ From' = From
  BY <1>1, Waits, SameToken DEF LexInv
<1>3. Skipping' /\ Wording' /\ StoppedWithin'
  BY <1>1, <1>2 DEF LexInv, Skipping, Wording, InDirective, StoppedWithin
<1>4. Quoting'
  BY <1>1, <1>2 DEF LexInv, Quoting, InString, InBlock
<1> QED BY <1>2, <1>3, <1>4 DEF LexInv

(* consume_token is called, and skips spaces and comments.                 *)
LEMMA LexCall ==
  ASSUME LexInv, Call
  PROVE  LexInv'
<1>1. UNCHANGED <<text, rest, tokens, alive>> /\ pc = "idle" /\ pc' = "start" /\ alive
  BY DEF Call, Working
<1>2. Placed' /\ Pos' = Pos /\ Delivering' /\ Here' = Here /\ From' = From
  BY <1>1, Waits, SameToken DEF LexInv
<1>3. Skipping'
  BY <1>1, <1>2 DEF LexInv, Skipping, From
<1>4. Wording' /\ Quoting' /\ StoppedWithin'
  BY <1>1 DEF Wording, Quoting, StoppedWithin
<1> QED BY <1>2, <1>3, <1>4 DEF LexInv

(* consume_token skips a space.                                            *)
LEMMA LexSpace ==
  ASSUME IInv, LexInv, SkipSpace
  PROVE  LexInv'
<1>1. /\ UNCHANGED <<text, pc, tokens, alive>> /\ pc = "start" /\ alive
      /\ ch \in Spaces /\ ConsumeChar
  BY DEF SkipSpace, Working
<1>2. rest # <<>>
  BY <1>1, CurrentChar DEF IInv, TypeOK
<1>3. /\ Placed' /\ Pos' = Pos + 1 /\ Pos \in 1 .. Len(text) /\ ch = text[Pos]
      /\ Delivering' /\ Here' = Here /\ From' = From
  BY <1>1, <1>2, Reads, SameToken DEF LexInv
<1>4. Skipping'
  <2>1. Lex!Start(text, Pos) = Lex!Start(text, Pos + 1)
    BY <1>1, <1>3, StartSkips DEF LexInv, Placed
  <2> QED BY <1>1, <1>3, <2>1 DEF LexInv, Skipping
<1>5. Wording' /\ Quoting' /\ StoppedWithin'
  BY <1>1 DEF Wording, Quoting, StoppedWithin
<1> QED BY <1>3, <1>4, <1>5 DEF LexInv

(* consume_token meets a #.                                                *)
LEMMA LexBeginComment ==
  ASSUME LexInv, BeginComment
  PROVE  LexInv'
<1>1. /\ UNCHANGED <<text, tokens, alive>> /\ pc = "start" /\ pc' = "comment" /\ alive
      /\ ch = "#" /\ ConsumeChar
  BY DEF BeginComment, Working
<1>2. rest # <<>>
  <2>1. ch # EOF
    BY <1>1, Standing DEF LexInv
  <2> QED BY <2>1, Standing DEF LexInv
<1>3. /\ Placed' /\ Pos' = Pos + 1 /\ Pos \in 1 .. Len(text) /\ ch = text[Pos]
      /\ Delivering' /\ Here' = Here /\ From' = From
  BY <1>1, <1>2, Reads, SameToken DEF LexInv
<1>4. Skipping'
  <2>1. /\ Pos \in 1 .. Pos' - 1 /\ From' = Lex!Start(text', Pos) /\ text'[Pos] = "#"
        /\ \A k \in Pos + 1 .. Pos' - 1 : text'[k] # NL
    BY <1>1, <1>3 DEF LexInv, Skipping
  <2> QED BY <1>1, <2>1 DEF Skipping
<1>5. Wording' /\ Quoting' /\ StoppedWithin'
  BY <1>1 DEF Wording, Quoting, StoppedWithin
<1> QED BY <1>3, <1>4, <1>5 DEF LexInv

(* consume_comment skips a character, or ends at the newline.              *)
LEMMA LexSkipComment ==
  ASSUME LexInv, SkipComment
  PROVE  LexInv'
<1>1. /\ UNCHANGED <<text, tokens, alive>> /\ pc = "comment" /\ alive
      /\ IF ch = NL THEN pc' = "start" /\ UNCHANGED rest
                    ELSE ConsumeChar /\ UNCHANGED pc
  BY DEF SkipComment, Working
<1>2. PICK h \in 1 .. Pos - 1 : /\ From = Lex!Start(text, h) /\ text[h] = "#"
                                /\ \A k \in h + 1 .. Pos - 1 : text[k] # NL
  BY <1>1 DEF LexInv, Skipping
<1>3. Delivering' /\ Here' = Here /\ From' = From
  BY <1>1, SameToken DEF LexInv
<1>4. Wording' /\ Quoting' /\ StoppedWithin'
  BY <1>1 DEF Wording, Quoting, StoppedWithin
<1>5. CASE ch = NL
  <2>1. Placed' /\ Pos' = Pos /\ pc' = "start"
    BY <1>1, <1>5, Waits DEF LexInv
  <2>2. Pos <= Len(text) /\ text[Pos] = NL /\ Pos \in 1 .. Len(text) + 1
        /\ text \in Seq(Bytes)
    <3>1. NL # EOF
      BY ScannerAssumption DEF Bytes
    <3>2. Pos \in 1 .. Len(text) + 1 /\ text \in Seq(Bytes)
      BY DEF LexInv, Placed
    <3>3. Pos # Len(text) + 1
      BY <1>5, <3>1, Standing DEF LexInv
    <3>4. Len(text) \in Nat
      BY <3>2
    <3>5. Pos <= Len(text)
      BY <3>2, <3>3, <3>4
    <3> QED BY <1>5, <3>2, <3>5, Standing DEF LexInv
  <2>3. Lex!Start(text, h) = Lex!Start(text, Pos)
    BY <1>2, <2>2, StartInComment
  <2>4. Skipping'
    BY <1>1, <1>2, <1>3, <2>1, <2>3 DEF Skipping
  <2> QED BY <1>3, <1>4, <2>1, <2>4 DEF LexInv
<1>6. CASE ch # NL /\ rest # <<>>
  <2>1. Placed' /\ Pos' = Pos + 1 /\ ch = text[Pos] /\ Pos \in 1 .. Len(text) /\ pc' = pc
    BY <1>1, <1>6, Reads DEF LexInv
  <2>2. /\ h \in 1 .. Pos' - 1 /\ From' = Lex!Start(text', h) /\ text'[h] = "#"
        /\ \A k \in h + 1 .. Pos' - 1 : text'[k] # NL
    BY <1>1, <1>2, <1>3, <1>6, <2>1
  <2>3. Skipping'
    BY <1>1, <2>1, <2>2 DEF Skipping
  <2> QED BY <1>3, <1>4, <2>1, <2>3 DEF LexInv
<1>7. CASE ch # NL /\ rest = <<>>
  <2>1. UNCHANGED <<rest, pc>>
    BY <1>1, <1>7 DEF ConsumeChar, Drop
  <2>2. Placed' /\ Pos' = Pos
    BY <1>1, <2>1, Waits DEF LexInv
  <2>3. Skipping'
    BY <1>1, <1>3, <2>1, <2>2 DEF LexInv, Skipping
  <2> QED BY <1>3, <1>4, <2>2, <2>3 DEF LexInv
<1> QED BY <1>5, <1>6, <1>7

(* A token starts where the scanner stands.                                *)
LEMMA StartsHere ==
  ASSUME LexInv, pc = "start", ch \notin Spaces \cup {"#"}
  PROVE  From = Pos
<1>1. Pos <= Len(text) => text[Pos] \notin Spaces \cup {"#"}
  BY Standing DEF LexInv
<1>2. Lex!Start(text, Pos) = Pos
  BY <1>1, StartStays DEF LexInv, Placed
<1> QED BY <1>2 DEF LexInv, Skipping

(* The tokens without a text.                                              *)
LEMMA EmptyToken ==
  ASSUME IInv, LexInv, pc = "start", NEW type, NEW next
  PROVE  Lex!Tok(type, text, Pos, Pos - 1, next) =
           [tok |-> [type |-> type, str |-> CopyStr(tok.str)], next |-> next]
<1>1. text \in Seq(Bytes) /\ Pos \in Nat \ {0} /\ Pos - 1 \in Pos - 1 .. Len(text)
  BY DEF LexInv, Placed
<1>2. SubSeq(text, Pos, Pos - 1) = <<>>
  BY <1>1
<1>3. tok.str = <<>>
  BY DEF IInv, TextFits
<1> DEFINE p == Pos
           q == Pos - 1
<1>4. text \in Seq(Bytes) /\ p \in Nat \ {0} /\ q \in p - 1 .. Len(text)
      /\ SubSeq(text, p, q) = <<>>
  BY <1>1, <1>2
<1> HIDE DEF p, q
<1>5. ASSUME NEW s \in Seq(Bytes), s = text
      PROVE  Lex!Tok(type, s, p, q, next) =
               [tok |-> [type |-> type, str |-> CopyStr(SubSeq(s, p, q))],
                next |-> next]
  <2>1. q \in p - 1 .. Len(s)
    BY <1>4, <1>5
  <2> HIDE <1>5
  <2> QED BY <1>4, <2>1, TokIs
<1> QED BY <1>3, <1>4, <1>5 DEF p, q

(* The end of the input is returned, and nothing is consumed.              *)
LEMMA LexEnd ==
  ASSUME IInv, LexInv, EndOfInput
  PROVE  LexInv'
<1>1. /\ UNCHANGED <<text, rest, alive>> /\ pc = "start" /\ alive /\ ch \in {EOF, FF}
      /\ Return("END_OF_INPUT") /\ "END_OF_INPUT" \in TokenTypes
  BY DEF EndOfInput, Working, IsEnd, TokenTypes
<1>2. Placed' /\ Pos' = Pos /\ Pos \in 1 .. Len(text) + 1 /\ text \in Seq(Bytes)
  BY <1>1, Waits DEF LexInv, Placed
<1>3. From = Pos /\ From # 0
  <2>1. ch \notin Spaces \cup {"#"}
    BY <1>1, ScannerAssumption, Marks DEF Bytes
  <2> QED BY <1>1, <1>2, <2>1, StartsHere
<1>4. Pos = Len(text) + 1 \/ text[Pos] = FF
  <2>1. Len(text) \in Nat
    BY <1>2
  <2>2. Pos <= Len(text) => ch \in Bytes /\ ch = text[Pos]
    BY Standing DEF LexInv
  <2>3. Pos <= Len(text) => text[Pos] = FF
    BY <1>1, <2>2, ScannerAssumption
  <2> QED BY <1>2, <2>1, <2>3
<1>5. Lex!After(text, Here) = Lex!Tok("END_OF_INPUT", text, Pos, Pos - 1, Pos)
  BY <1>2, <1>3, <1>4, NextIs, TokenAtIs DEF LexInv
<1>6. Lex!After(text, Here) =
        [tok |-> [type |-> "END_OF_INPUT", str |-> CopyStr(tok.str)], next |-> Pos']
  BY <1>1, <1>2, <1>5, EmptyToken
<1> QED BY <1>1, <1>2, <1>6, Returns

(* A character that begins no token is an error that stays.                *)
LEMMA LexBadChar ==
  ASSUME IInv, LexInv, BadChar
  PROVE  LexInv'
<1>1. /\ UNCHANGED <<text, rest, alive>> /\ pc = "start" /\ alive
      /\ ch \notin Starters /\ ch \notin {EOF, FF}
      /\ Return("ERROR") /\ "ERROR" \in TokenTypes
  BY DEF BadChar, Working, IsEnd, TokenTypes, LeaveChar
<1>2. Placed' /\ Pos' = Pos /\ Pos \in 1 .. Len(text) + 1 /\ text \in Seq(Bytes)
  BY <1>1, Waits DEF LexInv, Placed
<1>3. From = Pos /\ From # 0
  <2>1. ch \notin Spaces \cup {"#"}
    BY <1>1 DEF Starters
  <2> QED BY <1>1, <1>2, <2>1, StartsHere
<1>4. Pos <= Len(text) /\ text[Pos] \notin Starters \cup {FF}
  <2>1. Len(text) \in Nat
    BY <1>2
  <2>2. Pos # Len(text) + 1
    BY <1>1, Standing DEF LexInv
  <2>3. Pos <= Len(text)
    BY <1>2, <2>1, <2>2
  <2> QED BY <1>1, <2>3, Standing DEF LexInv
<1>5. Lex!After(text, Here) = Lex!Tok("ERROR", text, Pos, Pos - 1, Pos)
  BY <1>2, <1>3, <1>4, NextIs, TokenAtIs DEF LexInv
<1>6. Lex!After(text, Here) =
        [tok |-> [type |-> "ERROR", str |-> CopyStr(tok.str)], next |-> Pos']
  BY <1>1, <1>2, <1>5, EmptyToken
<1> QED BY <1>1, <1>2, <1>6, Returns

(* A colon is a token.                                                     *)
LEMMA LexColon ==
  ASSUME IInv, LexInv, GetColon
  PROVE  LexInv'
<1>1. /\ UNCHANGED <<text, alive>> /\ pc = "start" /\ alive /\ ch = ":"
      /\ ConsumeChar /\ Return("COLON") /\ "COLON" \in TokenTypes
  BY DEF GetColon, Working, TokenTypes
<1>2. rest # <<>>
  <2>1. ch # EOF
    BY <1>1, Standing DEF LexInv
  <2> QED BY <2>1, Standing DEF LexInv
<1>3. /\ Placed' /\ Pos' = Pos + 1 /\ Pos \in 1 .. Len(text) /\ text[Pos] = ":"
      /\ text \in Seq(Bytes)
  BY <1>1, <1>2, Reads DEF LexInv, Placed
<1>4. From = Pos /\ From # 0
  <2>1. ch \notin Spaces \cup {"#"}
    BY <1>1, ScannerAssumption, Marks
  <2> QED BY <1>1, <1>3, <2>1, StartsHere
<1>5. Lex!After(text, Here) = Lex!Tok("COLON", text, Pos, Pos - 1, Pos + 1)
  <2>1. Pos \in 1 .. Len(text) + 1 /\ Pos <= Len(text)
    BY <1>3
  <2>2. Lex!TokenAt(text, Pos) = Lex!Tok("COLON", text, Pos, Pos - 1, Pos + 1)
    BY <1>3, <2>1, TokenAtIs
  <2> QED BY <1>4, <2>2, NextIs DEF LexInv
<1>6. Lex!After(text, Here) =
        [tok |-> [type |-> "COLON", str |-> CopyStr(tok.str)], next |-> Pos']
  BY <1>1, <1>3, <1>5, EmptyToken
<1> QED BY <1>1, <1>3, <1>6, Returns

(* A word, a string or a block begins.                                     *)
LEMMA LexBeginWord ==
  ASSUME IInv, LexInv, BeginWord
  PROVE  LexInv'
<1>1. /\ UNCHANGED <<text, tokens, alive>> /\ pc = "start" /\ alive
      /\ \/ ch = "%" /\ pc' = "directive"
         \/ ch \in Digits /\ pc' = "number"
         \/ ch \in Letters /\ pc' = "symbol"
      /\ KeepChar /\ ConsumeChar
  BY DEF BeginWord, Working
<1>2. rest # <<>>
  <2>1. ch # EOF
    BY <1>1, Standing DEF LexInv
  <2> QED BY <2>1, Standing DEF LexInv
<1>3. /\ Placed' /\ Pos' = Pos + 1 /\ Pos \in 1 .. Len(text) /\ ch = text[Pos]
      /\ text[Pos] \in Bytes /\ text \in Seq(Bytes)
  BY <1>1, <1>2, Reads DEF LexInv, Placed
<1>4. Delivering' /\ Here' = Here /\ From' = From
  BY <1>1, SameToken DEF LexInv
<1>5. From = Pos
  <2>1. ch \notin Spaces \cup {"#"}
    BY <1>1, ScannerAssumption, Marks
  <2> QED BY <1>1, <2>1, StartsHere
<1>6. tok'.str = SubSeq(text, Pos, Pos)
  <2>1. tok'.str = Append(tok.str, ch) /\ tok.str = <<>>
    BY <1>1, <1>3, CharKept DEF IInv, TextFits
  <2>2. Pos \in 1 .. Pos
    BY <1>3
  <2>3. Append(SubSeq(text, Pos, Pos - 1), text[Pos]) = SubSeq(text, Pos, Pos)
        /\ SubSeq(text, Pos, Pos - 1) = <<>>
    BY <1>3, <2>2, PartGrows
  <2> QED BY <1>3, <2>1, <2>3
<1>7. From' = Pos /\ From' \in 1 .. Pos' - 1 /\ Pos' - 1 = Pos /\ text' = text
  <2>1. Pos \in Nat /\ 1 <= Pos
    BY <1>3
  <2>2. Pos' - 1 = Pos
    BY <1>3, <2>1
  <2>3. text' = text
    BY <1>1
  <2>4. From' = Pos
    BY <1>4, <1>5
  <2>5. Pos \in 1 .. Pos
    BY <2>1
  <2> QED BY <2>2, <2>3, <2>4, <2>5
<1>8. Wording'
  <2>1. pc' \in {"symbol", "number", "directive"} =>
          From' \in 1 .. Pos' - 1 /\ tok'.str = SubSeq(text', From', Pos' - 1)
    BY <1>6, <1>7
  <2>2. pc' = "number" => \A k \in From' .. Pos' - 1 : text'[k] \in Digits
    BY <1>1, <1>3, <1>7
  <2>3. pc' = "symbol" => /\ text'[From'] \in Letters
                          /\ \A k \in From' .. Pos' - 1 : text'[k] \in Letters \cup Digits
    BY <1>1, <1>3, <1>7
  <2>4. pc' = "directive" => InDirective'
    BY <1>1, <1>3, <1>7 DEF InDirective
  <2> QED BY <2>1, <2>2, <2>3, <2>4 DEF Wording
<1>9. Skipping' /\ Quoting' /\ StoppedWithin'
  BY <1>1 DEF Skipping, Quoting, StoppedWithin
<1> QED BY <1>3, <1>4, <1>8, <1>9 DEF LexInv

(* A string or a block begins behind its first character.                  *)
LEMMA LexBeginString ==
  ASSUME IInv, LexInv, BeginString \/ BeginBlock
  PROVE  LexInv'
<1>1. /\ UNCHANGED <<text, tok, tokens, alive>> /\ pc = "start" /\ alive
      /\ \/ ch = Quote /\ pc' = "string"
         \/ ch = LBrace /\ pc' = "block" /\ count' = 1
      /\ ConsumeChar
  BY DEF BeginString, BeginBlock, Working
<1>2. rest # <<>>
  <2>1. ch # EOF
    BY <1>1, Standing DEF LexInv
  <2> QED BY <2>1, Standing DEF LexInv
<1>3. /\ Placed' /\ Pos' = Pos + 1 /\ Pos \in 1 .. Len(text) /\ ch = text[Pos]
      /\ text \in Seq(Bytes)
  BY <1>1, <1>2, Reads DEF LexInv, Placed
<1>4. Delivering' /\ Here' = Here /\ From' = From
  BY <1>1, SameToken DEF LexInv
<1>5. From = Pos
  <2>1. ch \notin Spaces \cup {"#"}
    BY <1>1, ScannerAssumption, Marks
  <2> QED BY <1>1, <2>1, StartsHere
<1>6. tok'.str = SubSeq(text, Pos + 1, Pos)
  <2>1. tok'.str = <<>>
    BY <1>1 DEF IInv, TextFits
  <2>2. SubSeq(text, Pos + 1, Pos) = <<>>
    BY <1>3
  <2> QED BY <2>1, <2>2
<1>7. From' = Pos /\ From' \in 1 .. Pos' - 1 /\ Pos' - 1 = Pos /\ text' = text
  <2>1. Pos \in Nat /\ 1 <= Pos
    BY <1>3
  <2>2. Pos' - 1 = Pos
    BY <1>3, <2>1
  <2>3. text' = text
    BY <1>1
  <2>4. From' = Pos
    BY <1>4, <1>5
  <2>5. Pos \in 1 .. Pos
    BY <2>1
  <2> QED BY <2>2, <2>3, <2>4, <2>5
<1>8. pc' = "string" => InString'
  <2>1. ~Lex!Refused(text, Pos + 2, Pos + 1)
    BY <1>3 DEF Lex!Refused
  <2>2. ~Lex!Refused(text', From' + 2, Pos')
    BY <1>3, <1>7, <2>1
  <2>3. \A k \in From' + 1 .. Pos' - 1 : text'[k] # Quote
    <3>1. Pos + 1 .. Pos = {}
      BY <1>3
    <3> QED BY <1>7, <3>1
  <2>4. pc' = "string" => text'[From'] = Quote
    BY <1>1, <1>3, <1>7
  <2> QED BY <1>1, <2>2, <2>3, <2>4 DEF InString
<1>9. pc' = "block" => InBlock'
  <2> SUFFICES ASSUME pc' = "block" PROVE InBlock'
    OBVIOUS
  <2>1. text[Pos] = LBrace /\ count' = 1
    BY <1>1, <1>3
  <2>4. Lex!Braces(text, Pos, Pos, LBrace) = 1 /\ Lex!Braces(text, Pos, Pos, RBrace) = 0
    <3>1. Pos \in Nat \ {0}
      BY <1>3
    <3> QED BY <1>3, <2>1, <3>1, FirstBrace
  <2>6. /\ count' = Lex!Braces(text', From', Pos' - 1, LBrace)
                     - Lex!Braces(text', From', Pos' - 1, RBrace)
        /\ count' > 0
    <3>1. count' = 1 /\ text' = text /\ From' = Pos /\ Pos' - 1 = Pos
      BY <1>7, <2>1
    <3>2. count' = Lex!Braces(text, Pos, Pos, LBrace) - Lex!Braces(text, Pos, Pos, RBrace)
      BY <2>4, <3>1
    <3>3. count' > 0
      BY <3>1
    <3> QED BY <3>1, <3>2, <3>3
  <2>7. \A k \in From' .. Pos' - 1 :
          Lex!Braces(text', From', k, LBrace) # Lex!Braces(text', From', k, RBrace)
    <3>1. \A k \in Pos .. Pos :
            Lex!Braces(text, Pos, k, LBrace) # Lex!Braces(text, Pos, k, RBrace)
      BY <1>3, <2>4
    <3> QED BY <1>7, <3>1
  <2>8. text'[From'] = LBrace /\ alive'
    BY <1>1, <1>7, <2>1
  <2> QED BY <2>6, <2>7, <2>8 DEF InBlock
<1>10. Quoting'
  BY <1>1, <1>6, <1>7, <1>8, <1>9 DEF Quoting
<1>11. Skipping' /\ Wording' /\ StoppedWithin'
  BY <1>1 DEF Skipping, Wording, StoppedWithin
<1> QED BY <1>3, <1>4, <1>10, <1>11 DEF LexInv

-----------------------------------------------------------------------------
(* A word goes on with the current character.                              *)
LEMMA WordGoesOn ==
  ASSUME IInv, LexInv, pc \in {"symbol", "number", "directive"}, rest # <<>>,
         KeepChar, ConsumeChar, UNCHANGED <<text, tokens>>
  PROVE  /\ Placed' /\ Pos' = Pos + 1 /\ Pos \in 1 .. Len(text) /\ ch = text[Pos]
         /\ Char(rest') = IF Pos + 1 <= Len(text) THEN text[Pos + 1] ELSE EOF
         /\ Delivering' /\ From' = From /\ From \in 1 .. Pos - 1
         /\ From' \in 1 .. Pos' - 1 /\ Pos' - 1 = Pos /\ Pos \in Nat
         /\ tok'.str = SubSeq(text', From', Pos' - 1)
<1>1. /\ Placed' /\ Pos' = Pos + 1 /\ Pos \in 1 .. Len(text) /\ ch = text[Pos]
      /\ text[Pos] \in Bytes /\ text \in Seq(Bytes)
      /\ Char(rest') = IF Pos + 1 <= Len(text) THEN text[Pos + 1] ELSE EOF
  BY Reads DEF LexInv, Placed
<1>2. Delivering' /\ From' = From
  BY SameToken DEF LexInv
<1>3. From \in 1 .. Pos - 1 /\ tok.str = SubSeq(text, From, Pos - 1)
  BY DEF LexInv, Wording
<1>4. Pos \in Nat
  BY <1>1
<1>5. Pos' - 1 = Pos
  BY <1>1, <1>4
<1>6. From' \in 1 .. Pos' - 1
  <2>1. From \in 1 .. Pos
    BY <1>3, <1>4
  <2> QED BY <1>2, <1>5, <2>1
<1>7. tok'.str = SubSeq(text', From', Pos' - 1)
  <2>1. tok'.str = Append(tok.str, ch)
    BY <1>1, CharKept
  <2>2. From \in 1 .. Pos
    BY <1>3, <1>4
  <2>3. Append(SubSeq(text, From, Pos - 1), text[Pos]) = SubSeq(text, From, Pos)
    BY <1>1, <2>2, PartGrows
  <2> QED BY <1>1, <1>2, <1>3, <1>5, <2>1, <2>3
<1> QED BY <1>1, <1>2, <1>3, <1>4, <1>5, <1>6, <1>7

(* A run of characters ends at one that does not belong to it.             *)
LEMMA RunEnds ==
  ASSUME LexInv, From \in 1 .. Pos - 1, NEW S, NEW i \in {From, From + 1},
         \A k \in i .. Pos - 1 : text[k] \in S, ch \notin S
  PROVE  /\ Lex!RunEnd(text, i, S) = Pos - 1
         /\ Pos - 1 \in From .. Len(text) /\ From \in Nat \ {0} /\ (Pos - 1) + 1 = Pos
<1>1. text \in Seq(Bytes) /\ Pos \in 1 .. Len(text) + 1 /\ Len(text) \in Nat
  BY DEF LexInv, Placed
<1>2. From \in Nat \ {0} /\ Pos - 1 \in From .. Len(text) /\ (Pos - 1) + 1 = Pos
  BY <1>1
<1>3. i \in Nat \ {0} /\ Pos - 1 \in i - 1 .. Len(text)
  BY <1>2
<1>4. Pos - 1 < Len(text) => text[(Pos - 1) + 1] \notin S
  <2>1. Pos - 1 < Len(text) => Pos <= Len(text)
    BY <1>1
  <2> QED BY <1>2, <2>1, Standing DEF LexInv
<1> DEFINE j == Pos - 1
<1>5. /\ j \in i - 1 .. Len(text) /\ \A k \in i .. j : text[k] \in S
      /\ j < Len(text) => text[j + 1] \notin S
  BY <1>3, <1>4
<1> HIDE DEF j
<1>6. Lex!RunEnd(text, i, S) = j
  BY <1>1, <1>3, <1>5, RunEndIs
<1> QED BY <1>2, <1>6 DEF j

(* A word ends.                                                            *)
LEMMA WordReturns ==
  ASSUME IInv, LexInv, pc \in {"symbol", "number", "directive"}, alive,
         NEW type \in TokenTypes, Return(type), UNCHANGED <<text, rest, alive>>,
         Lex!TokenAt(text, From) = Lex!Tok(type, text, From, Pos - 1, Pos)
  PROVE  LexInv'
<1>1. /\ From \in 1 .. Pos - 1 /\ tok.str = SubSeq(text, From, Pos - 1)
      /\ text \in Seq(Bytes) /\ Pos \in 1 .. Len(text) + 1
  BY DEF LexInv, Wording, Placed
<1>2. Placed' /\ Pos' = Pos
  BY Waits DEF LexInv
<1>3. From \in Nat \ {0} /\ Pos - 1 \in From - 1 .. Len(text)
  BY <1>1
<1> DEFINE i == From
           j == Pos - 1
           p == Pos
<1>4. i \in Nat \ {0} /\ j \in i - 1 .. Len(text)
  BY <1>3
<1> HIDE DEF i, j, p
<1>5. Lex!Tok(type, text, i, j, p) =
        [tok |-> [type |-> type, str |-> CopyStr(SubSeq(text, i, j))], next |-> p]
  BY <1>1, <1>4, TokIs
<1>6. Lex!After(text, Here) =
        [tok |-> [type |-> type, str |-> CopyStr(tok.str)], next |-> Pos']
  BY <1>1, <1>2, <1>3, <1>5, NextIs DEF LexInv, i, j, p
<1> QED BY <1>2, <1>6, Returns

(* get_number keeps a digit, or returns the number.                        *)
LEMMA LexNumber ==
  ASSUME IInv, LexInv, ReadNumber
  PROVE  LexInv'
<1>1. pc = "number" /\ alive /\ UNCHANGED <<text, alive>>
  BY DEF ReadNumber, Working
<1>2. From \in 1 .. Pos - 1 /\ \A k \in From .. Pos - 1 : text[k] \in Digits
  BY <1>1 DEF LexInv, Wording
<1>3. CASE ch \in Digits
  <2>1. KeepChar /\ ConsumeChar /\ UNCHANGED <<pc, tokens>>
    BY <1>3 DEF ReadNumber
  <2>2. rest # <<>>
    BY <1>3, CurrentChar DEF IInv, TypeOK
  <2>3. /\ Placed' /\ Delivering' /\ From' = From /\ Pos \in Nat /\ Pos' - 1 = Pos
        /\ From' \in 1 .. Pos' - 1 /\ tok'.str = SubSeq(text', From', Pos' - 1)
        /\ ch = text[Pos] /\ From \in 1 .. Pos - 1
    BY <1>1, <2>1, <2>2, WordGoesOn
  <2>4. \A k \in From' .. Pos' - 1 : text'[k] \in Digits
    <3>1. \A k \in From .. Pos : k \in From .. Pos - 1 \/ k = Pos
      BY <2>3
    <3> QED BY <1>1, <1>2, <1>3, <2>3, <3>1
  <2>5. Wording'
    BY <1>1, <2>1, <2>3, <2>4 DEF Wording
  <2>6. Skipping' /\ Quoting' /\ StoppedWithin'
    BY <1>1, <2>1 DEF Skipping, Quoting, StoppedWithin
  <2> QED BY <2>3, <2>5, <2>6 DEF LexInv
<1>4. CASE ch \notin Digits
  <2>1. Return("NUMBER") /\ UNCHANGED rest /\ "NUMBER" \in TokenTypes
    BY <1>4 DEF ReadNumber, TokenTypes
  <2>2. /\ Lex!RunEnd(text, From, Digits) = Pos - 1 /\ (Pos - 1) + 1 = Pos
        /\ Pos - 1 \in From .. Len(text) /\ From \in Nat \ {0}
    BY <1>2, <1>4, RunEnds
  <2>3. From \in 1 .. Len(text) + 1 /\ From <= Len(text) /\ text[From] \in Digits
        /\ text \in Seq(Bytes)
    BY <1>2, <2>2 DEF LexInv, Placed
  <2>4. Lex!TokenAt(text, From) = Lex!RunAt("NUMBER", text, From, Digits)
    BY <2>3, TokenAtIs
  <2>5. Lex!RunAt("NUMBER", text, From, Digits) = Lex!Tok("NUMBER", text, From, Pos - 1, Pos)
    BY <2>2 DEF Lex!RunAt
  <2> QED BY <1>1, <2>1, <2>4, <2>5, WordReturns
<1> QED BY <1>3, <1>4

(* get_symbol keeps a character, or returns the symbol.                    *)
LEMMA LexSymbol ==
  ASSUME IInv, LexInv, ReadSymbol
  PROVE  LexInv'
<1> DEFINE S == Letters \cup Digits
<1>1. pc = "symbol" /\ alive /\ UNCHANGED <<text, alive>>
  BY DEF ReadSymbol, Working
<1>2. /\ From \in 1 .. Pos - 1 /\ text[From] \in Letters
      /\ \A k \in From .. Pos - 1 : text[k] \in S
  BY <1>1 DEF LexInv, Wording
<1>3. CASE ch \in S
  <2>1. KeepChar /\ ConsumeChar /\ UNCHANGED <<pc, tokens>>
    BY <1>3 DEF ReadSymbol, IsSymbol1
  <2>2. rest # <<>>
    BY <1>3, CurrentChar DEF IInv, TypeOK
  <2>3. /\ Placed' /\ Delivering' /\ From' = From /\ Pos \in Nat /\ Pos' - 1 = Pos
        /\ From' \in 1 .. Pos' - 1 /\ tok'.str = SubSeq(text', From', Pos' - 1)
        /\ ch = text[Pos] /\ From \in 1 .. Pos - 1
    BY <1>1, <2>1, <2>2, WordGoesOn
  <2>4. \A k \in From' .. Pos' - 1 : text'[k] \in S
    <3>1. \A k \in From .. Pos : k \in From .. Pos - 1 \/ k = Pos
      BY <2>3
    <3> QED BY <1>1, <1>2, <1>3, <2>3, <3>1
  <2>5. Wording'
    BY <1>1, <1>2, <2>1, <2>3, <2>4 DEF Wording
  <2>6. Skipping' /\ Quoting' /\ StoppedWithin'
    BY <1>1, <2>1 DEF Skipping, Quoting, StoppedWithin
  <2> QED BY <2>3, <2>5, <2>6 DEF LexInv
<1>4. CASE ch \notin S
  <2>1. Return("SYMBOL") /\ UNCHANGED rest /\ "SYMBOL" \in TokenTypes
    BY <1>4 DEF ReadSymbol, IsSymbol1, TokenTypes
  <2>2. /\ Lex!RunEnd(text, From, S) = Pos - 1 /\ (Pos - 1) + 1 = Pos
        /\ Pos - 1 \in From .. Len(text) /\ From \in Nat \ {0}
    BY <1>2, <1>4, RunEnds
  <2>3. From \in 1 .. Len(text) + 1 /\ From <= Len(text) /\ text \in Seq(Bytes)
    BY <2>2 DEF LexInv, Placed
  <2>4. Lex!TokenAt(text, From) = Lex!RunAt("SYMBOL", text, From, S)
    BY <1>2, <2>3, TokenAtIs
  <2>5. Lex!RunAt("SYMBOL", text, From, S) = Lex!Tok("SYMBOL", text, From, Pos - 1, Pos)
    BY <2>2 DEF Lex!RunAt
  <2> QED BY <1>1, <2>1, <2>4, <2>5, WordReturns
<1> QED BY <1>3, <1>4

(* check_eof refuses what the reference refuses.                           *)
LEMMA RefusedIs ==
  ASSUME NEW s \in Seq(Bytes), NEW p \in 1 .. Len(s) + 1, NEW i \in Nat \ {0}, i <= p,
         NEW c, c = IF p <= Len(s) THEN s[p] ELSE EOF
  PROVE  /\ c \in High \cup {FF} => p <= Len(s)
         /\ Lex!Refused(s, i, p) <=> Lex!Refused(s, i, p - 1) \/ c \in High \cup {FF}
         /\ ~Lex!Refused(s, p, p - 1)
<1>1. EOF \notin High \cup {FF}
  BY ScannerAssumption DEF Bytes
<1>2. c \in High \cup {FF} => p <= Len(s) /\ s[p] = c
  BY <1>1
<1>3. \A k \in i .. p : k \in i .. p - 1 \/ k = p
  OBVIOUS
<1>4. p \in i .. p /\ \A k \in i .. p - 1 : k \in i .. p
  OBVIOUS
<1>5. Lex!Refused(s, i, p) => Lex!Refused(s, i, p - 1) \/ c \in High \cup {FF}
  BY <1>3 DEF Lex!Refused
<1>6. Lex!Refused(s, i, p - 1) => Lex!Refused(s, i, p)
  BY <1>4 DEF Lex!Refused
<1>7. c \in High \cup {FF} => Lex!Refused(s, i, p)
  BY <1>2, <1>4 DEF Lex!Refused
<1>8. ~Lex!Refused(s, p, p - 1)
  BY DEF Lex!Refused
<1> QED BY <1>2, <1>5, <1>6, <1>7, <1>8

(* get_directive keeps a letter.                                           *)
LEMMA LexReadDirective ==
  ASSUME IInv, LexInv, ReadDirective
  PROVE  LexInv'
<1>1. /\ pc = "directive" /\ alive /\ UNCHANGED <<text, pc, tokens>> /\ ch \in Letters
      /\ KeepChar /\ ConsumeChar
      /\ alive' = (Char(rest') \notin High \cup {FF})
  BY DEF ReadDirective, Working, CheckEof
<1>2. rest # <<>>
  BY <1>1, CurrentChar DEF IInv, TypeOK
<1>3. /\ Placed' /\ Delivering' /\ From' = From /\ Pos \in Nat /\ Pos' - 1 = Pos
      /\ From' \in 1 .. Pos' - 1 /\ tok'.str = SubSeq(text', From', Pos' - 1)
      /\ ch = text[Pos] /\ From \in 1 .. Pos - 1 /\ Pos' = Pos + 1
      /\ Pos \in 1 .. Len(text)
      /\ Char(rest') = IF Pos + 1 <= Len(text) THEN text[Pos + 1] ELSE EOF
  BY <1>1, <1>2, WordGoesOn
<1>4. InDirective
  BY <1>1 DEF LexInv, Wording
<1>5. alive' <=> ~Lex!Refused(text', Pos', Pos')
  <2> DEFINE p == Pos + 1
             c == Char(rest')
  <2>1. /\ text \in Seq(Bytes) /\ p \in 1 .. Len(text) + 1 /\ p \in Nat \ {0} /\ p <= p
        /\ c = IF p <= Len(text) THEN text[p] ELSE EOF
    BY <1>3 DEF LexInv, Placed
  <2> HIDE DEF p, c
  <2>2. /\ Lex!Refused(text, p, p) <=> Lex!Refused(text, p, p - 1) \/ c \in High \cup {FF}
        /\ ~Lex!Refused(text, p, p - 1)
    BY <2>1, RefusedIs
  <2>3. Lex!Refused(text, p, p) <=> c \in High \cup {FF}
    BY <2>2
  <2> QED BY <1>1, <1>3, <2>3 DEF p, c
<1>6. Pos' - 1 > From'
  BY <1>3
<1>7. \A k \in From' + 1 .. Pos' - 1 : text'[k] \in Letters
  <2>1. \A k \in From + 1 .. Pos : k \in From + 1 .. Pos - 1 \/ k = Pos
    BY <1>3
  <2> QED BY <1>1, <1>3, <1>4, <2>1 DEF InDirective
<1>8. text'[From'] = "%"
  BY <1>1, <1>3, <1>4 DEF InDirective
<1>9. InDirective'
  BY <1>5, <1>6, <1>7, <1>8 DEF InDirective
<1>10. Wording'
  BY <1>1, <1>3, <1>9 DEF Wording
<1>11. Skipping' /\ Quoting' /\ StoppedWithin'
  BY <1>1 DEF Skipping, Quoting, StoppedWithin
<1> QED BY <1>3, <1>10, <1>11 DEF LexInv

(* get_directive returns the directive, or refuses the byte.               *)
LEMMA LexEndDirective ==
  ASSUME IInv, LexInv, EndDirective
  PROVE  LexInv'
<1> DEFINE type == IF tok.str \in DOMAIN Keyword THEN Keyword[tok.str] ELSE "ERROR"
<1>1. /\ pc = "directive" /\ alive /\ UNCHANGED <<text, rest, alive>>
      /\ ch \notin Letters /\ Return(type)
  BY DEF EndDirective, Working
<1>2. type \in TokenTypes
  <2>1. tok.str \in DOMAIN Keyword =>
          Keyword[tok.str] \in {"VERBOSITY", "NAME", "PREFIX", "CODE"}
    BY ScannerAssumption
  <2> QED BY <2>1 DEF TokenTypes
<1>3. InDirective /\ From \in 1 .. Pos - 1 /\ tok.str = SubSeq(text, From, Pos - 1)
  BY <1>1 DEF LexInv, Wording
<1>4. /\ Lex!RunEnd(text, From + 1, Letters) = Pos - 1 /\ (Pos - 1) + 1 = Pos
      /\ Pos - 1 \in From .. Len(text) /\ From \in Nat \ {0}
  <2>1. \A k \in From + 1 .. Pos - 1 : text[k] \in Letters
    BY <1>3 DEF InDirective
  <2> QED BY <1>1, <1>3, <2>1, RunEnds
<1>5. ~(Pos - 1 > From /\ Lex!Refused(text, Pos, Pos))
  BY <1>1, <1>3 DEF InDirective
<1>6. Lex!TokenAt(text, From) = Lex!DirectiveAt(text, From)
  <2>1. From \in 1 .. Len(text) + 1 /\ From <= Len(text) /\ text \in Seq(Bytes)
        /\ text[From] = "%"
    BY <1>3, <1>4 DEF LexInv, Placed, InDirective
  <2> QED BY <2>1, TokenAtIs
<1> DEFINE j == Pos - 1
<1>7. /\ Lex!RunEnd(text, From + 1, Letters) = j /\ j + 1 = Pos
      /\ tok.str = SubSeq(text, From, j) /\ ~(j > From /\ Lex!Refused(text, Pos, Pos))
  BY <1>3, <1>4, <1>5
<1> HIDE DEF j
<1>8. Lex!DirectiveAt(text, From) = Lex!Tok(type, text, From, j, Pos)
  BY <1>7 DEF Lex!DirectiveAt
<1>9. Lex!TokenAt(text, From) = Lex!Tok(type, text, From, Pos - 1, Pos)
  BY <1>6, <1>8 DEF j
<1> HIDE DEF type
<1> QED BY <1>1, <1>2, <1>9, WordReturns

-----------------------------------------------------------------------------
(* A string or a block goes on with the current character.                 *)
LEMMA TextGoesOn ==
  ASSUME IInv, LexInv, pc \in {"string", "block"}, rest # <<>>, ConsumeChar,
         UNCHANGED <<text>>
  PROVE  /\ Placed' /\ Pos' = Pos + 1 /\ Pos \in 1 .. Len(text) /\ ch = text[Pos]
         /\ Char(rest') = IF Pos + 1 <= Len(text) THEN text[Pos + 1] ELSE EOF
         /\ rest' = <<>> <=> Pos + 1 = Len(text) + 1
         /\ From \in 1 .. Pos - 1 /\ From \in 1 .. Pos /\ Pos' - 1 = Pos
         /\ Pos \in Nat /\ From \in Nat \ {0} /\ text \in Seq(Bytes)
         /\ KeepChar => tok'.str = SubSeq(text, From + 1, Pos)
<1>1. /\ Placed' /\ Pos' = Pos + 1 /\ Pos \in 1 .. Len(text) /\ ch = text[Pos]
      /\ text[Pos] \in Bytes /\ text \in Seq(Bytes)
      /\ Char(rest') = IF Pos + 1 <= Len(text) THEN text[Pos + 1] ELSE EOF
      /\ rest' = <<>> <=> Pos + 1 = Len(text) + 1
  BY Reads DEF LexInv, Placed
<1>2. From \in 1 .. Pos - 1 /\ tok.str = SubSeq(text, From + 1, Pos - 1)
  BY DEF LexInv, Quoting
<1>3. Pos \in Nat /\ From \in Nat \ {0} /\ From \in 1 .. Pos
  BY <1>1, <1>2
<1>4. Pos' - 1 = Pos
  BY <1>1, <1>3
<1>5. ASSUME KeepChar PROVE tok'.str = SubSeq(text, From + 1, Pos)
  <2>1. tok'.str = Append(tok.str, ch)
    BY <1>1, <1>5, CharKept
  <2> DEFINE i == From + 1
  <2>2. i \in 1 .. Pos
    BY <1>2, <1>3
  <2> HIDE DEF i
  <2>3. Append(SubSeq(text, i, Pos - 1), text[Pos]) = SubSeq(text, i, Pos)
    BY <1>1, <2>2, PartGrows
  <2> QED BY <1>1, <1>2, <2>1, <2>3 DEF i
<1> QED BY <1>1, <1>2, <1>3, <1>4, <1>5

(* A string or a block ends at the current character.                      *)
LEMMA TextReturns ==
  ASSUME IInv, LexInv, pc \in {"string", "block"}, rest # <<>>, ConsumeChar, alive,
         NEW type \in TokenTypes, Return(type), UNCHANGED <<text, alive>>,
         Lex!TokenAt(text, From) = Lex!Tok(type, text, From + 1, Pos - 1, Pos + 1)
  PROVE  LexInv'
<1>1. /\ Placed' /\ Pos' = Pos + 1 /\ Pos \in 1 .. Len(text)
      /\ From \in 1 .. Pos - 1 /\ Pos \in Nat /\ From \in Nat \ {0}
      /\ text \in Seq(Bytes)
  BY TextGoesOn
<1>2. tok.str = SubSeq(text, From + 1, Pos - 1)
  BY DEF LexInv, Quoting
<1> DEFINE i == From + 1
           j == Pos - 1
           p == Pos + 1
<1>3. i \in Nat \ {0} /\ j \in i - 1 .. Len(text)
  BY <1>1
<1> HIDE DEF i, j, p
<1>4. Lex!Tok(type, text, i, j, p) =
        [tok |-> [type |-> type, str |-> CopyStr(SubSeq(text, i, j))], next |-> p]
  BY <1>1, <1>3, TokIs
<1>5. Lex!After(text, Here) =
        [tok |-> [type |-> type, str |-> CopyStr(tok.str)], next |-> Pos']
  BY <1>1, <1>2, <1>4, NextIs DEF LexInv, i, j, p
<1> QED BY <1>1, <1>5, Returns

(* get_string keeps a character, or refuses the byte.                      *)
LEMMA LexReadString ==
  ASSUME IInv, LexInv, ReadString
  PROVE  LexInv'
<1>1. /\ pc = "string" /\ alive /\ UNCHANGED <<text, pc, tokens>>
      /\ rest # <<>> /\ ch # Quote /\ KeepChar /\ ConsumeChar
      /\ alive' = (Char(rest') \notin High \cup {FF})
  BY DEF ReadString, Working, CheckEof
<1>2. /\ Placed' /\ Pos' = Pos + 1 /\ Pos \in 1 .. Len(text) /\ ch = text[Pos]
      /\ Char(rest') = IF Pos + 1 <= Len(text) THEN text[Pos + 1] ELSE EOF
      /\ rest' = <<>> <=> Pos + 1 = Len(text) + 1
      /\ From \in 1 .. Pos - 1 /\ From \in 1 .. Pos /\ Pos' - 1 = Pos
      /\ Pos \in Nat /\ From \in Nat \ {0} /\ text \in Seq(Bytes)
      /\ tok'.str = SubSeq(text, From + 1, Pos)
  BY <1>1, TextGoesOn
<1>3. Delivering' /\ From' = From
  BY <1>1, SameToken DEF LexInv
<1>4. InString
  BY <1>1 DEF LexInv, Quoting
<1>5. alive' \/ rest' = <<>> <=> ~Lex!Refused(text', From' + 2, Pos')
  <2> DEFINE p == Pos + 1
             c == Char(rest')
             i == From + 2
  <2>1. /\ p \in 1 .. Len(text) + 1 /\ i \in Nat \ {0} /\ i <= p /\ p - 1 = Pos
        /\ c = IF p <= Len(text) THEN text[p] ELSE EOF
        /\ rest' = <<>> <=> p = Len(text) + 1
    BY <1>2
  <2>2. ~Lex!Refused(text, i, Pos)
    BY <1>1, <1>4 DEF InString
  <2>3. alive' = (c \notin High \cup {FF}) /\ Len(text) \in Nat
    BY <1>1, <1>2
  <2> HIDE DEF p, c, i
  <2>4. /\ c \in High \cup {FF} => p <= Len(text)
        /\ Lex!Refused(text, i, p) <=> Lex!Refused(text, i, p - 1) \/ c \in High \cup {FF}
    BY <1>2, <2>1, RefusedIs
  <2>5. Lex!Refused(text, i, p) <=> c \in High \cup {FF}
    BY <2>1, <2>2, <2>4
  <2>6. rest' = <<>> => c \notin High \cup {FF}
    BY <2>1, <2>3, <2>4
  <2>7. alive' \/ rest' = <<>> <=> ~Lex!Refused(text, i, p)
    BY <2>3, <2>5, <2>6
  <2> QED BY <1>1, <1>2, <1>3, <2>7 DEF p, i
<1>6. \A k \in From' + 1 .. Pos' - 1 : text'[k] # Quote
  <2>1. \A k \in From + 1 .. Pos : k \in From + 1 .. Pos - 1 \/ k = Pos
    BY <1>2
  <2> QED BY <1>1, <1>2, <1>3, <1>4, <2>1 DEF InString
<1>7. text'[From'] = Quote
  BY <1>1, <1>3, <1>4 DEF InString
<1>8. InString'
  BY <1>5, <1>6, <1>7 DEF InString
<1>9. Quoting'
  BY <1>1, <1>2, <1>3, <1>8 DEF Quoting
<1>10. Skipping' /\ Wording' /\ StoppedWithin'
  BY <1>1 DEF Skipping, Wording, StoppedWithin
<1> QED BY <1>2, <1>3, <1>9, <1>10 DEF LexInv

(* get_string returns the string at the second quote.                      *)
LEMMA LexEndString ==
  ASSUME IInv, LexInv, EndString
  PROVE  LexInv'
<1>1. /\ pc = "string" /\ alive /\ UNCHANGED <<text, alive>>
      /\ ch = Quote /\ ConsumeChar /\ Return("STRG") /\ "STRG" \in TokenTypes
  BY DEF EndString, Working, TokenTypes
<1>2. rest # <<>>
  <2>1. Quote # EOF
    BY ScannerAssumption DEF Bytes
  <2> QED BY <1>1, <2>1, Standing DEF LexInv
<1>3. /\ Pos \in 1 .. Len(text) /\ ch = text[Pos] /\ From \in 1 .. Pos - 1
      /\ Pos \in Nat /\ From \in Nat \ {0} /\ text \in Seq(Bytes)
  BY <1>1, <1>2, TextGoesOn
<1>4. InString
  BY <1>1 DEF LexInv, Quoting
<1> DEFINE i == From + 1
<1>5. Lex!Find(text, i, Quote) = Pos /\ Pos # 0
  <2>1. i \in Nat \ {0} /\ Pos \in i .. Len(text) /\ text[Pos] = Quote
    BY <1>1, <1>3
  <2>2. \A k \in i .. Pos - 1 : text[k] # Quote
    BY <1>4 DEF InString
  <2>3. Pos # 0
    BY <1>3
  <2> HIDE DEF i
  <2> QED BY <1>3, <2>1, <2>2, <2>3, FindIs
<1>6. ~Lex!Refused(text, From + 2, Pos) /\ ~Lex!Refused(text, From + 2, 0)
  <2>1. ~Lex!Refused(text, From + 2, Pos)
    BY <1>1, <1>4 DEF InString
  <2>2. From + 2 .. 0 = {}
    BY <1>3
  <2>3. ~Lex!Refused(text, From + 2, 0)
    BY <2>2 DEF Lex!Refused
  <2> QED BY <2>1, <2>3
<1>7. Lex!StringAt(text, From) = Lex!Tok("STRG", text, From + 1, Pos - 1, Pos + 1)
  <2> DEFINE last == IF Pos = From + 1 THEN 0 ELSE Pos
  <2>1. ~Lex!Refused(text, From + 2, last)
    BY <1>6
  <2> HIDE DEF last
  <2>2. Lex!StringAt(text, From) =
          IF Lex!Refused(text, From + 2, last) THEN Lex!Stop(Lex!Fatal)
          ELSE IF Pos = 0 THEN Lex!Stop(Lex!Hang)
          ELSE Lex!Tok("STRG", text, From + 1, Pos - 1, Pos + 1)
    BY <1>5 DEF Lex!StringAt, last
  <2> QED BY <1>5, <2>1, <2>2
<1>8. Lex!TokenAt(text, From) = Lex!StringAt(text, From)
  <2>1. From \in 1 .. Len(text) + 1 /\ From <= Len(text) /\ text[From] = Quote
    BY <1>3, <1>4 DEF InString
  <2> QED BY <1>3, <2>1, TokenAtIs
<1> QED BY <1>1, <1>2, <1>7, <1>8, TextReturns

(* get_block keeps a character, or returns the block.                      *)
LEMMA LexBlock ==
  ASSUME IInv, LexInv, ReadBlock
  PROVE  LexInv'
<1>1. /\ pc = "block" /\ alive /\ UNCHANGED <<text, alive>>
      /\ rest # <<>> /\ ConsumeChar /\ count' = Depth(ch)
      /\ IF count' > 0 THEN KeepChar /\ UNCHANGED <<pc, tokens>> ELSE Return("BLOCK")
  BY DEF ReadBlock, Working
<1>2. /\ Placed' /\ Pos' = Pos + 1 /\ Pos \in 1 .. Len(text) /\ ch = text[Pos]
      /\ From \in 1 .. Pos - 1 /\ From \in 1 .. Pos /\ Pos' - 1 = Pos
      /\ Pos \in Nat /\ From \in Nat \ {0} /\ text \in Seq(Bytes)
      /\ KeepChar => tok'.str = SubSeq(text, From + 1, Pos)
  BY <1>1, TextGoesOn
<1>3. InBlock
  BY <1>1 DEF LexInv, Quoting
<1> DEFINE p == Pos - 1
           l == Lex!Braces(text, From, p, LBrace)
           r == Lex!Braces(text, From, p, RBrace)
           ll == Lex!Braces(text, From, Pos, LBrace)
           rr == Lex!Braces(text, From, Pos, RBrace)
<1>4. /\ l \in Nat /\ r \in Nat
      /\ ll = IF ch = LBrace THEN l + 1 ELSE l
      /\ rr = IF ch = RBrace THEN r + 1 ELSE r
  <2>1. p \in Nat /\ p + 1 >= From /\ p + 1 = Pos
    BY <1>2
  <2> HIDE DEF p
  <2>2. ASSUME NEW i, i = From, NEW c
        PROVE  /\ Lex!Braces(text, i, p, c) \in Nat
               /\ Lex!Braces(text, i, p + 1, c) = IF text[p + 1] = c
                                                  THEN Lex!Braces(text, i, p, c) + 1
                                                  ELSE Lex!Braces(text, i, p, c)
    <3>1. text \in Seq(Bytes) /\ i \in Nat \ {0} /\ p \in Nat /\ p + 1 >= i
      BY <1>2, <2>1, <2>2
    <3>2. Lex!Braces(text, i, p, c) \in Nat
      BY <3>1, BracesGrow
    <3>3. Lex!Braces(text, i, p + 1, c) = IF text[p + 1] = c
                                          THEN Lex!Braces(text, i, p, c) + 1
                                          ELSE Lex!Braces(text, i, p, c)
      BY <3>1, BracesGrow
    <3> QED BY <3>2, <3>3
  <2> QED BY <1>2, <2>1, <2>2
<1>5. count = l - r /\ count > 0
  BY <1>3 DEF InBlock
<1> HIDE DEF l, r, ll, rr
<1>6. count' = ll - rr /\ count' \in Nat /\ ll \in Nat /\ rr \in Nat
  BY <1>1, <1>4, <1>5, Marks DEF Depth
<1>7. /\ text[From] = LBrace
      /\ \A k \in From .. Pos - 1 :
           Lex!Braces(text, From, k, LBrace) # Lex!Braces(text, From, k, RBrace)
  BY <1>3 DEF InBlock
<1>8. CASE count' > 0
  <2>1. KeepChar /\ UNCHANGED <<pc, tokens>>
    BY <1>1, <1>8
  <2>2. Delivering' /\ From' = From
    BY <1>1, <2>1, SameToken DEF LexInv
  <2>3. ll # rr
    BY <1>6, <1>8
  <2>4. \A k \in From' .. Pos' - 1 :
          Lex!Braces(text', From', k, LBrace) # Lex!Braces(text', From', k, RBrace)
    <3>1. \A k \in From .. Pos : k \in From .. Pos - 1 \/ k = Pos
      BY <1>2
    <3>2. \A k \in From .. Pos :
            Lex!Braces(text, From, k, LBrace) # Lex!Braces(text, From, k, RBrace)
      BY <1>7, <2>3, <3>1 DEF ll, rr
    <3> QED BY <1>1, <1>2, <2>2, <3>2
  <2>5. count' = Lex!Braces(text', From', Pos' - 1, LBrace)
                   - Lex!Braces(text', From', Pos' - 1, RBrace)
    BY <1>1, <1>2, <1>6, <2>2 DEF ll, rr
  <2>6. InBlock'
    BY <1>1, <1>7, <1>8, <2>2, <2>4, <2>5 DEF InBlock
  <2>7. Quoting'
    BY <1>1, <1>2, <2>1, <2>2, <2>6 DEF Quoting
  <2>8. Skipping' /\ Wording' /\ StoppedWithin'
    BY <1>1, <2>1 DEF Skipping, Wording, StoppedWithin
  <2> QED BY <1>2, <2>2, <2>7, <2>8 DEF LexInv
<1>9. CASE ~(count' > 0)
  <2>1. Return("BLOCK") /\ "BLOCK" \in TokenTypes
    BY <1>1, <1>9 DEF TokenTypes
  <2>2. ll = rr
    BY <1>6, <1>9
  <2>3. Lex!Closing(text, From) = Pos /\ Pos # 0
    <3>1. Pos \in From .. Len(text) /\ Pos # 0
      BY <1>2
    <3>2. Lex!Braces(text, From, Pos, LBrace) = Lex!Braces(text, From, Pos, RBrace)
      BY <2>2 DEF ll, rr
    <3> QED BY <1>2, <1>7, <3>1, <3>2, ClosingIs
  <2>4. Lex!BlockAt(text, From) = Lex!Tok("BLOCK", text, From + 1, Pos - 1, Pos + 1)
    BY <2>3 DEF Lex!BlockAt
  <2>5. Lex!TokenAt(text, From) = Lex!BlockAt(text, From)
    <3>1. From \in 1 .. Len(text) + 1 /\ From <= Len(text)
      BY <1>2
    <3> QED BY <1>2, <1>7, <3>1, TokenAtIs
  <2> QED BY <1>1, <2>1, <2>4, <2>5, TextReturns
<1> QED BY <1>8, <1>9

(* The process is out of memory within a string or block.                  *)
LEMMA LexMemory ==
  ASSUME IInv, LexInv, OutOfMemory
  PROVE  LexInv'
<1>1. /\ pc \in {"string", "block"} /\ rest = <<>> /\ alive
      /\ UNCHANGED <<text, rest, tok, pc, count, tokens>>
  BY DEF OutOfMemory, Spinning
<1>2. Placed' /\ Pos' = Pos /\ Delivering' /\ Here' = Here /\ From' = From
  BY <1>1, Waits, SameToken DEF LexInv
<1>3. /\ pc = "string" => InString'
      /\ pc = "block" => InBlock'
  BY <1>1, <1>2 DEF LexInv, Quoting, InString, InBlock
<1>4. Quoting'
  BY <1>1, <1>2, <1>3 DEF LexInv, Quoting
<1>5. Skipping' /\ Wording' /\ StoppedWithin'
  BY <1>1 DEF Skipping, Wording, StoppedWithin
<1> QED BY <1>2, <1>4, <1>5 DEF LexInv

(* Every step of the scanner keeps to the reference.                       *)
LEMMA LexStep ==
  ASSUME IInv, LexInv, [Next]_vars
  PROVE  LexInv'
<1>1. CASE Call \/ SkipSpace \/ BeginComment \/ SkipComment
  BY <1>1, LexCall, LexSpace, LexBeginComment, LexSkipComment
<1>2. CASE EndOfInput \/ GetColon \/ BadChar
  BY <1>2, LexEnd, LexColon, LexBadChar
<1>3. CASE BeginString \/ BeginBlock \/ BeginWord
  BY <1>3, LexBeginString, LexBeginWord
<1>4. CASE ReadDirective \/ EndDirective \/ ReadNumber \/ ReadSymbol
  BY <1>4, LexReadDirective, LexEndDirective, LexNumber, LexSymbol
<1>5. CASE ReadString \/ EndString \/ ReadBlock \/ OutOfMemory
  BY <1>5, LexReadString, LexEndString, LexBlock, LexMemory
<1>6. CASE Spin \/ Rest \/ UNCHANGED vars
  BY <1>6, LexStutter DEF Spin, Rest
<1> QED BY <1>1, <1>2, <1>3, <1>4, <1>5, <1>6 DEF Next, ScanStep

(***************************************************************************)
(* At every step the scanner is where the reference says: the tokens are   *)
(* those it cuts off, and what has been read since is a beginning of the   *)
(* next one.                                                               *)
(***************************************************************************)
THEOREM LexerInvariant == Spec => []LexInv
<1>1. Init => LexInv
  BY InitLexInv
<1>2. IInv /\ LexInv /\ [Next]_vars => LexInv'
  BY LexStep
<1> QED BY <1>1, <1>2, ScannerInvariant, PTL DEF Spec

(* Every token is that of the reference.                                   *)
LEMMA TokensFollow ==
  ASSUME LexInv
  PROVE  TokensAreRight
<1> DEFINE n == Len(tokens)
           c == Lex!Cuts(text, n + 1)
<1>1. DOMAIN tokens = 1 .. n /\ n \in Nat
  BY DEF LexInv, Delivering
<1>2. Expected = [k \in 1 .. n + 1 |-> c[k].tok]
  BY DEF Expected, Lex!Lexemes
<1>3. ASSUME NEW k \in 1 .. n PROVE tokens[k] = Expected[k]
  <2>1. n + 1 \in Nat /\ n \in 0 .. n + 1 /\ k \in 0 .. n /\ k \in 1 .. n + 1
    BY <1>1
  <2>2. Lex!Cuts(text, n)[k] = c[k]
    BY <2>1, CutsAgree
  <2>3. tokens[k] = Lex!Cuts(text, n)[k].tok
    BY DEF LexInv, Delivering
  <2> HIDE DEF n, c
  <2> QED BY <1>2, <2>1, <2>2, <2>3 DEF n
<1> QED BY <1>1, <1>3 DEF TokensAreRight

(***************************************************************************)
(* For every text, the k-th token that consume_token returns is the k-th   *)
(* token of the text.                                                      *)
(***************************************************************************)
THEOREM ScannerReadsTheTokens == Spec => []TokensAreRight
<1>1. LexInv => TokensAreRight
  BY TokensFollow
<1> QED BY <1>1, LexerInvariant, PTL

(* The scanner has nothing left, and is within a comment or a text.        *)
LEMMA NothingLeft ==
  ASSUME LexInv, rest = <<>>, pc \in {"comment", "string", "block"}
  PROVE  NextLexeme = Lex!Hang
<1>1. text \in Seq(Bytes) /\ Pos = Len(text) + 1 /\ Len(text) \in Nat
  BY Standing DEF LexInv, Placed
<1>2. Lex!Stop(Lex!Hang).tok = Lex!Hang
  BY DEF Lex!Stop
<1>3. CASE pc = "comment"
  <2>1. PICK h \in 1 .. Pos - 1 : /\ From = Lex!Start(text, h) /\ text[h] = "#"
                                  /\ \A k \in h + 1 .. Pos - 1 : text[k] # NL
    BY <1>3 DEF LexInv, Skipping
  <2>2. Pos \in 1 .. Len(text) + 1
    BY <1>1
  <2>3. Lex!Start(text, h) = 0
    BY <1>1, <2>1, <2>2, StartInComment
  <2>4. From = 0
    BY <2>1, <2>3
  <2> QED BY <1>2, <2>4, NextIs DEF LexInv
<1>4. ASSUME pc \in {"string", "block"}
      PROVE  /\ From \in 1 .. Len(text) /\ From \in 1 .. Len(text) + 1 /\ From # 0
             /\ From \in Nat \ {0} /\ Pos - 1 = Len(text)
  <2>1. From \in 1 .. Pos - 1
    BY <1>4 DEF LexInv, Quoting
  <2> QED BY <1>1, <2>1
<1>5. CASE pc = "string"
  <2>1. InString
    BY <1>5 DEF LexInv, Quoting
  <2>2. \A k \in From + 1 .. Len(text) : text[k] # Quote
    BY <1>4, <1>5, <2>1 DEF InString
  <2>3. Lex!Find(text, From + 1, Quote) = 0
    <3> DEFINE i == From + 1
    <3>1. i \in Nat \ {0} /\ \A k \in i .. Len(text) : text[k] # Quote
      BY <1>4, <1>5, <2>2
    <3> HIDE DEF i
    <3>2. Lex!Find(text, i, Quote) = 0
      BY <1>1, <3>1, FindIs
    <3> QED BY <3>2 DEF i
  <2>4. ~Lex!Refused(text, From + 2, Len(text))
    <3>1. ~Lex!Refused(text, From + 2, Len(text) + 1)
      BY <1>1, <2>1 DEF InString
    <3>2. \A k \in From + 2 .. Len(text) : k \in From + 2 .. Len(text) + 1
      BY <1>1, <1>4, <1>5
    <3> QED BY <3>1, <3>2 DEF Lex!Refused
  <2>5. Lex!StringAt(text, From) = Lex!Stop(Lex!Hang)
    BY <2>3, <2>4 DEF Lex!StringAt
  <2>6. Lex!TokenAt(text, From) = Lex!StringAt(text, From)
    BY <1>1, <1>4, <1>5, <2>1, TokenAtIs DEF InString
  <2> QED BY <1>2, <1>4, <1>5, <2>5, <2>6, NextIs DEF LexInv
<1>6. CASE pc = "block"
  <2>1. InBlock
    BY <1>6 DEF LexInv, Quoting
  <2>2. \A k \in From .. Len(text) :
          Lex!Braces(text, From, k, LBrace) # Lex!Braces(text, From, k, RBrace)
    BY <1>4, <1>6, <2>1 DEF InBlock
  <2>3. Lex!Closing(text, From) = 0
    BY <1>1, <1>4, <1>6, <2>2, ClosingIs
  <2>4. Lex!BlockAt(text, From) = Lex!Stop(Lex!Hang)
    BY <2>3 DEF Lex!BlockAt
  <2>5. Lex!TokenAt(text, From) = Lex!BlockAt(text, From)
    BY <1>1, <1>4, <1>6, <2>1, TokenAtIs DEF InBlock
  <2> QED BY <1>2, <1>4, <1>6, <2>4, <2>5, NextIs DEF LexInv
<1> QED BY <1>3, <1>5, <1>6

(* The process has exited at a byte that check_eof refuses.                *)
LEMMA ByteRefused ==
  ASSUME LexInv, ~alive, rest # <<>>
  PROVE  NextLexeme = Lex!Fatal
<1>1. text \in Seq(Bytes) /\ Pos \in 1 .. Len(text) /\ ch = text[Pos] /\ Len(text) \in Nat
  BY Standing DEF LexInv, Placed
<1>2. Lex!Stop(Lex!Fatal).tok = Lex!Fatal
  BY DEF Lex!Stop
<1>3. pc \in {"directive", "string"}
  BY DEF LexInv, StoppedWithin, Quoting, InBlock
<1>4. From \in 1 .. Pos - 1
  BY <1>3 DEF LexInv, Wording, Quoting
<1>5. From \in 1 .. Len(text) + 1 /\ From <= Len(text) /\ From # 0 /\ From \in Nat \ {0}
  BY <1>1, <1>4
<1>6. CASE pc = "directive"
  <2>1. InDirective
    BY <1>6 DEF LexInv, Wording
  <2>2. Pos - 1 > From /\ Lex!Refused(text, Pos, Pos)
    BY <2>1 DEF InDirective
  <2>3. ch \notin Letters
    <3>1. \A k \in Pos .. Pos : k = Pos
      BY <1>1
    <3>2. text[Pos] \in High \cup {FF}
      BY <2>2, <3>1 DEF Lex!Refused
    <3> QED BY <1>1, <3>2, ScannerAssumption
  <2>4. Lex!RunEnd(text, From + 1, Letters) = Pos - 1 /\ (Pos - 1) + 1 = Pos
    <3>1. \A k \in From + 1 .. Pos - 1 : text[k] \in Letters
      BY <2>1 DEF InDirective
    <3> QED BY <1>4, <2>3, <3>1, RunEnds
  <2> DEFINE j == Pos - 1
  <2>5. Lex!RunEnd(text, From + 1, Letters) = j /\ j + 1 = Pos /\ j > From
    BY <2>2, <2>4
  <2> HIDE DEF j
  <2>6. Lex!DirectiveAt(text, From) = Lex!Stop(Lex!Fatal)
    BY <2>2, <2>5 DEF Lex!DirectiveAt
  <2>7. Lex!TokenAt(text, From) = Lex!DirectiveAt(text, From)
    BY <1>1, <1>5, <2>1, TokenAtIs DEF InDirective
  <2> QED BY <1>2, <1>5, <2>6, <2>7, NextIs DEF LexInv
<1>7. CASE pc = "string"
  <2>1. InString
    BY <1>7 DEF LexInv, Quoting
  <2>2. Lex!Refused(text, From + 2, Pos)
    BY <2>1 DEF InString
  <2> DEFINE quote == Lex!Find(text, From + 1, Quote)
             last == IF quote = 0 THEN Len(text)
                     ELSE IF quote = From + 1 THEN 0 ELSE quote
  <2>3. PICK k \in From + 2 .. Pos : text[k] \in High \cup {FF}
    BY <2>2 DEF Lex!Refused
  <2>4. quote = 0 \/ (quote \in Nat /\ quote >= Pos)
    <3> DEFINE i == From + 1
               T == {m \in i .. Len(text) : text[m] = Quote}
    <3>1. i \in Nat \ {0} /\ T \subseteq Nat
      BY <1>5
    <3>2. CASE T = {}
      <4>1. \A m \in i .. Len(text) : text[m] # Quote
        BY <3>2
      <4> HIDE DEF i
      <4>2. Lex!Find(text, i, Quote) = 0
        BY <1>1, <3>1, <4>1, FindIs
      <4> QED BY <4>2 DEF i
    <3>3. CASE T # {}
      <4>1. PICK m \in T : \A y \in T : m <= y
        BY <3>1, <3>3, LeastNumber
      <4>2. m \in i .. Len(text) /\ text[m] = Quote /\ \A y \in i .. m - 1 : text[y] # Quote
        BY <4>1
      <4>3. m \in Nat /\ m >= Pos
        <5>1. \A y \in From + 1 .. Pos - 1 : text[y] # Quote
          BY <2>1 DEF InString
        <5> QED BY <1>1, <1>5, <4>2, <5>1
      <4> HIDE DEF i, T
      <4>4. Lex!Find(text, i, Quote) = m
        BY <1>1, <3>1, <4>2, FindIs
      <4> QED BY <4>3, <4>4 DEF i
    <3> QED BY <3>2, <3>3
  <2>5. Lex!Refused(text, From + 2, last)
    <3>1. last = Len(text) \/ (last = quote /\ quote >= Pos)
      BY <1>1, <1>4, <1>5, <2>3, <2>4
    <3>2. k <= Len(text) /\ k \in Int /\ k <= Pos
      BY <1>1, <2>3
    <3> HIDE DEF quote, last
    <3>3. last \in Int => k \in From + 2 .. last
      BY <1>1, <1>5, <2>3, <3>1, <3>2
    <3>4. last \in Int
      BY <1>1, <1>5, <2>4, <3>1
    <3> QED BY <2>3, <3>2, <3>3, <3>4 DEF Lex!Refused
  <2>6. Lex!StringAt(text, From) = Lex!Stop(Lex!Fatal)
    BY <2>5 DEF Lex!StringAt
  <2>7. Lex!TokenAt(text, From) = Lex!StringAt(text, From)
    BY <1>1, <1>5, <2>1, TokenAtIs DEF InString
  <2> QED BY <1>2, <1>5, <2>6, <2>7, NextIs DEF LexInv
<1> QED BY <1>3, <1>6, <1>7

(***************************************************************************)
(* For every text, consume_token exits only where the text ends within a   *)
(* string or block, or at a byte above 0x7F in a string or directive; and  *)
(* the loops that the end of the text does not stop are run only where it  *)
(* ends within a comment, string or block.                                 *)
(***************************************************************************)
THEOREM ScannerStopsWhereItMust == Spec => []StopsOnlyWhereItMust
<1>1. LexInv => StopsOnlyWhereItMust
  <2>1. ASSUME LexInv, ~alive, rest = <<>> PROVE NextLexeme = Lex!Hang
    <3>1. pc \in {"string", "block"}
      <4>1. pc = "directive" => FALSE
        <5>1. ASSUME pc = "directive" PROVE Pos <= Len(text)
          <6>1. Lex!Refused(text, Pos, Pos)
            BY <2>1, <5>1 DEF LexInv, Wording, InDirective
          <6> QED BY <2>1, <6>1 DEF Lex!Refused, LexInv, Placed
        <5>2. Pos = Len(text) + 1 /\ Len(text) \in Nat
          BY <2>1, Standing DEF LexInv, Placed
        <5> QED BY <5>1, <5>2
      <4> QED BY <2>1, <4>1 DEF LexInv, StoppedWithin
    <3> QED BY <2>1, <3>1, NothingLeft
  <2> QED BY <2>1, NothingLeft, ByteRefused DEF StopsOnlyWhereItMust
<1> QED BY <1>1, LexerInvariant, PTL-----------------------------------------------------------------------------
(***************************************************************************)
(* How a step of the scanner moves, for who watches the file: it consumes  *)
(* the current character or none, at least one in each token but the two   *)
(* that come again for ever, it returns one token or none, and it exits in *)
(* front of a byte that is refused.                                        *)
(***************************************************************************)
Outside == pc \in {"idle", "start", "comment"}

Moved ==
  /\ UNCHANGED text /\ pc # "idle" /\ alive
  /\ (rest' = rest /\ Pos' = Pos) \/ (rest # <<>> /\ rest' = Drop(rest) /\ Pos' = Pos + 1)
  /\ IF pc' = "idle" THEN alive' /\ \E t \in Cell : tokens' = Append(tokens, t)
                     ELSE UNCHANGED tokens
  /\ Outside /\ ~Outside' => Pos' = Pos + 1
  /\ ~Outside /\ Outside' => pc' = "idle"
  /\ Outside /\ pc' = "idle" => Pos' = Pos + 1 \/ Delivered' \in Source!Sticky
  /\ ~alive' => Pos' <= Len(text) /\ text[Pos'] \in High \cup {FF}
  /\ Delivered \in Source!Sticky => rest' = rest /\ pc' = "idle"

(* At most one character is consumed.                                      *)
LEMMA OneCharacter ==
  ASSUME LexInv, UNCHANGED text, ConsumeChar \/ UNCHANGED rest
  PROVE  /\ \/ rest' = rest /\ Pos' = Pos
            \/ rest # <<>> /\ rest' = Drop(rest) /\ Pos' = Pos + 1
         /\ rest # <<>> /\ ConsumeChar => Pos' = Pos + 1
<1>1. Placed
  BY DEF LexInv
<1>2. CASE UNCHANGED rest /\ ~ConsumeChar
  BY <1>1, <1>2, Waits
<1>3. CASE ConsumeChar /\ rest # <<>>
  BY <1>1, <1>3, Reads DEF ConsumeChar
<1>4. CASE ConsumeChar /\ rest = <<>>
  <2>1. rest' = rest
    BY <1>4 DEF ConsumeChar, Drop
  <2> QED BY <1>1, <1>4, <2>1, Waits
<1> QED BY <1>2, <1>3, <1>4

(* A token is added to those returned.                                     *)
LEMMA OneToken ==
  ASSUME IInv, NEW type \in TokenTypes, Return(type)
  PROVE  pc' = "idle" /\ \E t \in Cell : tokens' = Append(tokens, t)
<1>1. CopyStr(tok.str) \in Seq(AnyChar)
  BY ReturnGives DEF IInv
<1>2. CopyStr(tok.str) \in Seq(Bytes)
  BY <1>1 DEF AnyChar
<1> QED BY <1>2 DEF Return, Cell

(* Between tokens.                                                         *)
LEMMA MovesOutside ==
  ASSUME IInv, LexInv,
         SkipSpace \/ BeginComment \/ SkipComment \/ BeginString \/ BeginBlock \/ BeginWord
  PROVE  Moved
<1>1. /\ UNCHANGED <<text, tokens, alive>> /\ pc \in {"start", "comment"} /\ alive
      /\ ConsumeChar \/ UNCHANGED rest
      /\ pc' \in {"start", "comment", "string", "block", "directive", "number", "symbol"}
  BY DEF SkipSpace, BeginComment, SkipComment, BeginString, BeginBlock, BeginWord, Working
<1>2. pc' \notin {"start", "comment"} => ConsumeChar /\ rest # <<>>
  <2>1. pc' \notin {"start", "comment"} =>
          ConsumeChar /\ ch \in Letters \cup Digits \cup {"%", Quote, LBrace}
    BY DEF SkipSpace, BeginComment, SkipComment, BeginString, BeginBlock, BeginWord, Working
  <2>2. ch \in Letters \cup Digits \cup {"%", Quote, LBrace} => rest # <<>>
    BY Standing DEF LexInv
  <2> QED BY <2>1, <2>2
<1>3. Delivered \notin Source!Sticky
  <2>1. pc = "comment" \/ ch \in Starters
    BY DEF SkipSpace, BeginComment, SkipComment, BeginString, BeginBlock, BeginWord,
           Working, Starters
  <2> QED BY <2>1, NotStuck
<1> QED BY <1>1, <1>2, <1>3, OneCharacter DEF Moved, Outside

(* The tokens without a text.                                              *)
LEMMA MovesAtOnce ==
  ASSUME IInv, LexInv, EndOfInput \/ GetColon \/ BadChar
  PROVE  Moved
<1>1. /\ UNCHANGED <<text, alive>> /\ pc = "start" /\ alive
      /\ ConsumeChar \/ UNCHANGED rest
  BY DEF EndOfInput, GetColon, BadChar, Working, LeaveChar
<1>2. pc' = "idle" /\ \E t \in Cell : tokens' = Append(tokens, t)
  BY OneToken DEF EndOfInput, GetColon, BadChar, TokenTypes
<1>3. CASE EndOfInput \/ BadChar
  <2>1. Delivered' \in Source!Sticky /\ UNCHANGED rest
    BY <1>3, EndStep, BadCharStep DEF EndOfInput, BadChar, LeaveChar
  <2> QED BY <1>1, <1>2, <2>1, OneCharacter DEF Moved, Outside
<1>4. CASE GetColon
  <2>1. ConsumeChar /\ ch = ":"
    BY <1>4 DEF GetColon
  <2>2. rest # <<>>
    BY <2>1, Standing DEF LexInv
  <2>3. Delivered \notin Source!Sticky
    BY <2>1, NotStuck DEF Starters
  <2> QED BY <1>1, <1>2, <2>1, <2>2, <2>3, OneCharacter DEF Moved, Outside
<1> QED BY <1>3, <1>4

(* Within a token.                                                         *)
LEMMA MovesWithin ==
  ASSUME IInv, LexInv,
         ReadDirective \/ EndDirective \/ ReadString \/ EndString \/ ReadNumber
           \/ ReadSymbol \/ ReadBlock \/ Spin
  PROVE  Moved
<1>1. /\ UNCHANGED text /\ alive
      /\ pc \in {"directive", "string", "number", "symbol", "block"}
      /\ ConsumeChar \/ UNCHANGED rest
      /\ pc' = "idle" \/ (pc' = pc /\ UNCHANGED tokens)
      /\ pc' = "idle" => UNCHANGED alive
  BY DEF ReadDirective, EndDirective, ReadString, EndString, ReadNumber, ReadSymbol,
         ReadBlock, Spin, Spinning, Working, Return, vars
<1>2. pc' = "idle" => \E t \in Cell : tokens' = Append(tokens, t)
  <2>1. pc' = "idle" => \E type \in TokenTypes : Return(type)
    <3>1. \A w \in DOMAIN Keyword : Keyword[w] \in TokenTypes
      BY ScannerAssumption DEF TokenTypes
    <3> QED BY <1>1, <3>1
            DEF ReadDirective, EndDirective, ReadString, EndString, ReadNumber,
                ReadSymbol, ReadBlock, Spin, vars, TokenTypes
  <2> QED BY <2>1, OneToken
<1>3. ASSUME ~alive' PROVE Pos' <= Len(text) /\ text[Pos'] \in High \cup {FF}
  <2>1. ReadDirective \/ ReadString
    BY <1>1, <1>3 DEF EndDirective, EndString, ReadNumber, ReadSymbol, ReadBlock, Spin, vars
  <2>2. Char(rest') \in High \cup {FF} /\ ConsumeChar /\ rest # <<>>
    <3>1. ReadDirective => ch \in Letters
      BY DEF ReadDirective
    <3>2. ReadDirective => rest # <<>>
      BY <3>1, CurrentChar DEF IInv, TypeOK
    <3> QED BY <1>1, <1>3, <2>1, <3>2 DEF ReadDirective, ReadString, CheckEof
  <2>3. /\ Pos' = Pos + 1 /\ Pos \in 1 .. Len(text) /\ text \in Seq(Bytes)
        /\ Char(rest') = IF Pos + 1 <= Len(text) THEN text[Pos + 1] ELSE EOF
    BY <1>1, <2>2, Reads DEF LexInv, Placed
  <2>4. EOF \notin High \cup {FF}
    BY Standing DEF LexInv
  <2> QED BY <2>2, <2>3, <2>4
<1>4. Delivered \notin Source!Sticky
  BY <1>1, NotStuck
<1> QED BY <1>1, <1>2, <1>3, <1>4, OneCharacter DEF Moved, Outside

(* Every step.                                                             *)
LEMMA ScannerMoves ==
  ASSUME IInv, LexInv, ScanStep
  PROVE  Moved
BY MovesOutside, MovesAtOnce, MovesWithin DEF ScanStep
=============================================================================
