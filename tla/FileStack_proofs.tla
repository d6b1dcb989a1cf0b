-------------------------- MODULE FileStack_proofs --------------------------
(***************************************************************************)
(* For every number of files of any length that have text: a file is on    *)
(* the stack only while it has a current character, and the stack is one   *)
(* stream of characters.  If no text begins with a newline the counters of *)
(* a file are the place of its current character.                          *)
(***************************************************************************)
EXTENDS FileStackProps, FiniteSetTheorems, SequenceTheorems,
        WellFoundedInduction, TLAPS

(* The texts are of these characters, and none is empty.                   *)
HaveText(Chars) ==
  /\ EOF \notin Chars
  /\ Texts \subseteq {t \in Seq(Chars) : t # <<>>}

NoLeadingNewline == \A t \in Texts : t[1] # NL

File(Chars) == [text : Seq(Chars), pos : Nat, line : Nat, col : Nat]

PlaceIsRight(f) ==
  /\ f.line = 1 + Cardinality(Newlines(f, f.pos))
  /\ IF Newlines(f, f.pos) = {} THEN f.col = f.pos
     ELSE \E n \in Newlines(f, f.pos) :
            Newlines(f, f.pos) \subseteq 1 .. n /\ f.col = f.pos - n + 1

OpenFiles(Chars) == {f \in File(Chars) : f.pos \in 1 .. Len(f.text)}
GoodFiles(Chars) == {f \in OpenFiles(Chars) : PlaceIsRight(f)}

OpenInv(Chars) == stack \in Seq(OpenFiles(Chars))
IInv(Chars) == stack \in Seq(GoodFiles(Chars))

-----------------------------------------------------------------------------
(* A file that was just opened stands at the first place.                  *)
LEMMA NewFileGood ==
  ASSUME NEW Chars, HaveText(Chars), NEW text \in Texts
  PROVE  /\ NewFile(text) \in OpenFiles(Chars)
         /\ NoLeadingNewline => NewFile(text) \in GoodFiles(Chars)
<1> DEFINE f == NewFile(text)
<1>1. /\ text \in Seq(Chars) /\ text # <<>>
      /\ Len(text) \in Nat /\ 1 \in 1 .. Len(text)
  BY DEF HaveText
<1>2. /\ f = [text |-> text, pos |-> 1, line |-> 1, col |-> 1]
      /\ f \in File(Chars)
  BY <1>1 DEF NewFile, File
<1>3. f.text = text /\ f.pos = 1 /\ f.line = 1 /\ f.col = 1
  BY <1>2
<1> HIDE DEF f
<1>4. f \in OpenFiles(Chars)
  BY <1>1, <1>2, <1>3 DEF OpenFiles
<1>5. ASSUME NoLeadingNewline PROVE PlaceIsRight(f)
  <2>1. Newlines(f, f.pos) = {}
    BY <1>1, <1>3, <1>5 DEF Newlines, NoLeadingNewline
  <2>2. Cardinality(Newlines(f, f.pos)) = 0
    BY <2>1, FS_EmptySet
  <2> QED BY <1>3, <2>1, <2>2 DEF PlaceIsRight
<1> QED BY <1>4, <1>5 DEF GoodFiles, f

(* The newlines up to the next character.                                  *)
LEMMA NextNewlines ==
  ASSUME NEW Chars, NEW f \in GoodFiles(Chars)
  PROVE  /\ Newlines(f, f.pos + 1) =
              IF f.text[f.pos + 1] = NL THEN Newlines(f, f.pos) \cup {f.pos + 1}
                                        ELSE Newlines(f, f.pos)
         /\ f.pos + 1 \notin Newlines(f, f.pos)
         /\ IsFiniteSet(Newlines(f, f.pos))
         /\ Cardinality(Newlines(f, f.pos)) \in Nat
<1>1. f.pos \in Nat /\ 1 <= f.pos
  BY DEF GoodFiles, OpenFiles, File
<1>2. /\ 1 .. f.pos + 1 = (1 .. f.pos) \cup {f.pos + 1}
      /\ f.pos + 1 \notin 1 .. f.pos
  BY <1>1
<1>3. IsFiniteSet(1 .. f.pos)
  BY <1>1, FS_Interval
<1>4. Newlines(f, f.pos) \subseteq 1 .. f.pos
  BY DEF Newlines
<1>5. IsFiniteSet(Newlines(f, f.pos))
  BY <1>3, <1>4, FS_Subset
<1>6. Cardinality(Newlines(f, f.pos)) \in Nat
  BY <1>5, FS_CardinalityType
<1>7. Newlines(f, f.pos + 1) =
        IF f.text[f.pos + 1] = NL THEN Newlines(f, f.pos) \cup {f.pos + 1}
                                  ELSE Newlines(f, f.pos)
  BY <1>2 DEF Newlines
<1> QED BY <1>2, <1>4, <1>5, <1>6, <1>7

(* What consume_char makes of a file that does not end.                    *)
LEMMA CountedGood ==
  ASSUME NEW Chars, NEW f \in GoodFiles(Chars), Ch(Advance(f)) # EOF
  PROVE  Counted(f) \in GoodFiles(Chars)
<1> DEFINE p == f.pos + 1
           g == Counted(f)
           N == Newlines(f, f.pos)
<1>1. /\ f \in File(Chars) /\ f.text \in Seq(Chars) /\ f.pos \in Nat
      /\ f.line \in Nat /\ f.col \in Nat /\ Len(f.text) \in Nat
      /\ 1 <= f.pos /\ f.pos <= Len(f.text) /\ PlaceIsRight(f)
  BY DEF GoodFiles, OpenFiles, File
<1>2. Advance(f) = [f EXCEPT !.pos = p]
  BY <1>1 DEF Advance
<1>3. /\ Advance(f).text = f.text /\ Advance(f).pos = p
      /\ Advance(f) \in File(Chars)
      /\ Advance(f).line = f.line /\ Advance(f).col = f.col
  BY <1>1, <1>2 DEF File
<1>4. p <= Len(f.text) /\ Ch(Advance(f)) = f.text[p]
  BY <1>3 DEF Ch
<1>5. p \in Nat /\ p \in 1 .. Len(f.text)
  BY <1>1, <1>4
<1>6. /\ Newlines(f, p) = IF f.text[p] = NL THEN N \cup {p} ELSE N
      /\ p \notin N /\ IsFiniteSet(N) /\ Cardinality(N) \in Nat
  BY NextNewlines
<1>7. CASE f.text[p] = NL
  <2>1. g = [Advance(f) EXCEPT !.line = f.line + 1, !.col = 1]
    BY <1>3, <1>4, <1>7 DEF Counted
  <2>2. /\ g \in File(Chars) /\ g.text = f.text /\ g.pos = p
        /\ g.line = f.line + 1 /\ g.col = 1
    <3> DEFINE a == Advance(f)
    <3>1. a \in File(Chars) /\ a.text = f.text /\ a.pos = p
      BY <1>3
    <3>2. g = [a EXCEPT !.line = f.line + 1, !.col = 1]
      BY <2>1
    <3> HIDE DEF a, g, p
    <3>3. g = [text |-> a.text, pos |-> a.pos, line |-> f.line + 1, col |-> 1]
      BY <3>1, <3>2 DEF File
    <3> QED BY <1>1, <1>5, <3>1, <3>3 DEF File
  <2> HIDE DEF g
  <2>3. Newlines(g, p) = N \cup {p}
    BY <1>6, <1>7, <2>2 DEF Newlines
  <2>4. Cardinality(Newlines(g, p)) = Cardinality(N) + 1
    BY <1>6, <2>3, FS_AddElement
  <2>5. g.line = 1 + Cardinality(Newlines(g, p))
    BY <1>1, <1>6, <2>2, <2>4 DEF PlaceIsRight
  <2>6. p \in Newlines(g, p) /\ Newlines(g, p) # {} /\ g.col = p - p + 1
    BY <1>5, <2>2, <2>3
  <2>7. Newlines(g, p) \subseteq 1 .. p
    BY DEF Newlines
  <2>8. PlaceIsRight(g)
    BY <2>2, <2>5, <2>6, <2>7 DEF PlaceIsRight
  <2>9. g \in GoodFiles(Chars)
    BY <1>5, <2>2, <2>8 DEF GoodFiles, OpenFiles
  <2> QED BY <2>9 DEF g
<1>8. CASE f.text[p] # NL
  <2>1. g = [Advance(f) EXCEPT !.col = f.col + 1]
    BY <1>3, <1>4, <1>8 DEF Counted
  <2>2. /\ g \in File(Chars) /\ g.text = f.text /\ g.pos = p
        /\ g.line = f.line /\ g.col = f.col + 1
    BY <1>1, <1>3, <2>1 DEF File
  <2> HIDE DEF g
  <2>3. Newlines(g, p) = N
    BY <1>6, <1>8, <2>2 DEF Newlines
  <2>4. g.line = 1 + Cardinality(Newlines(g, p))
    BY <1>1, <2>2, <2>3 DEF PlaceIsRight
  <2>5. CASE N = {}
    <3>1. g.col = p
      BY <1>1, <2>2, <2>5 DEF PlaceIsRight
    <3> QED BY <1>5, <2>2, <2>3, <2>4, <2>5, <3>1 DEF GoodFiles, OpenFiles, PlaceIsRight, g
  <2>6. CASE N # {}
    <3>1. PICK n \in N : N \subseteq 1 .. n /\ f.col = f.pos - n + 1
      BY <1>1, <2>6 DEF PlaceIsRight
    <3>2. n \in Nat
      BY DEF Newlines
    <3>3. g.col = p - n + 1
      BY <1>1, <2>2, <3>1, <3>2
    <3>4. PlaceIsRight(g)
      BY <2>2, <2>3, <2>4, <2>6, <3>1, <3>3 DEF PlaceIsRight
    <3>5. g \in GoodFiles(Chars)
      BY <1>5, <2>2, <3>4 DEF GoodFiles, OpenFiles
    <3> QED BY <3>5 DEF g
  <2> QED BY <2>5, <2>6
<1> QED BY <1>7, <1>8

(* The same without its counters.                                          *)
LEMMA CountedOpen ==
  ASSUME NEW Chars, NEW f \in OpenFiles(Chars)
  PROVE  /\ Ch(Advance(f)) # EOF =>
              /\ Counted(f) \in OpenFiles(Chars)
              /\ Counted(f).text = f.text /\ Counted(f).pos = f.pos + 1
              /\ f.pos + 1 <= Len(f.text)
         /\ EOF \notin Chars /\ Ch(Advance(f)) = EOF => f.pos = Len(f.text)
<1> DEFINE p == f.pos + 1
           a == Advance(f)
           g == Counted(f)
<1>1. /\ f.text \in Seq(Chars) /\ f.pos \in Nat /\ f.line \in Nat
      /\ f.col \in Nat /\ Len(f.text) \in Nat /\ f.pos <= Len(f.text)
      /\ f.pos >= 1 /\ f \in File(Chars)
  BY DEF OpenFiles, File
<1>2. /\ a \in File(Chars) /\ a.text = f.text /\ a.pos = p
      /\ a.line = f.line /\ a.col = f.col
  BY <1>1 DEF Advance, File
<1>3. ASSUME EOF \notin Chars, Ch(a) = EOF PROVE f.pos = Len(f.text)
  BY <1>1, <1>2, <1>3 DEF Ch
<1>4. ASSUME Ch(a) # EOF PROVE p <= Len(f.text)
  BY <1>2, <1>4 DEF Ch
<1>5. g = [a EXCEPT !.line = f.line + 1, !.col = 1] \/ g = [a EXCEPT !.col = f.col + 1]
  BY <1>2 DEF Counted
<1> HIDE DEF a, g
<1>6. g \in File(Chars) /\ g.text = f.text /\ g.pos = p
  <2>1. a = [text |-> f.text, pos |-> p, line |-> f.line, col |-> f.col]
    BY <1>2 DEF File
  <2>2. CASE g = [a EXCEPT !.line = f.line + 1, !.col = 1]
    <3>1. g = [text |-> f.text, pos |-> p, line |-> f.line + 1, col |-> 1]
      BY <2>1, <2>2
    <3> QED BY <1>1, <3>1 DEF File
  <2>3. CASE g = [a EXCEPT !.col = f.col + 1]
    <3>1. g = [text |-> f.text, pos |-> p, line |-> f.line, col |-> f.col + 1]
      BY <2>1, <2>3
    <3> QED BY <1>1, <3>1 DEF File
  <2> QED BY <1>5, <2>2, <2>3
<1>7. ASSUME Ch(a) # EOF PROVE g \in OpenFiles(Chars)
  BY <1>1, <1>4, <1>6, <1>7 DEF OpenFiles
<1> QED BY <1>3, <1>4, <1>6, <1>7 DEF a, g

-----------------------------------------------------------------------------
(* Every call of the file stack leaves only files of G on it, if opening   *)
(* and counting do.                                                        *)
LEMMA StepKeeps ==
  ASSUME NEW G, stack \in Seq(G), [Next]_vars,
         \A text \in Texts : NewFile(text) \in G,
         \A f \in G : Ch(Advance(f)) # EOF => Counted(f) \in G
  PROVE  stack' \in Seq(G)
<1>1. CASE OpenInputFile
  <2>1. PICK text \in Texts : stack' = <<NewFile(text)>> \o stack
    BY <1>1 DEF OpenInputFile
  <2> QED BY <2>1
<1>2. CASE ConsumeChar
  <2>1. stack' = Consume(stack)
    BY <1>2 DEF ConsumeChar
  <2>2. CASE stack = <<>>
    BY <2>1, <2>2 DEF Consume
  <2>3. CASE stack # <<>>
    <3>1. stack[1] \in G /\ Tail(stack) \in Seq(G)
      BY <2>3
    <3>2. CASE Ch(Advance(stack[1])) = EOF
      BY <2>1, <2>3, <3>1, <3>2 DEF Consume
    <3>3. CASE Ch(Advance(stack[1])) # EOF
      <4>1. stack' = <<Counted(stack[1])>> \o Tail(stack)
        BY <2>1, <2>3, <3>3 DEF Consume
      <4>2. Counted(stack[1]) \in G
        BY <3>1, <3>3
      <4> QED BY <3>1, <4>1, <4>2
    <3> QED BY <3>2, <3>3
  <2> QED BY <2>2, <2>3
<1>3. CASE OpenFails \/ Get \/ Exited \/ UNCHANGED vars
  BY <1>3 DEF OpenFails, Get, Exited, vars
<1> QED BY <1>1, <1>2, <1>3 DEF Next

(* Every call leaves only open files on the stack, and only good ones.     *)
LEMMA StepGood ==
  ASSUME NEW Chars, HaveText(Chars), [Next]_vars
  PROVE  /\ OpenInv(Chars) => OpenInv(Chars)'
         /\ NoLeadingNewline /\ IInv(Chars) => IInv(Chars)'
<1>1. ASSUME OpenInv(Chars) PROVE OpenInv(Chars)'
  <2> DEFINE G == OpenFiles(Chars)
  <2>1. \A text \in Texts : NewFile(text) \in G
    BY NewFileGood
  <2>2. \A f \in G : Ch(Advance(f)) # EOF => Counted(f) \in G
    BY CountedOpen
  <2>3. stack \in Seq(G)
    BY <1>1 DEF OpenInv
  <2> HIDE DEF G
  <2>4. stack' \in Seq(G)
    BY <2>1, <2>2, <2>3, StepKeeps
  <2> QED BY <2>4 DEF OpenInv, G
<1>2. ASSUME NoLeadingNewline, IInv(Chars) PROVE IInv(Chars)'
  <2> DEFINE G == GoodFiles(Chars)
  <2>1. \A text \in Texts : NewFile(text) \in G
    BY <1>2, NewFileGood
  <2>2. \A f \in G : Ch(Advance(f)) # EOF => Counted(f) \in G
    BY CountedGood
  <2>3. stack \in Seq(G)
    BY <1>2 DEF IInv
  <2> HIDE DEF G
  <2>4. stack' \in Seq(G)
    BY <2>1, <2>2, <2>3, StepKeeps
  <2> QED BY <2>4 DEF IInv, G
<1> QED BY <1>1, <1>2

(* The files on the stack are open in every state, and good.               *)
THEOREM FilesStayGood ==
  ASSUME NEW Chars, HaveText(Chars)
  PROVE  /\ Spec => []OpenInv(Chars)
         /\ NoLeadingNewline => (Spec => []IInv(Chars))
<1>1. Init => OpenInv(Chars) /\ IInv(Chars)
  BY DEF Init, OpenInv, IInv
<1>2. OpenInv(Chars) /\ [Next]_vars => OpenInv(Chars)'
  BY StepGood
<1>3. Spec => []OpenInv(Chars)
  BY <1>1, <1>2, PTL DEF Spec
<1>4. ASSUME NoLeadingNewline PROVE Spec => []IInv(Chars)
  <2>1. IInv(Chars) /\ [Next]_vars => IInv(Chars)'
    BY <1>4, StepGood
  <2> QED BY <1>1, <2>1, PTL DEF Spec
<1> QED BY <1>3, <1>4

(***************************************************************************)
(* No file that has been read to its end stays on the stack (fileio.c      *)
(* 81-101), so that get_char returns EOF only when all files are closed.   *)
(***************************************************************************)
THEOREM FinishedFilesAreClosed ==
  ASSUME NEW Chars, HaveText(Chars)
  PROVE  Spec => []NoFinishedFile
<1>1. OpenInv(Chars) => NoFinishedFile
  <2> SUFFICES ASSUME OpenInv(Chars), NEW i \in DOMAIN stack
               PROVE  Ch(stack[i]) # EOF
    BY DEF NoFinishedFile
  <2>1. stack[i] \in OpenFiles(Chars)
    BY DEF OpenInv
  <2>2. stack[i].text[stack[i].pos] \in Chars /\ stack[i].pos <= Len(stack[i].text)
    BY <2>1 DEF OpenFiles, File
  <2> QED BY <2>2 DEF Ch, HaveText
<1>2. Spec => []OpenInv(Chars)
  BY FilesStayGood
<1> QED BY <1>1, <1>2, PTL

(***************************************************************************)
(* get_line_no and get_col_no (fileio.c 109-129) are the place of the      *)
(* current character, in files of any length, also for a file that was     *)
(* suspended while others were read.                                       *)
(***************************************************************************)
THEOREM PositionsStayRight ==
  ASSUME NEW Chars, HaveText(Chars), NoLeadingNewline
  PROVE  Spec => []PositionsAreRight
<1>1. IInv(Chars) => PositionsAreRight
  <2> SUFFICES ASSUME IInv(Chars), NEW i \in DOMAIN stack
               PROVE  PlaceIsRight(stack[i])
    BY DEF PositionsAreRight, PlaceIsRight
  <2>1. stack[i] \in GoodFiles(Chars)
    BY DEF IInv
  <2> QED BY <2>1 DEF GoodFiles
<1>2. Spec => []IInv(Chars)
  BY FilesStayGood
<1> QED BY <1>1, <1>2, PTL

-----------------------------------------------------------------------------
(* A set of natural numbers has a least element.                           *)
LEMMA LeastNumber ==
  ASSUME NEW T, T \subseteq Nat, T # {}
  PROVE  \E x \in T : \A y \in 0 .. x - 1 : y \notin T
<1>1. PICK x \in T : \A y \in T : ~(<<y, x>> \in OpToRel(<, Nat))
  BY WFMin, NatLessThanWellFounded, Zenon
<1>2. \A y \in T : ~(y < x)
  BY <1>1 DEF OpToRel
<1> QED BY <1>2

(* What FlattenSeq of the community modules does with a sequence of        *)
(* sequences: f[i] is its first i members one after the other.             *)
IsFlat(f, s, n) ==
  f = [i \in 1 .. n |-> IF i = 1 THEN s[i] ELSE f[i - 1] \o s[i]]

(* The running concatenation of sequences over S is one over S.            *)
LEMMA FlatType ==
  ASSUME NEW S, NEW s \in Seq(Seq(S)), NEW n \in 0 .. Len(s), NEW f,
         IsFlat(f, s, n)
  PROVE  \A i \in 1 .. n : f[i] \in Seq(S)
<1> DEFINE T == {i \in Nat : i \in 1 .. n /\ f[i] \notin Seq(S)}
<1>1. SUFFICES ASSUME T # {} PROVE FALSE
  OBVIOUS
<1>2. PICK i \in T : \A j \in 0 .. i - 1 : j \notin T
  BY <1>1, LeastNumber
<1>3. i \in 1 .. n /\ n <= Len(s) /\ n \in Nat /\ s[i] \in Seq(S) /\ f[i] \notin Seq(S)
  OBVIOUS
<1>4. i = 1 \/ (i - 1 \in 1 .. n /\ f[i - 1] \in Seq(S))
  BY <1>2, <1>3
<1> HIDE DEF T
<1>5. f[i] = IF i = 1 THEN s[i] ELSE f[i - 1] \o s[i]
  BY <1>3 DEF IsFlat
<1>6. i # 1 => f[i - 1] \o s[i] \in Seq(S)
  BY <1>3, <1>4, ConcatProperties
<1> QED BY <1>3, <1>5, <1>6

(* There is a running concatenation, of a list of any length.              *)
LEMMA FlatExists ==
  ASSUME NEW S, NEW s \in Seq(Seq(S))
  PROVE  \E f : IsFlat(f, s, Len(s))
<1> SUFFICES ASSUME ~(\E f : IsFlat(f, s, Len(s))) PROVE FALSE
  OBVIOUS
<1> DEFINE T == {n \in Nat : n <= Len(s) /\ ~(\E f : IsFlat(f, s, n))}
<1>1. T # {}
  <2>1. Len(s) \in T
    OBVIOUS
  <2> QED BY <2>1
<1>2. PICK n \in T : \A m \in 0 .. n - 1 : m \notin T
  BY <1>1, LeastNumber
<1>3. n \in Nat /\ n <= Len(s) /\ ~(\E f : IsFlat(f, s, n))
  OBVIOUS
<1>4. n # 0
  <2> DEFINE g == [i \in 1 .. 0 |-> s[i]]
  <2>1. g = [i \in 1 .. 0 |-> IF i = 1 THEN s[i] ELSE g[i - 1] \o s[i]]
    OBVIOUS
  <2>2. IsFlat(g, s, 0)
    BY <2>1 DEF IsFlat
  <2> QED BY <1>3, <2>2
<1>5. n - 1 \in 0 .. n - 1 /\ n - 1 \in Nat /\ n - 1 <= Len(s)
  BY <1>3, <1>4
<1>6. PICK f : IsFlat(f, s, n - 1)
  BY <1>2, <1>5
<1> HIDE DEF T
<1> DEFINE g == [i \in 1 .. n |->
                   IF i < n THEN f[i] ELSE IF i = 1 THEN s[i] ELSE f[i - 1] \o s[i]]
<1>7. \A i \in 1 .. n : g[i] = IF i = 1 THEN s[i] ELSE g[i - 1] \o s[i]
  <2> SUFFICES ASSUME NEW i \in 1 .. n
               PROVE  g[i] = IF i = 1 THEN s[i] ELSE g[i - 1] \o s[i]
    OBVIOUS
  <2>1. i > 1 => i - 1 \in 1 .. n /\ i - 1 < n
    BY <1>3
  <2>2. i > 1 => g[i - 1] = f[i - 1]
    BY <2>1
  <2>3. i < n => i \in 1 .. n - 1 /\ n - 1 \in Nat
    BY <1>3
  <2>4. i < n => f[i] = IF i = 1 THEN s[i] ELSE f[i - 1] \o s[i]
    BY <1>6, <2>3 DEF IsFlat
  <2> QED BY <2>2, <2>4
<1>8. g = [i \in 1 .. n |-> IF i = 1 THEN s[i] ELSE g[i - 1] \o s[i]]
  <2>1. g = [i \in 1 .. n |-> g[i]]
    OBVIOUS
  <2> HIDE DEF g
  <2> QED BY <1>7, <2>1
<1>9. IsFlat(g, s, n)
  BY <1>8 DEF IsFlat
<1> QED BY <1>3, <1>9

(* FlattenSeq is the last value of such a function.                        *)
LEMMA FlattenIs ==
  ASSUME NEW S, NEW s \in Seq(Seq(S))
  PROVE  /\ FlattenSeq(s) \in Seq(S)
         /\ Len(s) = 0 => FlattenSeq(s) = <<>>
         /\ Len(s) # 0 => \E f : IsFlat(f, s, Len(s)) /\ FlattenSeq(s) = f[Len(s)]
<1>1. CASE Len(s) = 0
  <2>1. s = <<>> /\ FlattenSeq(s) = s
    BY <1>1 DEF FlattenSeq
  <2>2. <<>> \in Seq(S)
    OBVIOUS
  <2>3. FlattenSeq(s) = <<>>
    BY <2>1
  <2> QED BY <1>1, <2>2, <2>3
<1>2. CASE Len(s) # 0
  <2> DEFINE F == CHOOSE f : f = [i \in 1 .. Len(s) |->
                                    IF i = 1 THEN s[i] ELSE f[i - 1] \o s[i]]
  <2>1. FlattenSeq(s) = F[Len(s)]
    BY <1>2 DEF FlattenSeq
  <2>2. F = CHOOSE f : IsFlat(f, s, Len(s))
    BY DEF IsFlat
  <2> HIDE DEF F
  <2>3. IsFlat(F, s, Len(s))
    BY <2>2, FlatExists
  <2>4. Len(s) \in 0 .. Len(s) /\ Len(s) \in 1 .. Len(s)
    BY <1>2
  <2>5. F[Len(s)] \in Seq(S)
    BY <2>3, <2>4, FlatType
  <2> QED BY <1>2, <2>1, <2>3, <2>5
<1> QED BY <1>1, <1>2

(* The first member comes first, and then the others.                      *)
LEMMA FlattenCons ==
  ASSUME NEW S, NEW x \in Seq(S), NEW s \in Seq(Seq(S))
  PROVE  FlattenSeq(<<x>> \o s) = x \o FlattenSeq(s)
<1> DEFINE t == <<x>> \o s
           n == Len(s)
<1>1. /\ t \in Seq(Seq(S)) /\ Len(t) = n + 1 /\ t[1] = x /\ n \in Nat
      /\ \A i \in 1 .. n : i + 1 \in 1 .. Len(t) /\ t[i + 1] = s[i]
  OBVIOUS
<1> HIDE DEF t
<1>2. PICK f : IsFlat(f, t, n + 1) /\ FlattenSeq(t) = f[n + 1]
  <2>1. Len(t) # 0
    BY <1>1
  <2> QED BY <1>1, <2>1, FlattenIs
<1>3. f[1] = x
  <2>1. 1 \in 1 .. n + 1
    BY <1>1
  <2> QED BY <1>1, <1>2, <2>1 DEF IsFlat
<1>4. CASE n = 0
  <2>1. FlattenSeq(s) = <<>>
    BY <1>4, FlattenIs
  <2>2. FlattenSeq(t) = x
    BY <1>2, <1>3, <1>4
  <2> QED BY <2>1, <2>2 DEF t
<1>5. CASE n # 0
  <2>1. PICK g : IsFlat(g, s, n) /\ FlattenSeq(s) = g[n]
    BY <1>5, FlattenIs
  <2>2. \A i \in 1 .. n : g[i] \in Seq(S)
    <3>1. n \in 0 .. Len(s)
      OBVIOUS
    <3> QED BY <2>1, <3>1, FlatType
  <2> DEFINE T == {i \in Nat : i \in 1 .. n /\ f[i + 1] # x \o g[i]}
  <2>3. T = {}
    <3>1. SUFFICES ASSUME T # {} PROVE FALSE
      OBVIOUS
    <3>2. PICK i \in T : \A j \in 0 .. i - 1 : j \notin T
      BY <3>1, LeastNumber
    <3>3. i \in 1 .. n /\ f[i + 1] # x \o g[i] /\ i + 1 \in 1 .. n + 1 /\ i + 1 # 1
      OBVIOUS
    <3>4. i # 1 => i - 1 \in 1 .. n /\ f[i] = x \o g[i - 1]
      <4>1. i # 1 => i - 1 \in 0 .. i - 1 /\ i - 1 \in 1 .. n /\ (i - 1) + 1 = i
        BY <3>3
      <4>2. i # 1 => i - 1 \notin T
        BY <3>2, <4>1
      <4>3. i # 1 => f[(i - 1) + 1] = x \o g[i - 1]
        <5>1. \A j \in 1 .. n : j \notin T => f[j + 1] = x \o g[j]
          OBVIOUS
        <5> HIDE DEF T
        <5> QED BY <4>1, <4>2, <5>1, Zenon
      <4> QED BY <4>1, <4>3
    <3> HIDE DEF T
    <3>5. f[i + 1] = f[(i + 1) - 1] \o t[i + 1]
      BY <1>2, <3>3 DEF IsFlat
    <3>6. f[i + 1] = f[i] \o s[i]
      <4>1. (i + 1) - 1 = i
        BY <3>3
      <4> QED BY <1>1, <3>3, <3>5, <4>1
    <3>7. g[i] = IF i = 1 THEN s[i] ELSE g[i - 1] \o s[i]
      BY <2>1, <3>3 DEF IsFlat
    <3>8. CASE i = 1
      <4>1. g[i] = s[i] /\ f[i + 1] = x \o s[i]
        BY <1>3, <3>6, <3>7, <3>8
      <4>2. f[i + 1] = x \o g[i]
        BY <4>1, Zenon
      <4> QED BY <3>3, <4>2
    <3>9. CASE i # 1
      <4>1. g[i - 1] \in Seq(S) /\ s[i] \in Seq(S)
        BY <2>2, <3>3, <3>4, <3>9
      <4>2. (x \o g[i - 1]) \o s[i] = x \o (g[i - 1] \o s[i])
        <5>1. \A a, b, c \in Seq(S) : (a \o b) \o c = a \o (b \o c)
          BY ConcatAssociative
        <5> QED BY <4>1, <5>1
      <4> QED BY <3>3, <3>4, <3>6, <3>7, <3>9, <4>2
    <3> QED BY <3>8, <3>9
  <2>4. n \in 1 .. n /\ n \in Nat
    BY <1>1, <1>5
  <2>5. f[n + 1] = x \o g[n]
    BY <2>3, <2>4
  <2> QED BY <1>2, <2>1, <2>5 DEF t
<1> QED BY <1>4, <1>5

-----------------------------------------------------------------------------
(* What is left of the files of a stack.                                   *)
RestOf(s) == FlattenSeq([i \in DOMAIN s |-> Unread(s[i])])

(* What is left of one open file: it begins with the current character.    *)
LEMMA UnreadOfFile ==
  ASSUME NEW Chars, EOF \notin Chars, NEW f \in OpenFiles(Chars)
  PROVE  /\ Unread(f) \in Seq(Chars) /\ Unread(f) # <<>>
         /\ Ch(f) = Head(Unread(f))
         /\ Ch(Advance(f)) = EOF => Tail(Unread(f)) = <<>>
         /\ Ch(Advance(f)) # EOF => Unread(Counted(f)) = Tail(Unread(f))
<1> DEFINE t == f.text
           p == f.pos
           u == Unread(f)
<1>1. /\ t \in Seq(Chars) /\ p \in Nat /\ p \in 1 .. Len(t) /\ Len(t) \in Nat
  BY DEF OpenFiles, File
<1>2. u = SubSeq(t, p, Len(t))
  BY DEF Unread
<1>3. Ch(f) = t[p]
  BY <1>1 DEF Ch
<1>4. Ch(Advance(f)) = EOF => p = Len(t)
  BY CountedOpen
<1>5. Ch(Advance(f)) # EOF =>
        Unread(Counted(f)) = SubSeq(t, p + 1, Len(t)) /\ p + 1 <= Len(t)
  BY CountedOpen DEF Unread
<1> HIDE DEF t, p, u
<1>6. u \in Seq(Chars) /\ Len(u) = Len(t) - p + 1 /\ u # <<>>
  <2>1. \A i \in p .. Len(t) : t[i] \in Chars
    BY <1>1
  <2>2. /\ u \in Seq(Chars)
        /\ Len(u) = IF p <= Len(t) THEN Len(t) - p + 1 ELSE 0
    BY <1>1, <1>2, <2>1, SubSeqProperties
  <2>3. Len(u) = Len(t) - p + 1 /\ Len(u) # 0
    BY <1>1, <2>2
  <2> QED BY <2>2, <2>3
<1>7. Head(u) = t[p] /\ Tail(u) = SubSeq(t, p + 1, Len(t))
  BY <1>1, <1>2
<1>8. p = Len(t) => Tail(u) = <<>>
  BY <1>1, <1>6, <1>7
<1> QED BY <1>3, <1>4, <1>5, <1>6, <1>7, <1>8 DEF u

(* A stack of open files: what is left of the first, then of the others.   *)
LEMMA RestOfStack ==
  ASSUME NEW Chars, EOF \notin Chars, NEW s \in Seq(OpenFiles(Chars))
  PROVE  /\ RestOf(s) \in Seq(Chars)
         /\ s = <<>> => RestOf(s) = <<>>
         /\ \A f \in OpenFiles(Chars) :
              RestOf(<<f>> \o s) = Unread(f) \o RestOf(s)
<1> DEFINE O == OpenFiles(Chars)
           U(q) == [i \in DOMAIN q |-> Unread(q[i])]
<1>1. \A q \in Seq(O) : U(q) \in Seq(Seq(Chars)) /\ Len(U(q)) = Len(q)
  <2> SUFFICES ASSUME NEW q \in Seq(O)
               PROVE  U(q) \in Seq(Seq(Chars)) /\ Len(U(q)) = Len(q)
    OBVIOUS
  <2>1. \A i \in 1 .. Len(q) : Unread(q[i]) \in Seq(Chars)
    <3>1. \A i \in 1 .. Len(q) : q[i] \in OpenFiles(Chars)
      OBVIOUS
    <3> QED BY <3>1, UnreadOfFile
  <2>2. DOMAIN q = 1 .. Len(q) /\ Len(q) \in Nat
    OBVIOUS
  <2> QED BY <2>1, <2>2
<1>2. RestOf(s) \in Seq(Chars)
  BY <1>1, FlattenIs DEF RestOf
<1>3. s = <<>> => RestOf(s) = <<>>
  BY <1>1, FlattenIs DEF RestOf
<1>4. ASSUME NEW f \in O
      PROVE  RestOf(<<f>> \o s) = Unread(f) \o RestOf(s)
  <2>1. U(<<f>> \o s) = <<Unread(f)>> \o U(s)
    OBVIOUS
  <2>2. Unread(f) \in Seq(Chars)
    BY UnreadOfFile
  <2>3. U(s) \in Seq(Seq(Chars))
    BY <1>1
  <2>4. FlattenSeq(<<Unread(f)>> \o U(s)) = Unread(f) \o FlattenSeq(U(s))
    BY <2>2, <2>3, FlattenCons
  <2> QED BY <2>1, <2>4 DEF RestOf
<1> QED BY <1>2, <1>3, <1>4

(* get_char returns the current character of the stream, and consume_char  *)
(* drops it.                                                               *)
LEMMA StackIsStream ==
  ASSUME NEW Chars, EOF \notin Chars, NEW s \in Seq(OpenFiles(Chars))
  PROVE  /\ GetChar(s) = Stream!Current(RestOf(s))
         /\ RestOf(Consume(s)) = IF RestOf(s) = <<>> THEN RestOf(s)
                                                     ELSE Tail(RestOf(s))
<1>1. CASE s = <<>>
  BY <1>1, RestOfStack DEF GetChar, Consume, Stream!Current
<1>2. CASE s # <<>>
  <2> DEFINE f == s[1]
             q == Tail(s)
             u == Unread(f)
             r == RestOf(q)
  <2>1. f \in OpenFiles(Chars) /\ q \in Seq(OpenFiles(Chars)) /\ s = <<f>> \o q
    <3> DEFINE O == OpenFiles(Chars)
    <3>1. s \in Seq(O)
      OBVIOUS
    <3> HIDE DEF O
    <3>2. f \in O /\ q \in Seq(O) /\ s = <<f>> \o q
      BY <1>2, <3>1
    <3> QED BY <3>2 DEF O
  <2> HIDE DEF f, q
  <2>2. /\ u \in Seq(Chars) /\ u # <<>> /\ Ch(f) = Head(u)
        /\ Ch(Advance(f)) = EOF => Tail(u) = <<>>
        /\ Ch(Advance(f)) # EOF => Unread(Counted(f)) = Tail(u)
    BY <2>1, UnreadOfFile
  <2>3. r \in Seq(Chars) /\ RestOf(s) = u \o r
    BY <2>1, RestOfStack
  <2>4. Ch(Advance(f)) # EOF =>
          RestOf(<<Counted(f)>> \o q) = Unread(Counted(f)) \o r
    BY <2>1, CountedOpen, RestOfStack
  <2>5. /\ GetChar(s) = Ch(f)
        /\ Consume(s) = IF Ch(Advance(f)) = EOF THEN q ELSE <<Counted(f)>> \o q
    BY <1>2 DEF GetChar, Consume, f, q
  <2> HIDE DEF u
  <2>6. r = RestOf(q)
    OBVIOUS
  <2> HIDE DEF r
  <2>7. u \o r # <<>> /\ Head(u \o r) = Head(u) /\ Tail(u \o r) = Tail(u) \o r
    BY <2>2, <2>3
  <2>8. GetChar(s) = Stream!Current(RestOf(s))
    BY <2>2, <2>3, <2>5, <2>7 DEF Stream!Current
  <2>9. RestOf(Consume(s)) = Tail(u) \o r
    <3>1. CASE Ch(Advance(f)) = EOF
      <4>1. <<>> \o r = r
        BY <2>3
      <4> QED BY <2>2, <2>5, <2>6, <3>1, <4>1
    <3>2. CASE Ch(Advance(f)) # EOF
      BY <2>2, <2>4, <2>5, <3>2
    <3> QED BY <3>1, <3>2
  <2> QED BY <2>3, <2>7, <2>8, <2>9
<1> QED BY <1>1, <1>2

(***************************************************************************)
(* Opening a file, get_char and consume_char (fileio.c 31-101), for any    *)
(* number of nested files of any length, are the calls of one stream of    *)
(* characters: none is lost, repeated or reported at an end that is not    *)
(* there.                                                                  *)
(***************************************************************************)
THEOREM StackImplementsStream ==
  ASSUME NEW Chars, HaveText(Chars)
  PROVE  Spec => ImplementsStream
<1>1. EOF \notin Chars
  BY DEF HaveText
<1>2. Init => Stream!Init
  <2> SUFFICES ASSUME Init PROVE Stream!Init
    OBVIOUS
  <2>1. stack = <<>> /\ stack \in Seq(OpenFiles(Chars)) /\ Remaining = RestOf(stack)
    BY DEF Init, Remaining, RestOf
  <2> QED BY <1>1, <2>1, RestOfStack DEF Init, Stream!Init
<1>3. OpenInv(Chars) /\ OpenInv(Chars)' /\ [Next]_vars
        => [Stream!Next]_<<Remaining, ret>>
  <2> SUFFICES ASSUME OpenInv(Chars), OpenInv(Chars)', [Next]_vars
               PROVE  [Stream!Next]_<<Remaining, ret>>
    OBVIOUS
  <2>1. stack \in Seq(OpenFiles(Chars)) /\ stack' \in Seq(OpenFiles(Chars))
    BY DEF OpenInv
  <2>2. Remaining = RestOf(stack) /\ Remaining' = RestOf(stack')
    BY DEF Remaining, RestOf
  <2>3. CASE OpenInputFile
    <3>1. PICK text \in Texts : stack' = <<NewFile(text)>> \o stack
      BY <2>3 DEF OpenInputFile
    <3>2. NewFile(text) \in OpenFiles(Chars)
      BY NewFileGood
    <3>3. Unread(NewFile(text)) = text
      <4>1. text \in Seq(Chars)
        BY DEF HaveText
      <4> QED BY <4>1, SubSeqFull DEF Unread, NewFile
    <3>4. Remaining' = text \o Remaining
      BY <1>1, <2>1, <2>2, <3>1, <3>2, <3>3, RestOfStack
    <3> QED BY <2>3, <3>4 DEF OpenInputFile, Stream!Next, Stream!Open
  <2>4. CASE Get
    <3>1. ret' = Stream!Current(Remaining) /\ Remaining' = Remaining
      BY <1>1, <2>1, <2>2, <2>4, StackIsStream DEF Get
    <3> QED BY <3>1 DEF Stream!Next, Stream!Get
  <2>5. CASE ConsumeChar
    <3>1. Remaining' = IF Remaining = <<>> THEN Remaining ELSE Tail(Remaining)
      BY <1>1, <2>1, <2>2, <2>5, StackIsStream DEF ConsumeChar
    <3>2. ret' = Stream!Current(Remaining')
      BY <1>1, <2>1, <2>2, <2>5, StackIsStream DEF ConsumeChar
    <3> QED BY <3>1, <3>2 DEF Stream!Next, Stream!Consume
  <2>6. CASE OpenFails \/ Exited \/ UNCHANGED vars
    BY <2>2, <2>6 DEF OpenFails, Exited, vars
  <2> QED BY <2>3, <2>4, <2>5, <2>6 DEF Next
<1>4. Spec => []OpenInv(Chars)
  BY FilesStayGood
<1>5. Spec => Stream!Spec
  BY <1>2, <1>3, <1>4, PTL DEF Spec, Stream!Spec
<1> QED BY <1>5 DEF ImplementsStream
=============================================================================
