-------------------------- MODULE StringBuffer_proofs -----------------------
(***************************************************************************)
(* For every set of strings and every sequence of operations on them: no   *)
(* write leaves its buffer, and every text ends inside of it.              *)
(***************************************************************************)
EXTENDS StringProps, WellFoundedInduction, TLAPS

Byte == Chars \cup {NUL, Junk}

(***************************************************************************)
(* The bytes of the buffer up to m, where the next character goes and at   *)
(* least the bytes of the first allocation, have been written, and one of  *)
(* them is NUL.                                                            *)
(***************************************************************************)
WrittenUpTo(s, m) ==
  /\ s.len <= m
  /\ \A j \in 0 .. m : s.buf[j] # Junk
  /\ \E e \in 0 .. m : s.buf[e] = NUL

Shape(s, c) ==
  /\ s \in [buf : [0 .. c - 1 -> Byte], len : 0 .. c - 1, cap : {c}]

Good(s) ==
  /\ \E c \in Capacities : Shape(s, c)
  /\ \E m \in InitialCap - 1 .. s.cap - 1 : WrittenUpTo(s, m)

IInv == \A h \in DOMAIN strs : Good(strs[h])

-----------------------------------------------------------------------------
(* A set of natural numbers has a least element.                           *)
LEMMA LeastIsLeast ==
  ASSUME NEW T, T \subseteq Nat, T # {}
  PROVE  Least(T) \in T /\ \A y \in T : Least(T) <= y
<1>1. PICK x \in T : \A y \in T : ~(<<y, x>> \in OpToRel(<, Nat))
  BY WFMin, NatLessThanWellFounded, Zenon
<1>2. \A y \in T : ~(y < x)
  BY <1>1 DEF OpToRel
<1>3. \A y \in T : x <= y
  BY <1>2
<1> QED BY <1>3 DEF Least

(* A capacity holds at least the first allocation.                         *)
LEMMA CapacityIsNat ==
  ASSUME NEW c \in Capacities
  PROVE  c \in Nat /\ InitialCap \in Nat /\ 2 <= InitialCap /\ InitialCap <= c
BY StringAssumption

(* The first and the largest capacity.                                     *)
LEMMA InitialCapIsACapacity == InitialCap \in Capacities
BY StringAssumption

(* No capacity exceeds the largest one.                                    *)
LEMMA LargestIsLargest == \A c \in Capacities : c <= Largest
BY StringAssumption

(* The parts of a good string.                                             *)
LEMMA GoodParts ==
  ASSUME NEW s, Good(s)
  PROVE  /\ s.cap \in Capacities /\ Shape(s, s.cap)
         /\ s.cap \in Nat /\ s.len \in Nat /\ s.len < s.cap
         /\ s.buf \in [0 .. s.cap - 1 -> Byte]
<1>1. PICK c \in Capacities : Shape(s, c)
  BY DEF Good
<1>2. s.cap = c
  BY <1>1 DEF Shape
<1> QED BY <1>1, <1>2, CapacityIsNat DEF Shape

(* strlen of a good string is inside the written part of its buffer.       *)
LEMMA StrlenIsWritten ==
  ASSUME NEW s, Good(s)
  PROVE  /\ Strlen(s.buf) \in 0 .. s.cap - 1
         /\ s.buf[Strlen(s.buf)] = NUL
         /\ \A j \in 0 .. Strlen(s.buf) - 1 : s.buf[j] \in Chars
         /\ \A m \in InitialCap - 1 .. s.cap - 1 :
              WrittenUpTo(s, m) => Strlen(s.buf) <= m
<1>1. PICK m \in InitialCap - 1 .. s.cap - 1 : WrittenUpTo(s, m)
  BY DEF Good
<1> DEFINE T == {i \in DOMAIN s.buf : s.buf[i] = NUL}
<1>2. /\ s.cap \in Nat /\ s.buf \in [0 .. s.cap - 1 -> Byte]
      /\ InitialCap \in Nat /\ 2 <= InitialCap
  BY GoodParts, CapacityIsNat
<1>3. T \subseteq 0 .. s.cap - 1 /\ T \subseteq Nat
  BY <1>2
<1>4. ASSUME NEW n \in InitialCap - 1 .. s.cap - 1, WrittenUpTo(s, n)
      PROVE  \E e \in T : e <= n
  BY <1>2, <1>4 DEF WrittenUpTo
<1>5. T # {}
  BY <1>1, <1>4
<1>6. Strlen(s.buf) \in T /\ \A y \in T : Strlen(s.buf) <= y
  <2>1. Strlen(s.buf) = Least(T)
    BY DEF Strlen
  <2> HIDE DEF T
  <2> QED BY <1>3, <1>5, <2>1, LeastIsLeast
<1>7. \A n \in InitialCap - 1 .. s.cap - 1 :
         WrittenUpTo(s, n) => Strlen(s.buf) <= n
  <2> SUFFICES ASSUME NEW n \in InitialCap - 1 .. s.cap - 1, WrittenUpTo(s, n)
               PROVE  Strlen(s.buf) <= n
    OBVIOUS
  <2>1. PICK e \in T : e <= n
    BY <1>4
  <2>2. e \in Nat /\ Strlen(s.buf) \in Nat
    BY <1>3, <1>6
  <2>3. Strlen(s.buf) <= e
    BY <1>6
  <2> QED BY <1>2, <2>1, <2>2, <2>3
<1>8. \A j \in 0 .. Strlen(s.buf) - 1 : s.buf[j] \in Chars
  <2> SUFFICES ASSUME NEW j \in 0 .. Strlen(s.buf) - 1
               PROVE  s.buf[j] \in Chars
    OBVIOUS
  <2>1. Strlen(s.buf) \in Nat /\ Strlen(s.buf) <= m /\ m \in Nat /\ m < s.cap
    BY <1>1, <1>2, <1>3, <1>6, <1>7
  <2>2. j \in DOMAIN s.buf /\ j \in 0 .. m
    BY <1>2, <2>1
  <2>3. s.buf[j] # Junk
    BY <1>1, <2>2 DEF WrittenUpTo
  <2>4. s.buf[j] # NUL
    BY <1>6, <2>1, <2>2
  <2> QED BY <1>2, <2>2, <2>3, <2>4 DEF Byte
<1> QED BY <1>3, <1>6, <1>7, <1>8

-----------------------------------------------------------------------------
(* memcpy inside a buffer changes the bytes that it should.                *)
LEMMA StoreInside ==
  ASSUME NEW c \in Nat, NEW b \in [0 .. c - 1 -> Byte],
         NEW at \in Nat, NEW bytes \in Seq(Byte), at + Len(bytes) <= c
  PROVE  /\ Store(b, at, bytes) \in [0 .. c - 1 -> Byte]
         /\ \A i \in 0 .. c - 1 :
              Store(b, at, bytes)[i] =
                IF i \in at .. at + Len(bytes) - 1 THEN bytes[i - at + 1]
                                                  ELSE b[i]
<1> DEFINE to == at .. at + Len(bytes) - 1
<1>1. Len(bytes) \in Nat /\ DOMAIN b \cup to = 0 .. c - 1
  OBVIOUS
<1>2. Store(b, at, bytes) =
        [i \in 0 .. c - 1 |-> IF i \in to THEN bytes[i - at + 1] ELSE b[i]]
  BY <1>1 DEF Store
<1>3. \A i \in to : bytes[i - at + 1] \in Byte
  <2> SUFFICES ASSUME NEW i \in to PROVE bytes[i - at + 1] \in Byte
    OBVIOUS
  <2>1. i - at + 1 \in 1 .. Len(bytes)
    BY <1>1
  <2> QED BY <2>1
<1> HIDE DEF to
<1>4. Store(b, at, bytes) \in [0 .. c - 1 -> Byte]
  BY <1>2, <1>3
<1> QED BY <1>2, <1>4 DEF to

(* What a good string is made of suffices for another one.                 *)
LEMMA GoodFromParts ==
  ASSUME NEW c \in Capacities, NEW b \in [0 .. c - 1 -> Byte],
         NEW n \in Nat, NEW m \in Nat, InitialCap - 1 <= m, m < c, n <= m,
         \A j \in 0 .. m : b[j] # Junk,
         NEW e \in 0 .. m, b[e] = NUL,
         NEW s, s = [buf |-> b, len |-> n, cap |-> c]
  PROVE  Good(s)
<1>1. c \in Nat /\ InitialCap \in Nat
  BY CapacityIsNat
<1>2. Shape(s, c)
  BY <1>1 DEF Shape
<1>3. m \in InitialCap - 1 .. s.cap - 1 /\ WrittenUpTo(s, m)
  BY <1>1 DEF WrittenUpTo
<1> QED BY <1>2, <1>3 DEF Good

(* A string is its three fields.                                           *)
LEMMA StringIsRecord ==
  ASSUME NEW s, Good(s)
  PROVE  \E b, n, c : s = [buf |-> b, len |-> n, cap |-> c]
BY GoodParts DEF Shape

(* A larger buffer holds the same written bytes.                           *)
LEMMA ResizedGood ==
  ASSUME NEW s, Good(s), NEW c \in Capacities, s.cap <= c
  PROVE  /\ Good(Resized(s, c))
         /\ Resized(s, c).len = s.len /\ Resized(s, c).cap = c
<1> DEFINE b == Realloc(s.buf, c)
<1>1. /\ s.cap \in Nat /\ s.len \in Nat /\ s.buf \in [0 .. s.cap - 1 -> Byte]
      /\ c \in Nat /\ InitialCap \in Nat /\ 2 <= InitialCap
  BY GoodParts, CapacityIsNat
<1>2. b \in [0 .. c - 1 -> Byte] /\ \A j \in 0 .. s.cap - 1 : b[j] = s.buf[j]
  BY <1>1 DEF Realloc, Byte
<1>3. Resized(s, c) = [buf |-> b, len |-> s.len, cap |-> c]
  <2>1. PICK b0, n0, c0 : s = [buf |-> b0, len |-> n0, cap |-> c0]
    BY StringIsRecord
  <2> HIDE DEF b
  <2>2. Resized(s, c) = [s EXCEPT !.cap = c, !.buf = b]
    BY DEF Resized, b
  <2> QED BY <2>1, <2>2
<1> HIDE DEF b
<1>4. PICK m \in InitialCap - 1 .. s.cap - 1 : WrittenUpTo(s, m)
  BY DEF Good
<1>5. m \in Nat /\ m < c /\ 0 .. m \subseteq 0 .. s.cap - 1
  BY <1>1
<1>6. PICK e \in 0 .. m : s.buf[e] = NUL
  BY <1>4 DEF WrittenUpTo
<1>7. b[e] = NUL /\ \A j \in 0 .. m : b[j] # Junk
  BY <1>2, <1>4, <1>5, <1>6 DEF WrittenUpTo
<1>8. s.len <= m /\ InitialCap - 1 <= m
  BY <1>1, <1>4 DEF WrittenUpTo
<1>9. Good(Resized(s, c))
  BY <1>1, <1>2, <1>3, <1>5, <1>7, <1>8, GoodFromParts
<1> QED BY <1>3, <1>9

(* The loop that doubles the capacity ends with enough room.               *)
LEMMA GrownGood ==
  ASSUME NEW s, Good(s), NEW need \in Nat, Fits(need)
  PROVE  /\ Good(Grown(s, need))
         /\ Grown(s, need).len = s.len /\ need <= Grown(s, need).cap
<1>1. CASE need <= s.cap
  BY <1>1 DEF Grown
<1>2. CASE ~(need <= s.cap)
  <2> DEFINE T == {c \in Capacities : s.cap <= c /\ need <= c}
  <2>1. s.cap \in Nat /\ Largest \in Capacities /\ Capacities \subseteq Nat
    BY GoodParts, StringAssumption
  <2>2. Largest \in T /\ T \subseteq Nat
    <3>1. Largest \in Nat
      BY <2>1
    <3>2. s.cap <= Largest /\ need <= Largest
      BY <1>2, <2>1, <3>1 DEF Fits
    <3> QED BY <2>1, <3>2
  <2>3. Grown(s, need) = Resized(s, Least(T))
    BY <1>2 DEF Grown
  <2>4. Least(T) \in T
    <3> HIDE DEF T
    <3> QED BY <2>2, LeastIsLeast
  <2>5. PICK c \in Capacities : c = Least(T) /\ s.cap <= c /\ need <= c
    BY <2>4
  <2> HIDE DEF T
  <2> QED BY <2>3, <2>5, ResizedGood
<1> QED BY <1>1, <1>2

(* An append after which there is room for the NUL.                        *)
LEMMA WrittenGood ==
  ASSUME NEW s, Good(s), NEW text \in Seq(Chars \cup {NUL}),
         s.len + Len(text) + 1 <= s.cap
  PROVE  Good(Written(s, text))
<1> DEFINE w == text \o <<NUL>>
           L == Len(text)
           b == Store(s.buf, s.len, w)
<1>1. /\ s.cap \in Nat /\ s.len \in Nat /\ s.buf \in [0 .. s.cap - 1 -> Byte]
      /\ s.cap \in Capacities /\ InitialCap \in Nat /\ 2 <= InitialCap
  BY GoodParts, CapacityIsNat
<1>2. /\ L \in Nat /\ Len(w) = L + 1 /\ w \in Seq(Byte) /\ w[L + 1] = NUL
      /\ \A i \in 1 .. L + 1 : w[i] \in Chars \cup {NUL}
  BY DEF Byte
<1>3. NUL # Junk /\ \A i \in 1 .. L + 1 : w[i] # Junk
  BY <1>2, StringAssumption
<1>4. Written(s, text) = [buf |-> b, len |-> s.len + L, cap |-> s.cap]
  <2>1. PICK b0, n0, c0 : s = [buf |-> b0, len |-> n0, cap |-> c0]
    BY StringIsRecord
  <2> HIDE DEF b, L
  <2>2. Written(s, text) = [s EXCEPT !.buf = b, !.len = s.len + L]
    BY DEF Written, b, L
  <2> QED BY <2>1, <2>2
<1> HIDE DEF w, L
<1>5. s.len + Len(w) <= s.cap
  BY <1>1, <1>2 DEF L
<1>6. /\ b \in [0 .. s.cap - 1 -> Byte]
      /\ \A i \in 0 .. s.cap - 1 :
           b[i] = IF i \in s.len .. s.len + Len(w) - 1 THEN w[i - s.len + 1]
                                                      ELSE s.buf[i]
  <2>1. /\ s.cap \in Nat /\ s.buf \in [0 .. s.cap - 1 -> Byte]
        /\ s.len \in Nat /\ w \in Seq(Byte) /\ s.len + Len(w) <= s.cap
    BY <1>1, <1>2, <1>5
  <2> QED BY <2>1, StoreInside, ZenonT(30)
<1> HIDE DEF b
<1>7. PICK m \in InitialCap - 1 .. s.cap - 1 : WrittenUpTo(s, m)
  BY DEF Good
<1> DEFINE M == IF m < s.len + L THEN s.len + L ELSE m
<1>8. /\ m \in Nat /\ M \in Nat /\ InitialCap - 1 <= M /\ M < s.cap /\ s.len + L <= M
      /\ s.len + L \in 0 .. M
  BY <1>1, <1>2, <1>5, SMTT(30)
<1>9. b[s.len + L] = NUL
  <2> DEFINE k == s.len + L
  <2>1. /\ s.len \in Nat /\ L \in Nat /\ s.cap \in Nat
        /\ Len(w) = L + 1 /\ s.len + L + 1 <= s.cap
    BY <1>1, <1>2, <1>5
  <2>2. k \in 0 .. s.cap - 1
    BY <2>1
  <2>3. k \in s.len .. s.len + Len(w) - 1 /\ k - s.len + 1 = L + 1
    BY <2>1
  <2> HIDE DEF k
  <2>4. b[k] = w[k - s.len + 1]
    BY <1>6, <2>2, <2>3
  <2>5. b[k] = NUL
    BY <1>2, <2>3, <2>4
  <2> QED BY <2>5 DEF k
<1>10. ASSUME NEW j \in 0 .. M
       PROVE  b[j] # Junk
  <2>1. j \in 0 .. s.cap - 1
    BY <1>1, <1>8
  <2>2. CASE j \in s.len .. s.len + Len(w) - 1
    <3>1. j - s.len + 1 \in 1 .. L + 1
      BY <1>1, <1>2, <2>2, SMTT(30)
    <3> QED BY <1>3, <1>6, <2>1, <2>2, <3>1
  <2>3. CASE j \notin s.len .. s.len + Len(w) - 1
    <3>1. j \in 0 .. m
      BY <1>1, <1>2, <1>7, <1>8, <2>3 DEF WrittenUpTo
    <3> QED BY <1>6, <1>7, <2>1, <2>3, <3>1 DEF WrittenUpTo
  <2> QED BY <2>2, <2>3
<1> HIDE DEF M
<1>11. s.len + L \in Nat
  BY <1>1, <1>2
<1> DEFINE n == s.len + L
<1>12. /\ n \in Nat /\ M \in Nat /\ InitialCap - 1 <= M /\ M < s.cap /\ n <= M
       /\ n \in 0 .. M /\ b[n] = NUL /\ \A j \in 0 .. M : b[j] # Junk
       /\ Written(s, text) = [buf |-> b, len |-> n, cap |-> s.cap]
  BY <1>4, <1>8, <1>9, <1>10, <1>11
<1> HIDE DEF n
<1> QED BY <1>1, <1>6, <1>12, GoodFromParts

-----------------------------------------------------------------------------
(* The two ways to append a text.                                          *)
LEMMA CatKeepsGood ==
  ASSUME NEW s, Good(s), NEW text \in Seq(Chars)
  PROVE  /\ Fits(NeedInside(s, text)) => Good(CatString(s, text))
         /\ Fits(Need(s, text)) => Good(Cat(s, text))
<1>1. s.len \in Nat /\ Len(text) \in Nat /\ text \in Seq(Chars \cup {NUL})
  BY GoodParts
<1>2. ASSUME Fits(NeedInside(s, text))
      PROVE  Good(CatString(s, text))
  <2> DEFINE g == Grown(s, NeedInside(s, text))
  <2>1. NeedInside(s, text) \in Nat
    BY <1>1 DEF NeedInside
  <2>2. Good(g) /\ g.len = s.len /\ NeedInside(s, text) <= g.cap
    BY <1>2, <2>1, GrownGood
  <2>3. CatString(s, text) = Written(g, text)
    BY DEF CatString
  <2> HIDE DEF g
  <2>4. g.len + Len(text) + 1 <= g.cap
    BY <2>2 DEF NeedInside
  <2> QED BY <1>1, <2>2, <2>3, <2>4, WrittenGood
<1>3. ASSUME Fits(Need(s, text))
      PROVE  Good(Cat(s, text))
  <2> DEFINE g == Grown(s, Need(s, text))
  <2>1. Need(s, text) \in Nat
    BY <1>1 DEF Need
  <2>2. Good(g) /\ g.len = s.len /\ Need(s, text) <= g.cap
    BY <1>3, <2>1, GrownGood
  <2>3. Cat(s, text) = Written(g, text)
    BY DEF Cat
  <2> HIDE DEF g
  <2>4. g.len + Len(text) + 1 <= g.cap
    BY <1>1, <2>2, GoodParts DEF Need
  <2> QED BY <1>1, <2>2, <2>3, <2>4, WrittenGood
<1> QED BY <1>2, <1>3

(* Doubling the capacity once is enough for one character and its NUL.     *)
LEMMA CatCharGood ==
  ASSUME NEW s, Good(s), NEW c \in Chars \cup {NUL}, Fits(s.len + 2)
  PROVE  Good(CatChar(s, c))
<1>1. /\ s.cap \in Capacities /\ s.cap \in Nat /\ s.len \in Nat /\ s.len < s.cap
      /\ Largest \in Nat /\ 2 <= s.cap
  <2>1. s.cap \in Capacities /\ s.cap \in Nat /\ s.len \in Nat /\ s.len < s.cap
    BY GoodParts
  <2>2. 2 <= s.cap
    BY <2>1, CapacityIsNat
  <2>3. Largest \in Nat
    BY StringAssumption
  <2> QED BY <2>1, <2>2, <2>3
<1>2. <<c>> \in Seq(Chars \cup {NUL}) /\ Len(<<c>>) = 1
  OBVIOUS
<1>3. CASE IsFull(s)
  <2>1. s.cap < Largest
    BY <1>1, <1>3 DEF IsFull, Fits
  <2>2. 2 * s.cap \in Capacities /\ s.cap <= 2 * s.cap
    BY <1>1, <2>1, StringAssumption
  <2> DEFINE r == Resized(s, 2 * s.cap)
  <2>3. Good(r) /\ r.len = s.len /\ r.cap = 2 * s.cap
    BY <2>2, ResizedGood
  <2>4. CatChar(s, c) = Written(r, <<c>>)
    BY <1>3 DEF CatChar
  <2> HIDE DEF r
  <2>5. r.len + Len(<<c>>) + 1 <= r.cap
    BY <1>1, <1>2, <2>3
  <2> QED BY <1>2, <2>3, <2>4, <2>5, WrittenGood
<1>4. CASE ~IsFull(s)
  <2>1. s.len + Len(<<c>>) + 1 <= s.cap
    BY <1>1, <1>2, <1>4 DEF IsFull
  <2>2. CatChar(s, c) = Written(s, <<c>>)
    BY <1>4 DEF CatChar
  <2> QED BY <1>2, <2>1, <2>2, WrittenGood
<1> QED BY <1>3, <1>4

(* A new string is good.                                                   *)
LEMMA NewStringGood == Good(NewString) /\ NewString.len = 0
<1> DEFINE b == Alloc(InitialCap)
           m == InitialCap - 1
<1>1. InitialCap \in Nat /\ 2 <= InitialCap /\ NUL # Junk
  BY StringAssumption
<1>2. InitialCap \in Capacities
  BY StringAssumption, InitialCapIsACapacity DEF Capacities
<1>3. b \in [0 .. InitialCap - 1 -> Byte] /\ \A j \in 0 .. m : b[j] = NUL
  BY <1>1 DEF Alloc, Byte
<1>4. NewString = [buf |-> b, len |-> 0, cap |-> InitialCap]
  BY DEF NewString
<1>5. m \in Nat /\ InitialCap - 1 <= m /\ m < InitialCap /\ 0 <= m /\ 0 \in 0 .. m
  BY <1>1
<1> HIDE DEF b, m
<1>6. b[0] = NUL /\ \A j \in 0 .. m : b[j] # Junk
  BY <1>1, <1>3, <1>5
<1>7. Good(NewString)
  BY <1>2, <1>3, <1>4, <1>5, <1>6, GoodFromParts
<1> QED BY <1>4, <1>7

(* What C functions see of a good string is a text that create_str can     *)
(* take: it fits into the largest capacity with its NUL.                   *)
LEMMA CopyIsGood ==
  ASSUME NEW s, Good(s)
  PROVE  CText(s.buf) \in Seq(Chars) /\ Good(CopyOf(s))
<1> DEFINE t == CText(s.buf)
           k == Strlen(s.buf)
<1>1. k \in 0 .. s.cap - 1 /\ s.cap \in Nat
  BY StrlenIsWritten, GoodParts
<1>2. k \in Nat /\ k + 1 <= s.cap
  BY <1>1
<1>3. \A i \in 1 .. k : s.buf[i - 1] \in Chars
  <2> SUFFICES ASSUME NEW i \in 1 .. k PROVE s.buf[i - 1] \in Chars
    OBVIOUS
  <2>1. i - 1 \in 0 .. k - 1
    BY <1>2
  <2> QED BY <2>1, StrlenIsWritten
<1>4. t = [i \in 1 .. k |-> s.buf[i - 1]]
  BY DEF CText
<1> HIDE DEF k, t
<1>5. t \in Seq(Chars) /\ Len(t) = k
  <2>1. t \in [1 .. k -> Chars]
    BY <1>3, <1>4
  <2> QED BY <1>2, <2>1
<1>6. CopyOf(s) = CreateFrom(t)
  BY DEF CopyOf, t
<1>7. ASSUME t = <<>>
      PROVE  Good(CopyOf(s))
  BY <1>6, <1>7, NewStringGood DEF CreateFrom
<1>8. ASSUME t # <<>>
      PROVE  Good(CopyOf(s))
  <2>1. Good(NewString) /\ NewString.len = 0
    BY NewStringGood
  <2>2. NeedInside(NewString, t) = k + 1
    BY <1>2, <1>5, <2>1 DEF NeedInside
  <2>3. s.cap <= Largest /\ Largest \in Nat
    BY GoodParts, LargestIsLargest, StringAssumption
  <2>4. Fits(NeedInside(NewString, t))
    BY <1>1, <1>2, <2>2, <2>3 DEF Fits
  <2>5. Good(CatString(NewString, t))
    BY <1>5, <2>1, <2>4, CatKeepsGood
  <2> QED BY <1>6, <1>8, <2>5 DEF CreateFrom
<1> QED BY <1>5, <1>7, <1>8 DEF t

(* A literal that fits makes a good string.                                *)
LEMMA CreatedGood ==
  ASSUME NEW text \in Seq(Chars), Fits(NeedInside(NewString, text))
  PROVE  Good(CreateFrom(text))
<1>1. Good(CatString(NewString, text))
  BY NewStringGood, CatKeepsGood
<1> QED BY <1>1, NewStringGood DEF CreateFrom

-----------------------------------------------------------------------------
(* Assigning to two fields of a string.                                    *)
LEMMA FieldsChanged ==
  ASSUME NEW s, s \in [buf : {s.buf}, len : {s.len}, cap : {s.cap}],
         NEW b, NEW n, NEW t, t = [s EXCEPT !.buf = b, !.len = n]
  PROVE  t = [buf |-> b, len |-> n, cap |-> s.cap]
OBVIOUS

(* Bytes changed in place, and a new length: a string stays good where its *)
(* written part stays written, with a NUL.                                 *)
LEMMA ChangedGood ==
  ASSUME NEW s, Good(s),
         NEW m \in InitialCap - 1 .. s.cap - 1,
         NEW b \in [0 .. s.cap - 1 -> Byte],
         NEW n \in Nat, n <= m,
         \A j \in 0 .. m : b[j] # Junk,
         NEW e \in 0 .. m, b[e] = NUL
  PROVE  Good([s EXCEPT !.buf = b, !.len = n])
<1> DEFINE t == [s EXCEPT !.buf = b, !.len = n]
<1>1. s.cap \in Capacities /\ s.cap \in Nat /\ InitialCap \in Nat /\ 2 <= InitialCap
  BY GoodParts, CapacityIsNat
<1>2. t = [buf |-> b, len |-> n, cap |-> s.cap]
  <2>1. s \in [buf : {s.buf}, len : {s.len}, cap : {s.cap}]
    BY GoodParts DEF Shape
  <2> QED BY <2>1, FieldsChanged
<1>3. m \in Nat /\ InitialCap - 1 <= m /\ m < s.cap
  BY <1>1
<1> HIDE DEF t
<1>4. Good(t)
  BY <1>1, <1>2, <1>3, GoodFromParts
<1> QED BY <1>4 DEF t

(* clear_str.                                                              *)
LEMMA ClearedGood ==
  ASSUME NEW s, Good(s)
  PROVE  Good(Cleared(s))
<1> DEFINE w == <<NUL>>
           b == Store(s.buf, 0, w)
<1>1. /\ s.cap \in Nat /\ s.buf \in [0 .. s.cap - 1 -> Byte]
      /\ s.cap \in Capacities /\ InitialCap \in Nat /\ 2 <= InitialCap
  BY GoodParts, CapacityIsNat
<1>2. w \in Seq(Byte) /\ Len(w) = 1 /\ w[1] = NUL
  BY DEF Byte
<1>3. 0 + Len(w) <= s.cap
  <2>1. InitialCap <= s.cap
    BY <1>1, CapacityIsNat
  <2> QED BY <1>1, <1>2, <2>1
<1>4. PICK m \in InitialCap - 1 .. s.cap - 1 : WrittenUpTo(s, m)
  BY DEF Good
<1> HIDE DEF w
<1>5. /\ b \in [0 .. s.cap - 1 -> Byte]
      /\ \A i \in 0 .. s.cap - 1 :
           b[i] = IF i \in 0 .. 0 + Len(w) - 1 THEN w[i - 0 + 1] ELSE s.buf[i]
  BY <1>1, <1>2, <1>3, StoreInside
<1> HIDE DEF b
<1>6. m \in Nat /\ 0 \in 0 .. m /\ 0 <= m /\ \A j \in 0 .. m : j \in 0 .. s.cap - 1
  BY <1>1
<1>7. b[0] = NUL
  BY <1>2, <1>5, <1>6
<1>8. ASSUME NEW j \in 0 .. m
      PROVE  b[j] # Junk
  <2>1. CASE j = 0
    BY <1>7, <2>1, StringAssumption
  <2>2. CASE j # 0
    BY <1>2, <1>4, <1>5, <1>6, <2>2 DEF WrittenUpTo
  <2> QED BY <2>1, <2>2
<1>9. Good([s EXCEPT !.buf = b, !.len = 0])
  BY <1>5, <1>6, <1>7, <1>8, ChangedGood
<1> QED BY <1>9 DEF Cleared, b, w

(* The text without its leading spaces lies in the part already written.   *)
LEMMA WithoutLeadIsWritten ==
  ASSUME NEW s, Good(s), NEW m \in InitialCap - 1 .. s.cap - 1, WrittenUpTo(s, m)
  PROVE  /\ WithoutLead(s.buf) \in [0 .. s.cap - 1 -> Byte]
         /\ \A j \in 0 .. m : WithoutLead(s.buf)[j] # Junk
         /\ \E e \in 0 .. m : WithoutLead(s.buf)[e] = NUL
<1> DEFINE k == Strlen(s.buf)
           T == {i \in 0 .. k : s.buf[i] \notin Spaces}
           lead == Least(T)
           moved == [i \in 1 .. k - lead + 1 |-> s.buf[lead + i - 1]]
           b == Store(s.buf, 0, moved)
<1>1. /\ s.cap \in Nat /\ s.buf \in [0 .. s.cap - 1 -> Byte]
      /\ InitialCap \in Nat /\ 2 <= InitialCap
  BY GoodParts, CapacityIsNat
<1>2. k \in Nat /\ k <= m /\ m \in Nat /\ m < s.cap /\ s.buf[k] = NUL
  <2>1. k \in 0 .. s.cap - 1 /\ s.buf[k] = NUL /\ k <= m
    BY StrlenIsWritten
  <2> QED BY <1>1, <2>1
<1> HIDE DEF k
<1>3. lead \in 0 .. k
  <2>1. k \in T /\ T \subseteq Nat
    BY <1>2, StringAssumption
  <2> HIDE DEF T
  <2>2. lead \in T
    BY <2>1, LeastIsLeast
  <2> QED BY <2>2 DEF T
<1>4. WithoutLead(s.buf) = IF lead = 0 THEN s.buf ELSE b
  BY DEF WithoutLead, k
<1> HIDE DEF T, lead
<1>5. /\ moved \in Seq(Byte) /\ Len(moved) = k - lead + 1
      /\ \A i \in 1 .. k - lead + 1 : moved[i] = s.buf[lead + i - 1]
  <2>1. k - lead + 1 \in Nat
    BY <1>2, <1>3
  <2>2. \A i \in 1 .. k - lead + 1 : s.buf[lead + i - 1] \in Byte
    <3> SUFFICES ASSUME NEW i \in 1 .. k - lead + 1
                 PROVE  s.buf[lead + i - 1] \in Byte
      OBVIOUS
    <3>1. /\ s.cap \in Nat /\ k \in Nat /\ k < s.cap
          /\ lead \in Nat /\ i \in Nat /\ 1 <= i /\ i <= k - lead + 1
      BY <1>1, <1>2, <1>3
    <3>2. lead + i - 1 \in 0 .. s.cap - 1
      BY <3>1
    <3> QED BY <1>1, <3>2
  <2>3. moved \in [1 .. k - lead + 1 -> Byte]
    BY <2>2
  <2> QED BY <2>1, <2>3
<1> HIDE DEF moved
<1>6. 0 + Len(moved) <= s.cap
  BY <1>1, <1>2, <1>3, <1>5
<1>7. /\ b \in [0 .. s.cap - 1 -> Byte]
      /\ \A i \in 0 .. s.cap - 1 :
           b[i] = IF i \in 0 .. 0 + Len(moved) - 1 THEN moved[i - 0 + 1]
                                                   ELSE s.buf[i]
  <2>1. /\ 0 \in Nat /\ moved \in Seq(Byte) /\ 0 + Len(moved) <= s.cap
        /\ s.cap \in Nat /\ s.buf \in [0 .. s.cap - 1 -> Byte]
    BY <1>1, <1>5, <1>6
  <2> QED BY <2>1, StoreInside, ZenonT(60)
<1> HIDE DEF b
<1>8. ASSUME NEW j \in 0 .. k - lead
      PROVE  b[j] = s.buf[lead + j]
  <2>1. /\ j \in 0 .. s.cap - 1 /\ j \in 0 .. 0 + Len(moved) - 1
        /\ j - 0 + 1 \in 1 .. k - lead + 1 /\ lead + (j - 0 + 1) - 1 = lead + j
    BY <1>1, <1>2, <1>3, <1>5
  <2> QED BY <1>5, <1>7, <2>1
<1>9. b[k - lead] = NUL /\ k - lead \in 0 .. m
  <2>1. k - lead \in 0 .. k - lead /\ lead + (k - lead) = k /\ k - lead \in 0 .. m
    BY <1>2, <1>3
  <2> QED BY <1>2, <1>8, <2>1
<1>10. ASSUME NEW j \in 0 .. m
       PROVE  b[j] # Junk
  <2>1. CASE j \in 0 .. k - lead
    <3>1. lead + j \in 0 .. m
      BY <1>2, <1>3, <2>1
    <3> QED BY <1>8, <2>1, <3>1 DEF WrittenUpTo
  <2>2. CASE j \notin 0 .. k - lead
    <3>1. j \in 0 .. s.cap - 1 /\ j \notin 0 .. 0 + Len(moved) - 1
      BY <1>1, <1>2, <1>3, <1>5, <2>2
    <3> QED BY <1>7, <3>1 DEF WrittenUpTo
  <2> QED BY <2>1, <2>2
<1>11. CASE lead = 0
  BY <1>1, <1>4, <1>11 DEF WrittenUpTo
<1>12. CASE lead # 0
  <2>1. WithoutLead(s.buf) = b
    BY <1>4, <1>12
  <2> QED BY <1>7, <1>9, <1>10, <2>1
<1> QED BY <1>11, <1>12

(* strip_str: the length it records is within the first allocation.        *)
LEMMA StrippedGood ==
  ASSUME NEW s, Good(s), NEW n \in HandleLens
  PROVE  Good(Stripped(s, n))
<1> DEFINE a == WithoutLead(s.buf)
           b == WithoutTrail(a)
<1>1. PICK m \in InitialCap - 1 .. s.cap - 1 : WrittenUpTo(s, m)
  BY DEF Good
<1>2. s.cap \in Nat /\ InitialCap \in Nat /\ 2 <= InitialCap /\ m \in Nat
  BY GoodParts, CapacityIsNat
<1>3. n \in Nat /\ n <= m
  <2>1. n \in 0 .. InitialCap - 2
    BY StringAssumption
  <2> QED BY <1>2, <2>1
<1>4. /\ a \in [0 .. s.cap - 1 -> Byte]
      /\ \A j \in 0 .. m : a[j] # Junk
      /\ \E e \in 0 .. m : a[e] = NUL
  BY <1>1, WithoutLeadIsWritten
<1> HIDE DEF a
<1>5. /\ DOMAIN b = 0 .. s.cap - 1
      /\ \A i \in 0 .. s.cap - 1 : b[i] = NUL \/ b[i] = a[i]
      /\ b = [i \in 0 .. s.cap - 1 |-> b[i]]
  BY <1>4 DEF WithoutTrail
<1> HIDE DEF b
<1>6. b \in [0 .. s.cap - 1 -> Byte]
  <2>1. \A i \in 0 .. s.cap - 1 : b[i] \in Byte
    BY <1>4, <1>5 DEF Byte
  <2> QED BY <1>5, <2>1
<1>7. 0 .. m \subseteq 0 .. s.cap - 1
  BY <1>2
<1>8. NUL # Junk
  BY StringAssumption
<1>9. \A j \in 0 .. m : b[j] # Junk
  BY <1>4, <1>5, <1>7, <1>8
<1>10. PICK e \in 0 .. m : b[e] = NUL
  BY <1>4, <1>5, <1>7
<1>11. Good([s EXCEPT !.buf = b, !.len = n])
  BY <1>3, <1>6, <1>9, <1>10, ChangedGood
<1> QED BY <1>11 DEF Stripped, a, b

(* upcase_str and downcase_str.                                            *)
LEMMA MappedGood ==
  ASSUME NEW s, Good(s), NEW f \in [Chars -> Chars]
  PROVE  Good(Mapped(s, f))
<1> DEFINE k == Strlen(s.buf)
           b == [i \in DOMAIN s.buf |-> IF i < k THEN f[s.buf[i]] ELSE s.buf[i]]
<1>1. PICK m \in InitialCap - 1 .. s.cap - 1 : WrittenUpTo(s, m)
  BY DEF Good
<1>2. /\ s.cap \in Nat /\ s.len \in Nat /\ s.buf \in [0 .. s.cap - 1 -> Byte]
      /\ InitialCap \in Nat /\ 2 <= InitialCap
  BY GoodParts, CapacityIsNat
<1>3. /\ k \in 0 .. s.cap - 1 /\ k <= m /\ s.buf[k] = NUL
      /\ \A j \in 0 .. k - 1 : s.buf[j] \in Chars
  BY <1>1, StrlenIsWritten
<1> HIDE DEF k
<1>4. m \in Nat /\ k \in 0 .. m /\ 0 .. m \subseteq 0 .. s.cap - 1
  BY <1>2, <1>3
<1>5. ASSUME NEW i \in 0 .. s.cap - 1
      PROVE  b[i] \in Chars \/ b[i] = s.buf[i]
  <2>1. CASE i < k
    <3>1. i \in 0 .. k - 1
      BY <1>2, <1>3, <2>1
    <3>2. f[s.buf[i]] \in Chars
      BY <1>3, <3>1
    <3> QED BY <1>2, <2>1, <3>2
  <2>2. CASE ~(i < k)
    BY <1>2, <2>2
  <2> QED BY <2>1, <2>2
<1>6. b[k] = NUL
  BY <1>2, <1>3
<1>7. DOMAIN b = 0 .. s.cap - 1 /\ b = [i \in 0 .. s.cap - 1 |-> b[i]]
  BY <1>2
<1>8. Mapped(s, f) = [s EXCEPT !.buf = b, !.len = s.len]
  <2>1. PICK b0, n0, c0 : s = [buf |-> b0, len |-> n0, cap |-> c0]
    BY StringIsRecord
  <2>2. Mapped(s, f) = [s EXCEPT !.buf = b]
    BY DEF Mapped, k
  <2> HIDE DEF b
  <2> QED BY <2>1, <2>2
<1> HIDE DEF b
<1>9. b \in [0 .. s.cap - 1 -> Byte]
  <2>1. \A i \in 0 .. s.cap - 1 : b[i] \in Byte
    BY <1>2, <1>5 DEF Byte
  <2> QED BY <1>7, <2>1
<1>10. Junk \notin Chars
  BY StringAssumption
<1>11. \A j \in 0 .. m : b[j] # Junk
  BY <1>1, <1>4, <1>5, <1>10 DEF WrittenUpTo
<1>12. s.len <= m
  BY <1>1 DEF WrittenUpTo
<1>13. Good([s EXCEPT !.buf = b, !.len = s.len])
  BY <1>2, <1>4, <1>6, <1>9, <1>11, <1>12, ChangedGood
<1> QED BY <1>8, <1>13

-----------------------------------------------------------------------------
(* Replacing one string by a good one.                                     *)
LEMMA SetGood ==
  ASSUME IInv, NEW h, NEW s, Good(s), Set(h, s)
  PROVE  IInv'
<1>1. strs' = [g \in Live \cup {h} |-> IF g = h THEN s ELSE strs[g]]
  BY DEF Set
<1> SUFFICES ASSUME NEW g \in DOMAIN strs'
             PROVE  Good(strs'[g])
  BY DEF IInv, Good, Shape, WrittenUpTo
<1>2. strs'[g] = IF g = h THEN s ELSE strs[g]
  BY <1>1
<1> QED BY <1>1, <1>2 DEF IInv, Live

(* Strings that go away leave the others good.                             *)
LEMMA FewerGood ==
  ASSUME IInv, NEW S, S \subseteq Live, strs' = [g \in S |-> strs[g]]
  PROVE  IInv'
<1> SUFFICES ASSUME NEW g \in DOMAIN strs'
             PROVE  Good(strs'[g])
  BY DEF IInv, Good, Shape, WrittenUpTo
<1> QED BY DEF IInv, Live

(* Every operation keeps the strings good.                                 *)
LEMMA StepGood ==
  ASSUME IInv, [Next]_vars
  PROVE  IInv'
<1>1. \A h \in Live : Good(strs[h])
  BY DEF IInv, Live
<1>2. ASSUME Exit PROVE IInv'
  <2>1. strs' = <<>> /\ DOMAIN strs' = {}
    BY <1>2 DEF Exit
  <2> QED BY <2>1 DEF IInv
<1>3. ASSUME UNCHANGED vars PROVE IInv'
  BY <1>3 DEF vars, IInv
<1>4. ASSUME NEW h \in Handles, Create(h) PROVE IInv'
  <2>1. PICK t \in Literals :
          Fits(NeedInside(NewString, t)) /\ Set(h, CreateFrom(t))
    BY <1>4 DEF Create
  <2>2. t \in Seq(Chars)
    BY StringAssumption
  <2> QED BY <2>1, <2>2, CreatedGood, SetGood
<1>5. ASSUME NEW h \in Handles, Destroy(h) PROVE IInv'
  <2>1. strs' = [g \in Live \ {h} |-> strs[g]] /\ Live \ {h} \subseteq Live
    BY <1>5 DEF Destroy
  <2> QED BY <2>1, FewerGood
<1>6. ASSUME NEW h \in Handles, CatOneChar(h) PROVE IInv'
  <2>1. PICK c \in Chars \cup {NUL} : Set(h, CatChar(strs[h], c))
    BY <1>6 DEF CatOneChar
  <2>2. h \in Live /\ Fits(strs[h].len + 2)
    BY <1>6 DEF CatOneChar
  <2>3. Good(CatChar(strs[h], c))
    BY <1>1, <2>2, CatCharGood
  <2> QED BY <2>1, <2>3, SetGood
<1>7. ASSUME NEW h \in Handles, CatText(h) PROVE IInv'
  <2>1. PICK t \in Literals : Fits(Need(strs[h], t)) /\ Set(h, Cat(strs[h], t))
    BY <1>7 DEF CatText
  <2>2. h \in Live /\ t \in Seq(Chars)
    BY <1>7, StringAssumption DEF CatText
  <2>3. Good(Cat(strs[h], t))
    BY <1>1, <2>1, <2>2, CatKeepsGood
  <2> QED BY <2>1, <2>3, SetGood
<1>8. ASSUME NEW h \in Handles, Clear(h) PROVE IInv'
  <2>1. h \in Live /\ Set(h, Cleared(strs[h]))
    BY <1>8 DEF Clear
  <2> QED BY <1>1, <2>1, ClearedGood, SetGood
<1>9. ASSUME NEW h \in Handles, Strip(h) PROVE IInv'
  <2>1. PICK n \in HandleLens : Set(h, Stripped(strs[h], n))
    BY <1>9 DEF Strip
  <2>2. h \in Live
    BY <1>9 DEF Strip
  <2> QED BY <1>1, <2>1, <2>2, StrippedGood, SetGood
<1>10. ASSUME NEW h \in Handles, ChangeCase(h) PROVE IInv'
  <2>1. PICK f \in {Upper, Lower} : Set(h, Mapped(strs[h], f))
    BY <1>10 DEF ChangeCase
  <2>2. h \in Live
    BY <1>10 DEF ChangeCase
  <2>3. f \in [Chars -> Chars]
    BY StringAssumption
  <2> QED BY <1>1, <2>1, <2>2, <2>3, MappedGood, SetGood
<1>11. ASSUME NEW h \in Handles, Compare(h) PROVE IInv'
  BY <1>11 DEF Compare, IInv
<1>12. ASSUME NEW g \in Handles, NEW h \in Handles, Copy(g, h) PROVE IInv'
  <2>1. g \in Live /\ Set(h, CopyOf(strs[g]))
    BY <1>12 DEF Copy
  <2>2. Good(CopyOf(strs[g]))
    BY <1>1, <2>1, CopyIsGood
  <2> QED BY <2>1, <2>2, SetGood
<1>13. ASSUME NEW g \in Handles, NEW h \in Handles, FileName(g, h) PROVE IInv'
  <2> DEFINE c == CopyOf(strs[g])
  <2>1. g \in Live
    BY <1>13 DEF FileName
  <2>2. PICK t \in Extensions : Fits(Need(c, t)) /\ Set(h, Cat(c, t))
    BY <1>13 DEF FileName
  <2>3. Good(c)
    BY <1>1, <2>1, CopyIsGood
  <2>4. t \in Seq(Chars)
    BY StringAssumption
  <2> HIDE DEF c
  <2>5. Good(Cat(c, t))
    BY <2>2, <2>3, <2>4, CatKeepsGood
  <2> QED BY <2>2, <2>5, SetGood
<1>14. CASE Next
  BY <1>2, <1>3, <1>4, <1>5, <1>6, <1>7, <1>8, <1>9, <1>10, <1>11, <1>12, <1>13,
     <1>14
  DEF Next, NoFileName, OutOfMemory, Exited
<1> QED BY <1>3, <1>14

-----------------------------------------------------------------------------
(***************************************************************************)
(* Every string stays good: its buffer, its capacity and the place where   *)
(* the next character goes fit together (strs.c 35-47, 114-152), and the   *)
(* bytes before that place have been written.                              *)
(***************************************************************************)
THEOREM StringsStayGood == Spec => []IInv
<1>1. Init => IInv
  BY DEF Init, IInv
<1>2. IInv /\ [Next]_vars => IInv'
  BY StepGood
<1> QED BY <1>1, <1>2, PTL DEF Spec

(***************************************************************************)
(* No append, move or change writes outside of a buffer, whatever was      *)
(* appended and stripped before, and however often the buffer grew.        *)
(***************************************************************************)
THEOREM NoBufferIsOverrun == Spec => []BuffersNotOverrun
<1>1. IInv => BuffersNotOverrun
  <2> SUFFICES ASSUME IInv, NEW h \in Live
               PROVE  InsideBuffer(strs[h])
    BY DEF BuffersNotOverrun
  <2>1. Good(strs[h])
    BY DEF IInv, Live
  <2> QED BY <2>1, GoodParts DEF InsideBuffer
<1> QED BY <1>1, StringsStayGood, PTL

(***************************************************************************)
(* Every text that is handed to a C function ends within its buffer and    *)
(* has no byte that realloc left unwritten, also where strip_str has set   *)
(* the length wrong.                                                       *)
(***************************************************************************)
THEOREM EveryTextEnds == Spec => []TextsEnd
<1>1. IInv => TextsEnd
  <2> SUFFICES ASSUME IInv, NEW h \in Live
               PROVE  ReadableText(strs[h].buf)
    BY DEF TextsEnd
  <2>1. Good(strs[h])
    BY DEF IInv, Live
  <2>2. PICK m \in InitialCap - 1 .. strs[h].cap - 1 : WrittenUpTo(strs[h], m)
    BY <2>1 DEF Good
  <2>3. /\ strs[h].cap \in Nat /\ InitialCap \in Nat
        /\ DOMAIN strs[h].buf = 0 .. strs[h].cap - 1
    BY <2>1, GoodParts, CapacityIsNat
  <2>4. PICK e \in 0 .. m : strs[h].buf[e] = NUL
    BY <2>2 DEF WrittenUpTo
  <2>5. \A j \in 0 .. e : j \in 0 .. m /\ j \in DOMAIN strs[h].buf
    BY <2>2, <2>3, <2>4
  <2> QED BY <2>2, <2>4, <2>5 DEF ReadableText, WrittenUpTo
<1> QED BY <1>1, StringsStayGood, PTL
-----------------------------------------------------------------------------
(***************************************************************************)
(* The text of a string whose length was not spoiled: the characters up to *)
(* its length, and a NUL behind them.                                      *)
(***************************************************************************)
HasText(s, t) ==
  /\ t \in Seq(Chars) /\ s.len = Len(t)
  /\ \A i \in 1 .. Len(t) : s.buf[i - 1] = t[i]
  /\ s.buf[Len(t)] = NUL

(* It is the text that C functions see, and it has the right length.       *)
LEMMA TextIsSeen ==
  ASSUME NEW s, Good(s), NEW t, HasText(s, t)
  PROVE  Strlen(s.buf) = Len(t) /\ CText(s.buf) = t /\ s.len = Strlen(s.buf)
<1> DEFINE k == Strlen(s.buf)
           n == Len(t)
<1>1. /\ k \in Nat /\ s.buf[k] = NUL /\ \A j \in 0 .. k - 1 : s.buf[j] \in Chars
  <2>1. s.cap \in Nat
    BY GoodParts
  <2> QED BY <2>1, StrlenIsWritten
<1>2. /\ n \in Nat /\ s.len = n /\ s.buf[n] = NUL /\ t \in Seq(Chars)
      /\ \A i \in 1 .. n : s.buf[i - 1] = t[i] /\ t[i] \in Chars
  BY DEF HasText
<1>3. NUL \notin Chars
  BY StringAssumption
<1> HIDE DEF k, n
<1>4. ~(n < k)
  BY <1>1, <1>2, <1>3
<1>5. ~(k < n)
  <2> SUFFICES ASSUME k < n PROVE FALSE
    OBVIOUS
  <2>1. k + 1 \in 1 .. n /\ (k + 1) - 1 = k
    BY <1>1, <1>2
  <2> QED BY <1>1, <1>2, <1>3, <2>1
<1>6. k = n
  BY <1>1, <1>2, <1>4, <1>5
<1>7. CText(s.buf) = t
  <2>1. CText(s.buf) = [i \in 1 .. n |-> t[i]]
    BY <1>2, <1>6 DEF CText, k
  <2> QED BY <1>2, <2>1 DEF n
<1> QED BY <1>2, <1>6, <1>7 DEF k, n

(* A string of the right length has a text.                                *)
LEMMA RightLengthHasText ==
  ASSUME NEW s, Good(s), s.len = Strlen(s.buf)
  PROVE  HasText(s, CText(s.buf))
<1> DEFINE k == Strlen(s.buf)
           t == CText(s.buf)
<1>1. k \in Nat /\ s.buf[k] = NUL
  <2>1. s.cap \in Nat
    BY GoodParts
  <2> QED BY <2>1, StrlenIsWritten
<1>2. t \in Seq(Chars)
  BY CopyIsGood
<1>3. t = [i \in 1 .. k |-> s.buf[i - 1]]
  BY DEF CText
<1>4. Len(t) = k /\ \A i \in 1 .. k : t[i] = s.buf[i - 1]
  <2> HIDE DEF t, k
  <2> QED BY <1>1, <1>2, <1>3
<1> HIDE DEF t, k
<1>5. HasText(s, t)
  <2>1. s.len = k
    BY DEF k
  <2> QED BY <1>1, <1>2, <1>4, <2>1 DEF HasText
<1> QED BY <1>5 DEF t

(* Growing keeps the text.                                                 *)
LEMMA ResizedText ==
  ASSUME NEW s, Good(s), NEW c \in Capacities, s.cap <= c, NEW t, HasText(s, t)
  PROVE  HasText(Resized(s, c), t)
<1> DEFINE b == Realloc(s.buf, c)
<1>1. /\ s.cap \in Nat /\ s.len \in Nat /\ s.len < s.cap /\ c \in Nat
      /\ DOMAIN s.buf = 0 .. s.cap - 1
  BY GoodParts, CapacityIsNat
<1>2. \A j \in 0 .. s.cap - 1 : b[j] = s.buf[j]
  BY <1>1 DEF Realloc
<1>3. Resized(s, c).len = s.len
  BY ResizedGood
<1>4. Resized(s, c).buf = b
  <2>1. PICK b0, n0, c0 : s = [buf |-> b0, len |-> n0, cap |-> c0]
    BY StringIsRecord
  <2> HIDE DEF b
  <2>2. Resized(s, c) = [s EXCEPT !.cap = c, !.buf = b]
    BY DEF Resized, b
  <2> QED BY <2>1, <2>2
<1> HIDE DEF b
<1>5. Len(t) = s.len /\ \A i \in 1 .. Len(t) : i - 1 \in 0 .. s.cap - 1
  BY <1>1 DEF HasText
<1>6. Len(t) \in 0 .. s.cap - 1
  BY <1>1, <1>5
<1> QED BY <1>2, <1>3, <1>4, <1>5, <1>6 DEF HasText

(* A buffer that has grown holds the same text.                            *)
LEMMA GrownText ==
  ASSUME NEW s, Good(s), NEW need \in Nat, Fits(need), NEW t, HasText(s, t)
  PROVE  HasText(Grown(s, need), t)
<1>1. CASE need <= s.cap
  BY <1>1 DEF Grown
<1>2. CASE ~(need <= s.cap)
  <2> DEFINE T == {c \in Capacities : s.cap <= c /\ need <= c}
  <2>1. s.cap \in Nat /\ Largest \in Capacities /\ Capacities \subseteq Nat
    BY GoodParts, StringAssumption
  <2>2. Largest \in T /\ T \subseteq Nat
    <3>1. Largest \in Nat
      BY <2>1
    <3>2. s.cap <= Largest /\ need <= Largest
      BY <1>2, <2>1, <3>1 DEF Fits
    <3> QED BY <2>1, <3>2
  <2>3. Grown(s, need) = Resized(s, Least(T))
    BY <1>2 DEF Grown
  <2>4. Least(T) \in T
    <3> HIDE DEF T
    <3> QED BY <2>2, LeastIsLeast
  <2>5. PICK c \in Capacities : c = Least(T) /\ s.cap <= c
    BY <2>4
  <2> HIDE DEF T
  <2> QED BY <2>3, <2>5, ResizedText
<1> QED BY <1>1, <1>2

(* The bytes that an append leaves: the old ones, the new ones and a NUL.  *)
LEMMA WrittenBytes ==
  ASSUME NEW s, Good(s), NEW text \in Seq(Chars \cup {NUL}),
         s.len + Len(text) + 1 <= s.cap
  PROVE  LET u == Written(s, text)
         IN  /\ u.len = s.len + Len(text)
             /\ \A j \in 0 .. s.len - 1 : u.buf[j] = s.buf[j]
             /\ \A i \in 1 .. Len(text) : u.buf[s.len + i - 1] = text[i]
             /\ u.buf[s.len + Len(text)] = NUL
<1> DEFINE w == text \o <<NUL>>
           L == Len(text)
           n == s.len
           b == Store(s.buf, n, w)
<1>1. s.cap \in Nat /\ n \in Nat /\ s.buf \in [0 .. s.cap - 1 -> Byte]
  BY GoodParts
<1>2. /\ L \in Nat /\ Len(w) = L + 1 /\ w \in Seq(Byte) /\ w[L + 1] = NUL
      /\ \A i \in 1 .. L : w[i] = text[i]
  BY DEF Byte
<1>3. Written(s, text) = [buf |-> b, len |-> n + L, cap |-> s.cap]
  <2>1. PICK b0, n0, c0 : s = [buf |-> b0, len |-> n0, cap |-> c0]
    BY StringIsRecord
  <2> HIDE DEF b, L
  <2>2. Written(s, text) = [s EXCEPT !.buf = b, !.len = s.len + L]
    BY DEF Written, b, L
  <2> QED BY <2>1, <2>2
<1>4. n + (L + 1) <= s.cap
  BY <1>1, <1>2
<1> HIDE DEF w, L, n
<1>5. n + Len(w) <= s.cap
  BY <1>2, <1>4
<1>6. \A i \in 0 .. s.cap - 1 :
        b[i] = IF i \in n .. n + Len(w) - 1 THEN w[i - n + 1] ELSE s.buf[i]
  <2>1. /\ s.cap \in Nat /\ s.buf \in [0 .. s.cap - 1 -> Byte]
        /\ n \in Nat /\ w \in Seq(Byte) /\ n + Len(w) <= s.cap
    BY <1>1, <1>2, <1>5
  <2> QED BY <2>1, StoreInside, ZenonT(30)
<1> HIDE DEF b
<1>7. ASSUME NEW j \in 0 .. n - 1
      PROVE  b[j] = s.buf[j]
  <2>1. j \in 0 .. s.cap - 1 /\ j \notin n .. n + Len(w) - 1
    BY <1>1, <1>2, <1>4
  <2> QED BY <1>6, <2>1
<1>8. ASSUME NEW i \in 1 .. L + 1
      PROVE  b[n + i - 1] = w[i]
  <2>1. /\ n + i - 1 \in 0 .. s.cap - 1 /\ n + i - 1 \in n .. n + Len(w) - 1
        /\ (n + i - 1) - n + 1 = i
    BY <1>1, <1>2, <1>4
  <2> HIDE DEF b
  <2>2. b[n + i - 1] = w[(n + i - 1) - n + 1]
    BY <1>6, <2>1
  <2> QED BY <2>1, <2>2
<1>9. b[n + L] = NUL
  <2>1. L + 1 \in 1 .. L + 1 /\ n + (L + 1) - 1 = n + L
    BY <1>1, <1>2
  <2> QED BY <1>2, <1>8, <2>1
<1>10. \A i \in 1 .. L : b[n + i - 1] = text[i]
  <2> SUFFICES ASSUME NEW i \in 1 .. L PROVE b[n + i - 1] = text[i]
    OBVIOUS
  <2>1. i \in 1 .. L + 1
    BY <1>2
  <2> QED BY <1>2, <1>8, <2>1
<1> QED BY <1>3, <1>7, <1>9, <1>10 DEF n, L

(* An append of text is the concatenation.                                 *)
LEMMA WrittenText ==
  ASSUME NEW s, Good(s), NEW text \in Seq(Chars),
         s.len + Len(text) + 1 <= s.cap, NEW t, HasText(s, t)
  PROVE  HasText(Written(s, text), t \o text)
<1> DEFINE u == Written(s, text)
           L == Len(text)
           n == Len(t)
           both == t \o text
<1>1. /\ n \in Nat /\ L \in Nat /\ s.len = n /\ t \in Seq(Chars)
      /\ \A i \in 1 .. n : s.buf[i - 1] = t[i]
  BY DEF HasText
<1>2. /\ both \in Seq(Chars) /\ Len(both) = n + L
      /\ \A i \in 1 .. n + L : both[i] = IF i <= n THEN t[i] ELSE text[i - n]
  BY <1>1
<1>3. /\ u.len = n + L
      /\ \A j \in 0 .. n - 1 : u.buf[j] = s.buf[j]
      /\ \A i \in 1 .. L : u.buf[n + i - 1] = text[i]
      /\ u.buf[n + L] = NUL
  <2>1. text \in Seq(Chars \cup {NUL})
    OBVIOUS
  <2> HIDE DEF u
  <2>2. /\ u.len = s.len + Len(text)
        /\ \A j \in 0 .. s.len - 1 : u.buf[j] = s.buf[j]
        /\ \A i \in 1 .. Len(text) : u.buf[s.len + i - 1] = text[i]
        /\ u.buf[s.len + Len(text)] = NUL
    BY <2>1, WrittenBytes, ZenonT(30) DEF u
  <2> QED BY <1>1, <2>2
<1> HIDE DEF u, both, n, L
<1>4. ASSUME NEW i \in 1 .. n + L
      PROVE  u.buf[i - 1] = both[i]
  <2>1. CASE i <= n
    <3>1. i \in 1 .. n /\ i - 1 \in 0 .. n - 1
      BY <1>1, <2>1
    <3> QED BY <1>1, <1>2, <1>3, <2>1, <3>1
  <2>2. CASE ~(i <= n)
    <3>1. i - n \in 1 .. L /\ n + (i - n) - 1 = i - 1
      BY <1>1, <2>2
    <3>2. u.buf[n + (i - n) - 1] = text[i - n]
      BY <1>3, <3>1
    <3> QED BY <1>2, <2>2, <3>1, <3>2
  <2> QED BY <2>1, <2>2
<1>5. HasText(u, both)
  BY <1>2, <1>3, <1>4 DEF HasText
<1> QED BY <1>5 DEF u, both
(* The two ways to append a text, and one character.                       *)
LEMMA AppendedText ==
  ASSUME NEW s, Good(s), NEW text \in Seq(Chars), NEW t, HasText(s, t)
  PROVE  /\ Fits(NeedInside(s, text)) => HasText(CatString(s, text), t \o text)
         /\ Fits(Need(s, text)) => HasText(Cat(s, text), t \o text)
<1>1. s.len \in Nat /\ Len(text) \in Nat
  BY GoodParts
<1>2. ASSUME Fits(NeedInside(s, text))
      PROVE  HasText(CatString(s, text), t \o text)
  <2> DEFINE g == Grown(s, NeedInside(s, text))
  <2>1. NeedInside(s, text) \in Nat
    BY <1>1 DEF NeedInside
  <2>2. Good(g) /\ g.len = s.len /\ NeedInside(s, text) <= g.cap /\ HasText(g, t)
    BY <1>2, <2>1, GrownGood, GrownText
  <2>3. CatString(s, text) = Written(g, text)
    BY DEF CatString
  <2> HIDE DEF g
  <2>4. g.len + Len(text) + 1 <= g.cap
    BY <2>2 DEF NeedInside
  <2> QED BY <2>2, <2>3, <2>4, WrittenText
<1>3. ASSUME Fits(Need(s, text))
      PROVE  HasText(Cat(s, text), t \o text)
  <2> DEFINE g == Grown(s, Need(s, text))
  <2>1. Need(s, text) \in Nat
    BY <1>1 DEF Need
  <2>2. Good(g) /\ g.len = s.len /\ Need(s, text) <= g.cap /\ HasText(g, t)
    BY <1>3, <2>1, GrownGood, GrownText
  <2>3. Cat(s, text) = Written(g, text)
    BY DEF Cat
  <2> HIDE DEF g
  <2>4. g.len + Len(text) + 1 <= g.cap
    BY <1>1, <2>2, GoodParts DEF Need
  <2> QED BY <2>2, <2>3, <2>4, WrittenText
<1> QED BY <1>2, <1>3

(* cat_str_char writes the character behind the text; a NUL ends up there  *)
(* as well.                                                                *)
LEMMA CatCharText ==
  ASSUME NEW s, Good(s), NEW c \in Chars \cup {NUL}, Fits(s.len + 2)
  PROVE  /\ CatChar(s, c).len = s.len + 1
         /\ CatChar(s, c).buf[s.len] = c
         /\ \A t : HasText(s, t) /\ c \in Chars
                    => HasText(CatChar(s, c), t \o <<c>>)
<1>1. /\ s.cap \in Capacities /\ s.cap \in Nat /\ s.len \in Nat /\ s.len < s.cap
      /\ Largest \in Nat /\ 2 <= s.cap
  <2>1. s.cap \in Capacities /\ s.cap \in Nat /\ s.len \in Nat /\ s.len < s.cap
    BY GoodParts
  <2>2. 2 <= s.cap
    BY <2>1, CapacityIsNat
  <2>3. Largest \in Nat
    BY StringAssumption
  <2> QED BY <2>1, <2>2, <2>3
<1> DEFINE r == IF IsFull(s) THEN Resized(s, 2 * s.cap) ELSE s
<1>2. /\ Good(r) /\ r.len = s.len /\ r.len + 2 <= r.cap
      /\ \A t : HasText(s, t) => HasText(r, t)
  <2>1. CASE IsFull(s)
    <3>1. s.cap < Largest
      BY <1>1, <2>1 DEF IsFull, Fits
    <3>2. 2 * s.cap \in Capacities /\ s.cap <= 2 * s.cap
      BY <1>1, <3>1, StringAssumption
    <3>3. Good(r) /\ r.len = s.len /\ r.cap = 2 * s.cap
      BY <2>1, <3>2, ResizedGood
    <3>4. \A t : HasText(s, t) => HasText(r, t)
      BY <2>1, <3>2, ResizedText
    <3> HIDE DEF r
    <3>5. r.len + 2 <= r.cap
      BY <1>1, <3>3
    <3> QED BY <3>3, <3>4, <3>5
  <2>2. CASE ~IsFull(s)
    BY <1>1, <2>2 DEF IsFull
  <2> QED BY <2>1, <2>2
<1>3. CatChar(s, c) = Written(r, <<c>>)
  BY DEF CatChar
<1>4. <<c>> \in Seq(Chars \cup {NUL}) /\ Len(<<c>>) = 1 /\ <<c>>[1] = c
  OBVIOUS
<1> DEFINE w == <<c>>
<1> HIDE DEF r, w
<1>5. r.len + Len(w) + 1 <= r.cap
  BY <1>1, <1>2, <1>4 DEF w
<1>6. /\ Written(r, w).len = r.len + Len(w)
      /\ \A i \in 1 .. Len(w) : Written(r, w).buf[r.len + i - 1] = w[i]
  <2>1. w \in Seq(Chars \cup {NUL})
    BY <1>4 DEF w
  <2> QED BY <1>2, <1>5, <2>1, WrittenBytes, ZenonT(30)
<1>7. Written(r, w).buf[r.len] = c
  <2>1. 1 \in 1 .. Len(w) /\ r.len + 1 - 1 = r.len
    BY <1>1, <1>2, <1>4 DEF w
  <2>2. Written(r, w).buf[r.len + 1 - 1] = w[1]
    BY <1>6, <2>1
  <2> QED BY <1>4, <2>1, <2>2 DEF w
<1>8. ASSUME NEW t, HasText(s, t), c \in Chars
      PROVE  HasText(Written(r, w), t \o w)
  <2>1. w \in Seq(Chars)
    BY <1>8 DEF w
  <2> QED BY <1>2, <1>5, <1>8, <2>1, WrittenText
<1> QED BY <1>2, <1>3, <1>4, <1>6, <1>7, <1>8 DEF w

(* A new string has no text, and create_str gives it one.                  *)
LEMMA NewStringText == HasText(NewString, <<>>)
<1>1. InitialCap \in Nat /\ 2 <= InitialCap
  BY StringAssumption
<1>2. NewString.buf[0] = NUL /\ NewString.len = 0
  BY <1>1 DEF NewString, Alloc
<1> QED BY <1>2 DEF HasText

(* create_string of a text holds that text.                                *)
LEMMA CreatedText ==
  ASSUME NEW text \in Seq(Chars), Fits(NeedInside(NewString, text))
  PROVE  HasText(CreateFrom(text), text)
<1>1. Good(NewString) /\ HasText(NewString, <<>>)
  BY NewStringGood, NewStringText
<1>2. HasText(CatString(NewString, text), <<>> \o text)
  BY <1>1, AppendedText
<1>3. <<>> \o text = text
  OBVIOUS
<1> QED BY <1>1, <1>2, <1>3 DEF CreateFrom

(* A copy has the text that C functions see, and nothing of what may lie   *)
(* behind it.                                                              *)
LEMMA CopyText ==
  ASSUME NEW s, Good(s)
  PROVE  HasText(CopyOf(s), CText(s.buf))
<1> DEFINE t == CText(s.buf)
           k == Strlen(s.buf)
<1>1. s.cap \in Nat /\ k \in 0 .. s.cap - 1 /\ s.cap <= Largest /\ Largest \in Nat
  BY GoodParts, StrlenIsWritten, LargestIsLargest, StringAssumption
<1>2. t \in Seq(Chars)
  BY CopyIsGood
<1>3. t = [i \in 1 .. k |-> s.buf[i - 1]]
  BY DEF CText
<1> HIDE DEF t, k
<1>4. Len(t) = k
  BY <1>1, <1>2, <1>3
<1>5. NeedInside(NewString, t) = k + 1
  BY <1>1, <1>4, NewStringGood DEF NeedInside
<1>6. Fits(NeedInside(NewString, t))
  BY <1>1, <1>5 DEF Fits
<1> QED BY <1>2, <1>6, CreatedText DEF CopyOf, t

(* clear_str.                                                              *)
LEMMA ClearedText ==
  ASSUME NEW s, Good(s)
  PROVE  HasText(Cleared(s), <<>>)
<1> DEFINE w == <<NUL>>
           b == Store(s.buf, 0, w)
<1>1. /\ s.cap \in Nat /\ 2 <= s.cap /\ s.buf \in [0 .. s.cap - 1 -> Byte]
  <2>1. s.cap \in Capacities /\ s.cap \in Nat /\ s.buf \in [0 .. s.cap - 1 -> Byte]
    BY GoodParts
  <2>2. InitialCap \in Nat /\ 2 <= InitialCap /\ InitialCap <= s.cap
    BY <2>1, CapacityIsNat
  <2> QED BY <2>1, <2>2
<1>2. w \in Seq(Byte) /\ Len(w) = 1 /\ w[1] = NUL
  BY DEF Byte
<1>3. 0 + Len(w) <= s.cap /\ 0 \in Nat /\ 0 \in 0 .. s.cap - 1
  BY <1>1, <1>2
<1> HIDE DEF w
<1>4. \A i \in 0 .. s.cap - 1 :
        b[i] = IF i \in 0 .. 0 + Len(w) - 1 THEN w[i - 0 + 1] ELSE s.buf[i]
  BY <1>1, <1>2, <1>3, StoreInside, ZenonT(30)
<1> HIDE DEF b
<1>5. b[0] = NUL
  <2>1. 0 \in 0 .. 0 + Len(w) - 1 /\ 0 - 0 + 1 = 1
    BY <1>2
  <2> QED BY <1>2, <1>3, <1>4, <2>1
<1>6. Cleared(s).buf = b /\ Cleared(s).len = 0
  <2>1. s \in [buf : {s.buf}, len : {s.len}, cap : {s.cap}]
    BY GoodParts DEF Shape
  <2>2. Cleared(s) = [s EXCEPT !.buf = b, !.len = 0]
    BY DEF Cleared, b, w
  <2>3. Cleared(s) = [buf |-> b, len |-> 0, cap |-> s.cap]
    BY <2>1, <2>2, FieldsChanged
  <2> QED BY <2>3
<1> QED BY <1>5, <1>6 DEF HasText

(* upcase_str and downcase_str map the characters of the text, whatever    *)
(* the length says.                                                        *)
LEMMA MappedText ==
  ASSUME NEW s, Good(s), NEW f \in [Chars -> Chars]
  PROVE  LET t == CText(s.buf) IN
         HasText(s, t) => HasText(Mapped(s, f), [i \in DOMAIN t |-> f[t[i]]])
<1> DEFINE t == CText(s.buf)
           k == Strlen(s.buf)
           b == [i \in DOMAIN s.buf |-> IF i < k THEN f[s.buf[i]] ELSE s.buf[i]]
           ft == [i \in DOMAIN t |-> f[t[i]]]
<1> SUFFICES ASSUME HasText(s, t) PROVE HasText(Mapped(s, f), ft)
  OBVIOUS
<1>1. /\ s.cap \in Nat /\ DOMAIN s.buf = 0 .. s.cap - 1
      /\ k \in 0 .. s.cap - 1 /\ s.buf[k] = NUL
  BY GoodParts, StrlenIsWritten
<1>2. /\ Len(t) = k /\ s.len = k /\ t \in Seq(Chars)
      /\ \A i \in 1 .. k : s.buf[i - 1] = t[i]
  <2>1. Len(t) = k
    BY TextIsSeen
  <2> HIDE DEF t, k
  <2> QED BY <2>1 DEF HasText
<1>3. Mapped(s, f).buf = b /\ Mapped(s, f).len = s.len
  <2>1. PICK b0, n0, c0 : s = [buf |-> b0, len |-> n0, cap |-> c0]
    BY StringIsRecord
  <2>2. Mapped(s, f) = [s EXCEPT !.buf = b]
    BY DEF Mapped
  <2> HIDE DEF b
  <2> QED BY <2>1, <2>2
<1> HIDE DEF t, k
<1>4. k \in Nat /\ DOMAIN t = 1 .. k /\ \A i \in 1 .. k : t[i] \in Chars
  BY <1>1, <1>2
<1>5. ft \in Seq(Chars) /\ Len(ft) = k /\ \A i \in 1 .. k : ft[i] = f[t[i]]
  <2>1. ft \in [1 .. k -> Chars]
    BY <1>4
  <2> QED BY <1>4, <2>1
<1>6. ASSUME NEW i \in 1 .. k
      PROVE  b[i - 1] = ft[i]
  <2>1. i - 1 \in DOMAIN s.buf /\ i - 1 < k
    BY <1>1, <1>4
  <2> QED BY <1>2, <1>5, <2>1
<1>7. b[k] = NUL
  BY <1>1, <1>4
<1> HIDE DEF b, ft
<1> QED BY <1>2, <1>3, <1>5, <1>6, <1>7 DEF HasText

-----------------------------------------------------------------------------
(***************************************************************************)
(* The length is strlen of the buffer after every operation but strip_str  *)
(* and the append of a NUL (strs.c 92-152, 266-297): no sequence of        *)
(* creations, copies, appends, growth and clearing gets it wrong.          *)
(***************************************************************************)
LEMMA SetSound ==
  ASSUME LengthsFitTexts, IInv, NEW h, NEW s, NEW S, spoiled' = S,
         spoiled \subseteq S \cup {h}, Set(h, s),
         h \in S \/ s.len = Strlen(s.buf)
  PROVE  LengthsFitTexts'
<1>1. strs' = [g \in Live \cup {h} |-> IF g = h THEN s ELSE strs[g]]
  BY DEF Set
<1>2. ASSUME NEW g \in (DOMAIN strs') \ S
      PROVE  strs'[g].len = Strlen(strs'[g].buf)
  <2>1. CASE g = h
    BY <1>1, <1>2, <2>1
  <2>2. CASE g # h
    <3>1. g \in Live \ spoiled /\ strs'[g] = strs[g]
      BY <1>1, <1>2, <2>2
    <3> QED BY <3>1 DEF LengthsFitTexts, Sound
  <2> QED BY <2>1, <2>2
<1> QED BY <1>2 DEF LengthsFitTexts, Sound, Live, Strlen, Least

(* Every step keeps the stored lengths right.                              *)
LEMMA StepSound ==
  ASSUME LengthsFitTexts, IInv, [Next]_vars
  PROVE  LengthsFitTexts'
<1>1. \A h \in Live : Good(strs[h])
  BY DEF IInv, Live
<1>2. \A h \in Live \ spoiled : HasText(strs[h], CText(strs[h].buf))
  BY <1>1, RightLengthHasText DEF LengthsFitTexts, Sound
<1>3. ASSUME NEW s, Good(s), NEW t, HasText(s, t)
      PROVE  s.len = Strlen(s.buf)
  BY <1>3, TextIsSeen
<1>4. ASSUME Exit PROVE LengthsFitTexts'
  <2>1. DOMAIN strs' = {}
    BY <1>4 DEF Exit
  <2> QED BY <2>1 DEF LengthsFitTexts, Live
<1>5. ASSUME strs' = strs, spoiled' = spoiled PROVE LengthsFitTexts'
  BY <1>5 DEF LengthsFitTexts, Sound, Live
<1>6. ASSUME NEW h \in Handles, Create(h) PROVE LengthsFitTexts'
  <2>1. PICK t \in Literals :
          Fits(NeedInside(NewString, t)) /\ Set(h, CreateFrom(t))
    BY <1>6 DEF Create
  <2>2. t \in Seq(Chars)
    BY StringAssumption
  <2>3. Good(CreateFrom(t)) /\ HasText(CreateFrom(t), t)
    BY <2>1, <2>2, CreatedGood, CreatedText
  <2>4. spoiled' = spoiled
    BY <1>6 DEF Create
  <2> QED BY <1>3, <2>1, <2>3, <2>4, SetSound
<1>7. ASSUME NEW h \in Handles, Destroy(h) PROVE LengthsFitTexts'
  <2>1. /\ strs' = [g \in Live \ {h} |-> strs[g]]
        /\ spoiled' = spoiled \ {h}
    BY <1>7 DEF Destroy
  <2>2. \A g \in (DOMAIN strs') \ spoiled' :
           g \in Live \ spoiled /\ strs'[g] = strs[g]
    BY <2>1
  <2> QED BY <2>2 DEF LengthsFitTexts, Sound, Live
<1>8. ASSUME NEW h \in Handles, CatOneChar(h) PROVE LengthsFitTexts'
  <2>1. PICK c \in Chars \cup {NUL} :
           /\ Set(h, CatChar(strs[h], c))
           /\ spoiled' = IF c = NUL THEN spoiled \cup {h} ELSE spoiled
    BY <1>8 DEF CatOneChar
  <2>2. h \in Live /\ Fits(strs[h].len + 2)
    BY <1>8 DEF CatOneChar
  <2>3. CASE h \in spoiled'
    BY <2>1, <2>3, SetSound
  <2>4. CASE h \notin spoiled'
    <3>1. c \in Chars /\ h \in Live \ spoiled /\ spoiled' = spoiled
      BY <2>1, <2>2, <2>4
    <3>2. /\ Good(CatChar(strs[h], c))
          /\ HasText(CatChar(strs[h], c), CText(strs[h].buf) \o <<c>>)
      BY <1>1, <1>2, <2>2, <3>1, CatCharGood, CatCharText
    <3>3. CatChar(strs[h], c).len = Strlen(CatChar(strs[h], c).buf)
      BY <1>3, <3>2
    <3> QED BY <2>1, <3>1, <3>3, SetSound
  <2> QED BY <2>3, <2>4
<1>9. ASSUME NEW h \in Handles, CatText(h) PROVE LengthsFitTexts'
  <2>1. PICK t \in Literals : Fits(Need(strs[h], t)) /\ Set(h, Cat(strs[h], t))
    BY <1>9 DEF CatText
  <2>2. h \in Live /\ t \in Seq(Chars) /\ spoiled' = spoiled
    BY <1>9, StringAssumption DEF CatText
  <2>3. CASE h \in spoiled
    BY <2>1, <2>2, <2>3, SetSound
  <2>4. CASE h \notin spoiled
    <3>1. /\ Good(Cat(strs[h], t))
          /\ HasText(Cat(strs[h], t), CText(strs[h].buf) \o t)
      BY <1>1, <1>2, <2>1, <2>2, <2>4, CatKeepsGood, AppendedText
    <3>2. Cat(strs[h], t).len = Strlen(Cat(strs[h], t).buf)
      BY <1>3, <3>1
    <3> QED BY <2>1, <2>2, <3>2, SetSound
  <2> QED BY <2>3, <2>4
<1>10. ASSUME NEW h \in Handles, Clear(h) PROVE LengthsFitTexts'
  <2>1. h \in Live /\ Set(h, Cleared(strs[h])) /\ spoiled' = spoiled \ {h}
    BY <1>10 DEF Clear
  <2>2. Good(Cleared(strs[h])) /\ HasText(Cleared(strs[h]), <<>>)
    BY <1>1, <2>1, ClearedGood, ClearedText
  <2>3. Cleared(strs[h]).len = Strlen(Cleared(strs[h]).buf)
    BY <1>3, <2>2
  <2> QED BY <2>1, <2>3, SetSound
<1>11. ASSUME NEW h \in Handles, Strip(h) PROVE LengthsFitTexts'
  <2>1. PICK n \in HandleLens : Set(h, Stripped(strs[h], n))
    BY <1>11 DEF Strip
  <2>2. spoiled' = spoiled \cup {h}
    BY <1>11 DEF Strip
  <2> QED BY <2>1, <2>2, SetSound
<1>12. ASSUME NEW h \in Handles, ChangeCase(h) PROVE LengthsFitTexts'
  <2>1. PICK f \in {Upper, Lower} : Set(h, Mapped(strs[h], f))
    BY <1>12 DEF ChangeCase
  <2>2. h \in Live /\ f \in [Chars -> Chars] /\ spoiled' = spoiled
    BY <1>12, StringAssumption DEF ChangeCase
  <2>3. CASE h \in spoiled
    BY <2>1, <2>2, <2>3, SetSound
  <2>4. CASE h \notin spoiled
    <3>1. PICK t : Good(Mapped(strs[h], f)) /\ HasText(Mapped(strs[h], f), t)
      BY <1>1, <1>2, <2>2, <2>4, MappedGood, MappedText
    <3>2. Mapped(strs[h], f).len = Strlen(Mapped(strs[h], f).buf)
      BY <1>3, <3>1
    <3> QED BY <2>1, <2>2, <3>2, SetSound
  <2> QED BY <2>3, <2>4
<1>13. ASSUME NEW h \in Handles, Compare(h) PROVE LengthsFitTexts'
  BY <1>5, <1>13 DEF Compare
<1>14. ASSUME NEW g \in Handles, NEW h \in Handles, Copy(g, h)
       PROVE  LengthsFitTexts'
  <2>1. g \in Live /\ Set(h, CopyOf(strs[g])) /\ spoiled' = spoiled
    BY <1>14 DEF Copy
  <2>2. Good(CopyOf(strs[g])) /\ HasText(CopyOf(strs[g]), CText(strs[g].buf))
    BY <1>1, <2>1, CopyIsGood, CopyText
  <2>3. CopyOf(strs[g]).len = Strlen(CopyOf(strs[g]).buf)
    BY <1>3, <2>2
  <2> QED BY <2>1, <2>3, SetSound
<1>15. ASSUME NEW g \in Handles, NEW h \in Handles, FileName(g, h)
       PROVE  LengthsFitTexts'
  <2> DEFINE c == CopyOf(strs[g])
  <2>1. g \in Live /\ spoiled' = spoiled
    BY <1>15 DEF FileName
  <2>2. PICK t \in Extensions : Fits(Need(c, t)) /\ Set(h, Cat(c, t))
    BY <1>15 DEF FileName
  <2>3. Good(c) /\ HasText(c, CText(strs[g].buf))
    BY <1>1, <2>1, CopyIsGood, CopyText
  <2>4. t \in Seq(Chars)
    BY StringAssumption
  <2> HIDE DEF c
  <2>5. Good(Cat(c, t)) /\ HasText(Cat(c, t), CText(strs[g].buf) \o t)
    BY <2>2, <2>3, <2>4, CatKeepsGood, AppendedText
  <2>6. Cat(c, t).len = Strlen(Cat(c, t).buf)
    BY <1>3, <2>5
  <2> QED BY <2>1, <2>2, <2>6, SetSound
<1>16. ASSUME UNCHANGED vars PROVE LengthsFitTexts'
  BY <1>5, <1>16 DEF vars
<1>17. CASE Next
  BY <1>4, <1>6, <1>7, <1>8, <1>9, <1>10, <1>11, <1>12, <1>13, <1>14, <1>15,
     <1>16, <1>17
  DEF Next, NoFileName, OutOfMemory, Exited
<1> QED BY <1>16, <1>17

(* Every string but a stripped one and one given a NUL has len = strlen.     *)
THEOREM LengthsStayRight == Spec => []LengthsFitTexts
<1>1. Init => LengthsFitTexts
  BY DEF Init, LengthsFitTexts, Live
<1>2. LengthsFitTexts /\ IInv /\ [Next]_vars => LengthsFitTexts'
  BY StepSound
<1> QED BY <1>1, <1>2, StringsStayGood, PTL DEF Spec
-----------------------------------------------------------------------------
(* strlen is the place of the first NUL.                                   *)
LEMMA StrlenIs ==
  ASSUME NEW c \in Nat, NEW b, DOMAIN b = 0 .. c - 1, NEW k \in 0 .. c - 1,
         b[k] = NUL, \A j \in 0 .. k - 1 : b[j] # NUL
  PROVE  Strlen(b) = k
<1> DEFINE T == {i \in DOMAIN b : b[i] = NUL}
<1>1. k \in T /\ T \subseteq Nat
  OBVIOUS
<1>2. \A y \in T : k <= y
  OBVIOUS
<1>3. Strlen(b) = Least(T)
  BY DEF Strlen
<1> HIDE DEF T
<1>4. Least(T) \in T /\ \A y \in T : Least(T) <= y
  BY <1>1, LeastIsLeast
<1>5. Least(T) \in Nat /\ k \in Nat /\ Least(T) <= k /\ k <= Least(T)
  BY <1>1, <1>2, <1>4
<1> QED BY <1>3, <1>5

(* A text without the spaces at its ends, by the place of its first and of *)
(* its last other character.                                               *)
LEMMA TrimmedIs ==
  ASSUME NEW t \in Seq(Chars)
  PROVE  /\ (\A i \in 1 .. Len(t) : t[i] \in Spaces) => Abstract!Trimmed(t) = <<>>
         /\ \A x, y \in 1 .. Len(t) :
              /\ t[x] \notin Spaces /\ t[y] \notin Spaces
              /\ \A i \in 1 .. Len(t) : t[i] \notin Spaces => x <= i /\ i <= y
              => Abstract!Trimmed(t) = SubSeq(t, x, y)
<1> DEFINE kept == {i \in DOMAIN t : t[i] \notin Spaces}
<1>1. Abstract!Trimmed(t) =
        IF kept = {} THEN <<>> ELSE SubSeq(t, Abstract!Min(kept), Abstract!Max(kept))
  BY DEF Abstract!Trimmed
<1>2. DOMAIN t = 1 .. Len(t) /\ Len(t) \in Nat
  OBVIOUS
<1>3. ASSUME NEW x \in 1 .. Len(t), NEW y \in 1 .. Len(t),
             t[x] \notin Spaces, t[y] \notin Spaces,
             \A i \in 1 .. Len(t) : t[i] \notin Spaces => x <= i /\ i <= y
      PROVE  Abstract!Trimmed(t) = SubSeq(t, x, y)
  <2>1. /\ x \in kept /\ y \in kept /\ kept \subseteq Nat /\ x \in Nat /\ y \in Nat
        /\ \A i \in kept : x <= i /\ i <= y
    BY <1>2, <1>3
  <2> HIDE DEF kept
  <2>2. Abstract!Min(kept) = x
    <3> DEFINE m == Abstract!Min(kept)
    <3>1. m \in kept /\ \A i \in kept : m <= i
      BY <2>1 DEF Abstract!Min
    <3> HIDE DEF m
    <3>2. m \in Nat /\ m <= x /\ x <= m
      BY <2>1, <3>1
    <3> QED BY <2>1, <3>2 DEF m
  <2>3. Abstract!Max(kept) = y
    <3> DEFINE m == Abstract!Max(kept)
    <3>1. m \in kept /\ \A i \in kept : m >= i
      BY <2>1 DEF Abstract!Max
    <3> HIDE DEF m
    <3>2. m \in Nat /\ m <= y /\ y <= m
      BY <2>1, <3>1
    <3> QED BY <2>1, <3>2 DEF m
  <2> QED BY <1>1, <2>1, <2>2, <2>3
<1>4. ASSUME \A i \in 1 .. Len(t) : t[i] \in Spaces
      PROVE  Abstract!Trimmed(t) = <<>>
  BY <1>1, <1>2, <1>4
<1> QED BY <1>3, <1>4

(* strip_str moves the text over its leading spaces.                       *)
LEMMA LeadIsCut ==
  ASSUME NEW s, Good(s), NEW t, HasText(s, t)
  PROVE  \E lead \in 0 .. Len(t) :
           /\ \A i \in 1 .. lead : t[i] \in Spaces
           /\ lead < Len(t) => t[lead + 1] \notin Spaces
           /\ DOMAIN WithoutLead(s.buf) = 0 .. s.cap - 1
           /\ \A j \in 0 .. Len(t) - lead - 1 : WithoutLead(s.buf)[j] = t[lead + j + 1]
           /\ WithoutLead(s.buf)[Len(t) - lead] = NUL
           /\ Strlen(WithoutLead(s.buf)) = Len(t) - lead
<1> DEFINE k == Strlen(s.buf)
           T == {i \in 0 .. k : s.buf[i] \notin Spaces}
           lead == Least(T)
           moved == [i \in 1 .. k - lead + 1 |-> s.buf[lead + i - 1]]
           b == Store(s.buf, 0, moved)
           a == WithoutLead(s.buf)
<1>1. /\ s.cap \in Nat /\ s.buf \in [0 .. s.cap - 1 -> Byte]
      /\ k \in Nat /\ k < s.cap
  BY GoodParts, StrlenIsWritten
<1>2. /\ Len(t) = k /\ t \in Seq(Chars) /\ s.buf[k] = NUL
      /\ \A i \in 1 .. k : s.buf[i - 1] = t[i]
  <2>1. Len(t) = k
    BY TextIsSeen
  <2> HIDE DEF k
  <2> QED BY <2>1 DEF HasText
<1>3. NUL \notin Spaces /\ NUL \notin Chars
  BY StringAssumption
<1>4. a = IF lead = 0 THEN s.buf ELSE b
  BY DEF WithoutLead
<1> HIDE DEF k, a
<1>5. lead \in T /\ \A y \in T : lead <= y
  <2>1. k \in T /\ T \subseteq Nat
    BY <1>1, <1>2, <1>3
  <2> HIDE DEF T
  <2> QED BY <2>1, LeastIsLeast
<1>6. /\ lead \in 0 .. k /\ s.buf[lead] \notin Spaces
      /\ \A j \in 0 .. lead - 1 : s.buf[j] \in Spaces
  <2>1. lead \in 0 .. k /\ s.buf[lead] \notin Spaces
    BY <1>5
  <2> HIDE DEF lead
  <2>2. ASSUME NEW j \in 0 .. lead - 1 PROVE s.buf[j] \in Spaces
    <3>1. j \in 0 .. k /\ ~(lead <= j)
      BY <1>1, <2>1
    <3> QED BY <1>5, <3>1
  <2> QED BY <2>1, <2>2
<1> HIDE DEF lead
<1>7. \A j \in 0 .. k - lead : a[j] = s.buf[lead + j]
  <2>1. CASE lead = 0
    BY <1>1, <1>4, <1>6, <2>1
  <2>2. CASE lead # 0
    <3>1. /\ moved \in Seq(Byte) /\ Len(moved) = k - lead + 1
          /\ \A i \in 1 .. k - lead + 1 : moved[i] = s.buf[lead + i - 1]
      <4>1. k - lead + 1 \in Nat
        BY <1>1, <1>6
      <4>2. \A i \in 1 .. k - lead + 1 : lead + i - 1 \in 0 .. s.cap - 1
        BY <1>1, <1>6
      <4>3. moved \in [1 .. k - lead + 1 -> Byte]
        BY <1>1, <4>2
      <4> QED BY <4>1, <4>3
    <3> HIDE DEF moved
    <3>2. 0 + Len(moved) <= s.cap /\ 0 \in Nat
      BY <1>1, <1>6, <3>1
    <3>3. \A i \in 0 .. s.cap - 1 :
            b[i] = IF i \in 0 .. 0 + Len(moved) - 1 THEN moved[i - 0 + 1]
                                                    ELSE s.buf[i]
      BY <1>1, <3>1, <3>2, StoreInside, ZenonT(30)
    <3> HIDE DEF b
    <3>4. ASSUME NEW j \in 0 .. k - lead
          PROVE  b[j] = s.buf[lead + j]
      <4>1. /\ j \in 0 .. s.cap - 1 /\ j \in 0 .. 0 + Len(moved) - 1
            /\ j - 0 + 1 \in 1 .. k - lead + 1 /\ lead + (j - 0 + 1) - 1 = lead + j
        BY <1>1, <1>6, <3>1
      <4> QED BY <3>1, <3>3, <4>1
    <3> QED BY <1>4, <2>2, <3>4
  <2> QED BY <2>1, <2>2
<1>8. DOMAIN a = 0 .. s.cap - 1
  <2>1. PICK m \in InitialCap - 1 .. s.cap - 1 : WrittenUpTo(s, m)
    BY DEF Good
  <2>2. a \in [0 .. s.cap - 1 -> Byte]
    BY <2>1, WithoutLeadIsWritten DEF a
  <2> QED BY <2>2
<1>9. ASSUME NEW j \in 0 .. k - lead - 1
      PROVE  a[j] = t[lead + j + 1] /\ a[j] # NUL
  <2>1. /\ j \in 0 .. k - lead /\ lead + j + 1 \in 1 .. k
        /\ (lead + j + 1) - 1 = lead + j
    BY <1>1, <1>6
  <2>2. a[j] = s.buf[(lead + j + 1) - 1]
    BY <1>7, <2>1
  <2>3. t[lead + j + 1] \in Chars
    BY <1>2, <2>1
  <2> QED BY <1>2, <1>3, <2>1, <2>2, <2>3
<1>10. a[k - lead] = NUL
  <2>1. k - lead \in 0 .. k - lead /\ lead + (k - lead) = k
    BY <1>1, <1>6
  <2> QED BY <1>2, <1>7, <2>1
<1>11. Strlen(a) = k - lead
  <2>1. k - lead \in 0 .. s.cap - 1
    BY <1>1, <1>6
  <2> QED BY <1>1, <1>8, <1>9, <1>10, <2>1, StrlenIs
<1>12. ASSUME NEW i \in 1 .. lead
       PROVE  t[i] \in Spaces
  <2>1. i \in 1 .. k /\ i - 1 \in 0 .. lead - 1
    BY <1>1, <1>6
  <2> QED BY <1>2, <1>6, <2>1
<1>13. ASSUME lead < k
       PROVE  t[lead + 1] \notin Spaces
  <2>1. lead + 1 \in 1 .. k /\ (lead + 1) - 1 = lead
    BY <1>1, <1>6, <1>13
  <2> QED BY <1>2, <1>6, <2>1
<1> QED BY <1>2, <1>6, <1>8, <1>9, <1>10, <1>11, <1>12, <1>13 DEF a

(* strip_str removes the spaces at both ends.                              *)
LEMMA StrippedText ==
  ASSUME NEW s, Good(s), NEW t, HasText(s, t), NEW n \in HandleLens
  PROVE  CText(Stripped(s, n).buf) = Abstract!Trimmed(t)
<1> DEFINE a == WithoutLead(s.buf)
           b == WithoutTrail(a)
           k == Len(t)
<1>1. s.cap \in Nat /\ k \in Nat /\ k < s.cap /\ t \in Seq(Chars)
  BY GoodParts DEF HasText
<1>2. PICK lead \in 0 .. k :
         /\ \A i \in 1 .. lead : t[i] \in Spaces
         /\ lead < k => t[lead + 1] \notin Spaces
         /\ DOMAIN a = 0 .. s.cap - 1
         /\ \A j \in 0 .. k - lead - 1 : a[j] = t[lead + j + 1]
         /\ a[k - lead] = NUL
         /\ Strlen(a) = k - lead
  BY LeadIsCut
<1> HIDE DEF a
<1>3. /\ DOMAIN b = 0 .. s.cap - 1
      /\ \A i \in 0 .. s.cap - 1 :
           b[i] = IF /\ i > 0 /\ i < k - lead
                     /\ \A j \in i .. k - lead - 1 : a[j] \in Spaces
                  THEN NUL ELSE a[i]
  BY <1>2 DEF WithoutTrail
<1>4. Stripped(s, n).buf = b
  <2>1. s \in [buf : {s.buf}, len : {s.len}, cap : {s.cap}]
    BY GoodParts DEF Shape
  <2>2. Stripped(s, n) = [s EXCEPT !.buf = b, !.len = n]
    BY DEF Stripped, a
  <2> HIDE DEF b
  <2>3. Stripped(s, n) = [buf |-> b, len |-> n, cap |-> s.cap]
    BY <2>1, <2>2, FieldsChanged
  <2> QED BY <2>3
<1> HIDE DEF b, k
<1>5. NUL \notin Chars
  BY StringAssumption
<1>6. CASE lead = k
  <2>1. b[0] = NUL
    BY <1>1, <1>2, <1>3, <1>6
  <2>2. Strlen(b) = 0
    <3>1. 0 \in 0 .. s.cap - 1 /\ \A j \in 0 .. 0 - 1 : FALSE
      BY <1>1
    <3> QED BY <1>1, <1>3, <2>1, <3>1, StrlenIs
  <2>3. CText(b) = <<>>
    BY <2>2 DEF CText
  <2>4. Abstract!Trimmed(t) = <<>>
    BY <1>1, <1>2, <1>6, TrimmedIs DEF k
  <2> QED BY <1>4, <2>3, <2>4
<1>7. CASE lead < k
  <2> DEFINE U == {x \in Nat : x < k - lead /\ \A j \in x + 1 .. k - lead - 1 : a[j] \in Spaces}
             last == Least(U)
  <2>1. k - lead - 1 \in U /\ U \subseteq Nat
    BY <1>1, <1>2, <1>7
  <2>2. last \in U /\ \A y \in U : last <= y
    <3> HIDE DEF U
    <3> QED BY <2>1, LeastIsLeast
  <2>3. /\ last \in Nat /\ last < k - lead
        /\ \A j \in last + 1 .. k - lead - 1 : a[j] \in Spaces
    BY <2>2
  <2>4. a[last] \notin Spaces
    <3>1. CASE last = 0
      <4>1. 0 \in 0 .. k - lead - 1 /\ lead + 0 + 1 = lead + 1
        BY <1>1, <1>2, <1>7
      <4>2. a[0] = t[lead + 1]
        BY <1>2, <4>1
      <4> HIDE DEF last
      <4> QED BY <1>2, <1>7, <3>1, <4>2
    <3>2. CASE last # 0
      <4> SUFFICES ASSUME a[last] \in Spaces PROVE FALSE
        OBVIOUS
      <4> HIDE DEF last
      <4>1. last - 1 \in Nat /\ last - 1 < k - lead /\ ~(last <= last - 1)
        BY <1>1, <1>2, <2>3, <3>2
      <4>2. \A j \in (last - 1) + 1 .. k - lead - 1 : a[j] \in Spaces
        <5> SUFFICES ASSUME NEW j \in (last - 1) + 1 .. k - lead - 1
                     PROVE  a[j] \in Spaces
          OBVIOUS
        <5>1. j = last \/ j \in last + 1 .. k - lead - 1
          BY <1>1, <1>2, <2>3
        <5> QED BY <2>3, <5>1
      <4>3. last - 1 \in U
        BY <4>1, <4>2
      <4> QED BY <2>2, <4>1, <4>3
    <3> QED BY <3>1, <3>2
  <2> HIDE DEF U, last
  <2>5. ASSUME NEW j \in 0 .. last
        PROVE  b[j] = t[lead + j + 1] /\ b[j] # NUL
    <3>1. /\ j \in 0 .. s.cap - 1 /\ j \in 0 .. k - lead - 1 /\ lead + j + 1 \in 1 .. k
          /\ last \in j .. k - lead - 1
      BY <1>1, <1>2, <2>3
    <3>2. b[j] = a[j]
      BY <1>3, <2>4, <3>1
    <3>3. t[lead + j + 1] \in Chars
      BY <1>1, <3>1 DEF k
    <3> QED BY <1>2, <1>5, <3>1, <3>2, <3>3
  <2>6. b[last + 1] = NUL /\ last + 1 \in 0 .. s.cap - 1
    <3>1. last + 1 \in 0 .. s.cap - 1 /\ last + 1 > 0
      BY <1>1, <1>2, <2>3
    <3>2. CASE last + 1 < k - lead
      BY <1>3, <2>3, <3>1, <3>2
    <3>3. CASE ~(last + 1 < k - lead)
      <4>1. last + 1 = k - lead
        BY <1>1, <1>2, <2>3, <3>3
      <4> QED BY <1>2, <1>3, <3>1, <4>1
    <3> QED BY <3>1, <3>2, <3>3
  <2>7. Strlen(b) = last + 1
    <3>1. \A j \in 0 .. (last + 1) - 1 : b[j] # NUL
      <4> SUFFICES ASSUME NEW j \in 0 .. (last + 1) - 1 PROVE b[j] # NUL
        OBVIOUS
      <4>1. j \in 0 .. last
        BY <2>3
      <4> QED BY <2>5, <4>1
    <3> QED BY <1>1, <1>3, <2>6, <3>1, StrlenIs
  <2>8. CText(b) = [i \in 1 .. last + 1 |-> t[lead + i]]
    <3>1. CText(b) = [i \in 1 .. last + 1 |-> b[i - 1]]
      BY <2>7 DEF CText
    <3>2. ASSUME NEW i \in 1 .. last + 1
          PROVE  b[i - 1] = t[lead + i]
      <4>1. i - 1 \in 0 .. last /\ lead + (i - 1) + 1 = lead + i
        BY <1>1, <1>2, <2>3
      <4>2. b[i - 1] = t[lead + (i - 1) + 1]
        BY <2>5, <4>1
      <4> QED BY <4>1, <4>2
    <3> QED BY <3>1, <3>2
  <2> DEFINE x == lead + 1
             y == lead + last + 1
  <2>9. x \in 1 .. k /\ y \in 1 .. k /\ x <= y
    BY <1>1, <1>2, <1>7, <2>3
  <2>10. t[x] \notin Spaces /\ t[y] \notin Spaces
    <3>1. last \in 0 .. k - lead - 1
      BY <1>1, <1>2, <2>3
    <3> QED BY <1>2, <1>7, <2>4, <3>1
  <2>11. ASSUME NEW i \in 1 .. k, t[i] \notin Spaces
         PROVE  x <= i /\ i <= y
    <3>1. ~(i <= lead)
      BY <1>1, <1>2, <2>11
    <3>2. ~(y < i)
      <4> SUFFICES ASSUME y < i PROVE FALSE
        OBVIOUS
      <4>1. /\ i - lead - 1 \in last + 1 .. k - lead - 1
            /\ i - lead - 1 \in 0 .. k - lead - 1
            /\ lead + (i - lead - 1) + 1 = i
        BY <1>1, <1>2, <2>3
      <4>2. a[i - lead - 1] = t[lead + (i - lead - 1) + 1]
        BY <1>2, <4>1
      <4> QED BY <2>3, <2>11, <4>1, <4>2
    <3> QED BY <1>1, <1>2, <2>3, <3>1, <3>2
  <2>12. Abstract!Trimmed(t) = SubSeq(t, x, y)
    <3> HIDE DEF x, y
    <3> QED BY <1>1, <2>9, <2>10, <2>11, TrimmedIs DEF k
  <2>13. SubSeq(t, x, y) = [i \in 1 .. last + 1 |-> t[lead + i]]
    <3>1. SubSeq(t, x, y) = [i \in 1 .. (1 + y) - x |-> t[i + x - 1]]
      BY <1>1, <2>9 DEF k
    <3>2. (1 + y) - x = last + 1
      BY <1>1, <1>2, <2>3
    <3>3. \A i \in 1 .. last + 1 : i + x - 1 = lead + i
      BY <1>1, <1>2, <2>3
    <3> HIDE DEF x, y
    <3>4. SubSeq(t, x, y) = [i \in 1 .. last + 1 |-> t[i + x - 1]]
      BY <3>1, <3>2
    <3> QED BY <3>3, <3>4
  <2> QED BY <1>4, <2>8, <2>12, <2>13
<1> QED BY <1>1, <1>2, <1>6, <1>7
-----------------------------------------------------------------------------
(* Replacing one string replaces one text.                                 *)
LEMMA SetGivesText ==
  ASSUME NEW h, NEW s, Set(h, s)
  PROVE  Abstract!Give(h, CText(s.buf)) /\ Texts'[h] = CText(s.buf)
<1>1. strs' = [g \in Live \cup {h} |-> IF g = h THEN s ELSE strs[g]]
  BY DEF Set
<1>2. Texts' = [g \in DOMAIN strs' |-> CText(strs'[g].buf)]
  BY DEF Texts, Live, CText, Strlen, Least
<1>3. Texts = [g \in Live |-> CText(strs[g].buf)]
  BY DEF Texts
<1>4. Texts' = [g \in DOMAIN Texts \cup {h} |->
                  IF g = h THEN CText(s.buf) ELSE Texts[g]]
  BY <1>1, <1>2, <1>3
<1> QED BY <1>4 DEF Abstract!Give

(* comp_str compares with the text, not with what lies behind its NUL.     *)
LEMMA ComparesText ==
  ASSUME NEW s, Good(s), NEW t, HasText(s, t), NEW text \in Seq(Chars)
  PROVE  SameTo(s.buf, text) <=> Abstract!IsPrefix(text, t)
<1> DEFINE n == Len(text)
           k == Len(t)
<1>1. /\ n \in Nat /\ k \in Nat /\ t \in Seq(Chars) /\ s.buf[k] = NUL
      /\ \A i \in 1 .. k : s.buf[i - 1] = t[i]
      /\ DOMAIN text = 1 .. n
  BY DEF HasText
<1>2. NUL \notin Chars
  BY StringAssumption
<1>3. SubSeq(text, 1, n) = text
  <2>1. SubSeq(text, 1, n) = [i \in 1 .. n |-> text[i]]
    BY <1>1
  <2> QED BY <1>1, <2>1
<1>4. ASSUME SameTo(s.buf, text)
      PROVE  Abstract!IsPrefix(text, t)
  <2>1. \A i \in 1 .. n : s.buf[i - 1] = text[i]
    BY <1>1, <1>4 DEF SameTo
  <2> HIDE DEF n, k
  <2>2. n <= k
    <3> SUFFICES ASSUME ~(n <= k) PROVE FALSE
      OBVIOUS
    <3>1. k + 1 \in 1 .. n /\ (k + 1) - 1 = k
      BY <1>1
    <3>2. text[k + 1] \in Chars
      BY <1>1, <3>1 DEF n
    <3> QED BY <1>1, <1>2, <2>1, <3>1, <3>2
  <2>3. \A i \in 1 .. n : text[i] = t[i]
    <3> SUFFICES ASSUME NEW i \in 1 .. n PROVE text[i] = t[i]
      OBVIOUS
    <3>1. i \in 1 .. k
      BY <1>1, <2>2
    <3> QED BY <1>1, <2>1, <3>1
  <2>4. SubSeq(t, 1, n) = [i \in 1 .. n |-> t[i]]
    BY <1>1, <2>2 DEF k
  <2>5. text = [i \in 1 .. n |-> text[i]]
    BY <1>1
  <2> QED BY <1>3, <2>2, <2>3, <2>4, <2>5 DEF Abstract!IsPrefix, n, k
<1>5. ASSUME Abstract!IsPrefix(text, t)
      PROVE  SameTo(s.buf, text)
  <2>1. n <= k /\ text = SubSeq(t, 1, n)
    BY <1>3, <1>5 DEF Abstract!IsPrefix
  <2>2. SubSeq(t, 1, n) = [i \in 1 .. n |-> t[i]]
    BY <1>1, <2>1
  <2> HIDE DEF n, k
  <2>3. ASSUME NEW i \in 1 .. n
        PROVE  s.buf[i - 1] = text[i]
    <3>1. i \in 1 .. k
      BY <1>1, <2>1
    <3>2. text[i] = t[i]
      BY <2>1, <2>2
    <3> QED BY <1>1, <3>1, <3>2
  <2> QED BY <1>1, <2>3 DEF SameTo
<1> QED BY <1>4, <1>5

(* While all lengths are right each step is one of the texts.              *)
LEMMA StepsOfTexts ==
  ASSUME IInv, [Next]_vars, \A h \in Live : Sound(h), ~AppendsNul, alive'
  PROVE  [Abstract!Next]_<<Texts, ret>>
<1>1. \A h \in Live : Good(strs[h]) /\ HasText(strs[h], Texts[h])
                    /\ Texts[h] = CText(strs[h].buf) /\ strs[h].len = Len(Texts[h])
  BY RightLengthHasText DEF IInv, Live, Sound, Texts, HasText
<1>2. DOMAIN Texts = Live
  BY DEF Texts
<1>3. ASSUME NEW s, Good(s), NEW t, HasText(s, t)
      PROVE  CText(s.buf) = t /\ s.len = Len(t)
  BY <1>3, TextIsSeen
<1>4. ASSUME strs' = strs
      PROVE  Texts' = Texts
  BY <1>4 DEF Texts, Live, CText, Strlen, Least
<1>5. ASSUME UNCHANGED vars PROVE UNCHANGED <<Texts, ret>>
  BY <1>4, <1>5 DEF vars
<1>6. ASSUME NEW h \in Handles, Create(h) PROVE Abstract!Next
  <2>1. PICK t \in Literals :
          Fits(NeedInside(NewString, t)) /\ Set(h, CreateFrom(t))
    BY <1>6 DEF Create
  <2>2. t \in Seq(Chars)
    BY StringAssumption
  <2>3. CText(CreateFrom(t).buf) = t
    BY <1>3, <2>1, <2>2, CreatedGood, CreatedText
  <2>4. Abstract!Give(h, t)
    BY <2>1, <2>3, SetGivesText
  <2>5. h \in Handles \ DOMAIN Texts /\ ret' = 0
    BY <1>2, <1>6 DEF Create, Free
  <2> QED BY <2>4, <2>5 DEF Abstract!Next, Abstract!Create
<1>7. ASSUME NEW h \in Handles, Destroy(h) PROVE Abstract!Next
  <2>1. strs' = [g \in Live \ {h} |-> strs[g]] /\ ret' = 0 /\ h \in Live
    BY <1>7 DEF Destroy
  <2>2. Texts' = [g \in DOMAIN strs' |-> CText(strs'[g].buf)]
    BY DEF Texts, Live, CText, Strlen, Least
  <2>3. Texts' = [g \in DOMAIN Texts \ {h} |-> Texts[g]]
    BY <1>1, <1>2, <2>1, <2>2
  <2> QED BY <1>2, <2>1, <2>3 DEF Abstract!Next, Abstract!Destroy
<1>8. ASSUME NEW h \in Handles, CatOneChar(h) PROVE Abstract!Next
  <2>1. PICK c \in Chars \cup {NUL} : Set(h, CatChar(strs[h], c))
    BY <1>8 DEF CatOneChar
  <2>2. h \in Live /\ Fits(strs[h].len + 2) /\ ret' = strs'[h].len
    BY <1>8 DEF CatOneChar
  <2>3. h \in DOMAIN strs' /\ strs'[h] = CatChar(strs[h], c)
    BY <2>1 DEF Set
  <2>4. /\ Good(CatChar(strs[h], c))
        /\ CatChar(strs[h], c).len = strs[h].len + 1
        /\ CatChar(strs[h], c).buf[strs[h].len] = c
    BY <1>1, <2>2, CatCharGood, CatCharText
  <2>5. c # NUL
    BY <2>2, <2>3, <2>4 DEF AppendsNul
  <2>6. HasText(CatChar(strs[h], c), Texts[h] \o <<c>>)
    BY <1>1, <2>2, <2>5, CatCharText
  <2>7. /\ CText(CatChar(strs[h], c).buf) = Texts[h] \o <<c>>
        /\ CatChar(strs[h], c).len = Len(Texts[h] \o <<c>>)
    BY <1>3, <2>4, <2>6
  <2>8. Abstract!Give(h, Texts[h] \o <<c>>) /\ Texts'[h] = Texts[h] \o <<c>>
    BY <2>1, <2>7, SetGivesText
  <2>9. ret' = Len(Texts'[h])
    BY <2>2, <2>3, <2>7, <2>8
  <2>10. <<c>> \in {<<x>> : x \in Chars}
    BY <2>5
  <2> QED BY <1>2, <2>2, <2>8, <2>9, <2>10 DEF Abstract!Next, Abstract!Extend
<1>9. ASSUME NEW h \in Handles, CatText(h) PROVE Abstract!Next
  <2>1. PICK t \in Literals : Fits(Need(strs[h], t)) /\ Set(h, Cat(strs[h], t))
    BY <1>9 DEF CatText
  <2>2. h \in Live /\ t \in Seq(Chars) /\ ret' = strs'[h].len
    BY <1>9, StringAssumption DEF CatText
  <2>3. strs'[h] = Cat(strs[h], t)
    BY <2>1 DEF Set
  <2>4. Good(Cat(strs[h], t)) /\ HasText(Cat(strs[h], t), Texts[h] \o t)
    BY <1>1, <2>1, <2>2, CatKeepsGood, AppendedText
  <2>5. /\ CText(Cat(strs[h], t).buf) = Texts[h] \o t
        /\ Cat(strs[h], t).len = Len(Texts[h] \o t)
    BY <1>3, <2>4
  <2>6. Abstract!Give(h, Texts[h] \o t) /\ Texts'[h] = Texts[h] \o t
    BY <2>1, <2>5, SetGivesText
  <2>7. ret' = Len(Texts'[h])
    BY <2>2, <2>3, <2>5, <2>6
  <2> QED BY <1>2, <2>2, <2>6, <2>7 DEF Abstract!Next, Abstract!Extend
<1>10. ASSUME NEW h \in Handles, Clear(h) PROVE Abstract!Next
  <2>1. h \in Live /\ Set(h, Cleared(strs[h])) /\ ret' = 0
    BY <1>10 DEF Clear
  <2>2. CText(Cleared(strs[h]).buf) = <<>>
    BY <1>1, <1>3, <2>1, ClearedGood, ClearedText
  <2>3. Abstract!Give(h, <<>>)
    BY <2>1, <2>2, SetGivesText
  <2> QED BY <1>2, <2>1, <2>3 DEF Abstract!Next, Abstract!Clear
<1>11. ASSUME NEW h \in Handles, Strip(h) PROVE Abstract!Next
  <2>1. PICK n \in HandleLens : Set(h, Stripped(strs[h], n)) /\ ret' = n
    BY <1>11 DEF Strip
  <2>2. h \in Live
    BY <1>11 DEF Strip
  <2>3. CText(Stripped(strs[h], n).buf) = Abstract!Trimmed(Texts[h])
    BY <1>1, <2>2, StrippedText
  <2>4. Abstract!Give(h, Abstract!Trimmed(Texts[h]))
    BY <2>1, <2>3, SetGivesText
  <2>5. n \in Nat
    <3>1. n \in 0 .. InitialCap - 2 /\ InitialCap \in Nat
      BY StringAssumption
    <3> QED BY <3>1
  <2> QED BY <1>2, <2>1, <2>2, <2>4, <2>5 DEF Abstract!Next, Abstract!Strip
<1>12. ASSUME NEW h \in Handles, ChangeCase(h) PROVE Abstract!Next
  <2>1. PICK f \in {Upper, Lower} : Set(h, Mapped(strs[h], f))
    BY <1>12 DEF ChangeCase
  <2>2. h \in Live /\ f \in [Chars -> Chars] /\ ret' = 0
    BY <1>12, StringAssumption DEF ChangeCase
  <2> DEFINE t == Texts[h]
             ft == [i \in DOMAIN t |-> f[t[i]]]
  <2>3. Good(Mapped(strs[h], f)) /\ HasText(Mapped(strs[h], f), ft)
    <3>1. Good(strs[h]) /\ t = CText(strs[h].buf) /\ HasText(strs[h], t)
      BY <1>1, <2>2
    <3> HIDE DEF t
    <3> QED BY <2>2, <3>1, MappedGood, MappedText
  <2> HIDE DEF t
  <2>4. CText(Mapped(strs[h], f).buf) = ft
    BY <1>3, <2>3
  <2>5. Abstract!Give(h, Abstract!Mapped(Texts[h], f))
    BY <2>1, <2>4, SetGivesText DEF Abstract!Mapped, t
  <2> QED BY <1>2, <2>2, <2>5 DEF Abstract!Next, Abstract!ChangeCase
<1>13. ASSUME NEW h \in Handles, Compare(h) PROVE Abstract!Next
  <2>1. PICK t \in Literals : ret' = IF SameTo(strs[h].buf, t) THEN 0 ELSE 1
    BY <1>13 DEF Compare
  <2>2. h \in Live /\ t \in Seq(Chars) /\ strs' = strs
    BY <1>13, StringAssumption DEF Compare
  <2>3. SameTo(strs[h].buf, t) <=> Abstract!IsPrefix(t, Texts[h])
    BY <1>1, <2>2, ComparesText
  <2> QED BY <1>2, <1>4, <2>1, <2>2, <2>3 DEF Abstract!Next, Abstract!Compare
<1>14. ASSUME NEW g \in Handles, NEW h \in Handles, Copy(g, h)
       PROVE  Abstract!Next
  <2>1. /\ g \in Live /\ h \in Handles \ DOMAIN Texts /\ ret' = 0
        /\ Set(h, CopyOf(strs[g]))
    BY <1>2, <1>14 DEF Copy, Free
  <2>2. CText(CopyOf(strs[g]).buf) = Texts[g]
    BY <1>1, <1>3, <2>1, CopyIsGood, CopyText
  <2>3. Abstract!Give(h, Texts[g])
    BY <2>1, <2>2, SetGivesText
  <2> QED BY <1>2, <2>1, <2>3 DEF Abstract!Next, Abstract!Copy
<1>15. ASSUME NEW g \in Handles, NEW h \in Handles, FileName(g, h)
       PROVE  Abstract!Next
  <2> DEFINE c == CopyOf(strs[g])
  <2>1. /\ g \in Live /\ h \in Handles \ DOMAIN Texts /\ c.len > 0
        /\ ret' = strs'[h].len
    BY <1>2, <1>15 DEF FileName, Free
  <2>2. PICK t \in Extensions : Fits(Need(c, t)) /\ Set(h, Cat(c, t))
    BY <1>15 DEF FileName
  <2>3. Good(c) /\ HasText(c, Texts[g])
    BY <1>1, <2>1, CopyIsGood, CopyText
  <2>4. t \in Seq(Chars)
    BY StringAssumption
  <2> HIDE DEF c
  <2>5. Good(Cat(c, t)) /\ HasText(Cat(c, t), Texts[g] \o t)
    BY <2>2, <2>3, <2>4, CatKeepsGood, AppendedText
  <2>6. CText(Cat(c, t).buf) = Texts[g] \o t /\ Cat(c, t).len = Len(Texts[g] \o t)
    BY <1>3, <2>5
  <2>7. Abstract!Give(h, Texts[g] \o t) /\ Texts'[h] = Texts[g] \o t
    BY <2>2, <2>6, SetGivesText
  <2>8. strs'[h] = Cat(c, t)
    BY <2>2 DEF Set
  <2>9. ret' = Len(Texts'[h])
    BY <2>1, <2>6, <2>7, <2>8
  <2>10. Texts[g] # <<>>
    BY <2>1, <2>3 DEF HasText
  <2> QED BY <1>2, <2>1, <2>7, <2>9, <2>10 DEF Abstract!Next, Abstract!FileName
<1>16. ~Exit
  BY DEF Exit
<1>17. CASE Next
  BY <1>5, <1>6, <1>7, <1>8, <1>9, <1>10, <1>11, <1>12, <1>13, <1>14, <1>15,
     <1>16, <1>17
  DEF Next, NoFileName, OutOfMemory, Exited
<1> QED BY <1>5, <1>17

(***************************************************************************)
(* While no length is wrong the buffers implement the texts of strs.h:     *)
(* each operation changes one text as it should and returns its length.    *)
(***************************************************************************)
THEOREM ImplementsText == Spec => ImplementsTextWhileSound
<1>1. Init => Abstract!Init
  BY DEF Init, Abstract!Init, Texts, Live
<1>2. IInv /\ [Next]_vars
        => [(\A h \in Live : Sound(h)) /\ ~AppendsNul /\ alive'
              => Abstract!Next]_<<Texts, ret>>
  BY StepsOfTexts
<1> QED BY <1>1, <1>2, StringsStayGood, PTL DEF Spec, ImplementsTextWhileSound
=============================================================================
