-------------------------- MODULE LinkedList_proofs -------------------------
(***************************************************************************)
(* The links of list.c are consistent after any sequence of operations,    *)
(* for any number of elements, and hold a sequence that every operation    *)
(* changes as the abstract list does.                                      *)
(***************************************************************************)
EXTENDS ListProps, FiniteSetTheorems, SequenceTheorems, SequencesExt,
        WellFoundedInduction, TLAPS

LinkTypes ==
  /\ first \in Pointer /\ last \in Pointer /\ crnt \in Pointer
  /\ next \in [Elems -> Pointer] /\ prev \in [Elems -> Pointer]
  /\ live \subseteq Elems

-----------------------------------------------------------------------------
(* Each change of the links keeps them consistent.                         *)

(* append_lst, on an empty list and behind the last element.               *)
LEMMA AppendKeepsLinks ==
  ASSUME LinkTypes, LinksAgree, NEW e \in Free, AppendLinks(e)
  PROVE  LinkTypes' /\ LinksAgree'
<1> USE PointerAssumption DEF LinkTypes, LinksAgree, EndsAgree, NextLinked,
        PrevLinked, Pointer, Free, Created, AppendLinks
<1>1. CASE last # Null
  BY <1>1
<1>2. CASE last = Null
  BY <1>2
<1> QED BY <1>1, <1>2

(* prepend_lst, on an empty list and before the first element.             *)
LEMMA PrependKeepsLinks ==
  ASSUME LinkTypes, LinksAgree, NEW e \in Free, PrependLinks(e)
  PROVE  LinkTypes' /\ LinksAgree'
<1> USE PointerAssumption DEF LinkTypes, LinksAgree, EndsAgree, NextLinked,
        PrevLinked, Pointer, Free, Created, PrependLinks
<1>1. CASE first # Null
  BY <1>1
<1>2. CASE first = Null
  BY <1>2
<1> QED BY <1>1, <1>2

(* insert_lst between two neighbours.                                      *)
LEMMA SpliceKeepsLinks ==
  ASSUME LinkTypes, LinksAgree, NEW e \in Free,
         NEW before \in live, NEW after \in live,
         next[before] = after, Splice(e, before, after)
  PROVE  LinkTypes' /\ LinksAgree'
<1> USE PointerAssumption DEF LinkTypes, LinksAgree, EndsAgree, NextLinked,
        PrevLinked, Pointer, Free, Created, Splice, SplicedPrev
<1>1. prev[after] = before /\ before # e /\ after # e
  OBVIOUS
<1>2. LinkTypes' /\ EndsAgree'
  BY <1>1
<1>3. NextLinked'
  BY <1>1
<1>4. PrevLinked'
  BY <1>1
<1> QED BY <1>2, <1>3, <1>4

(* remove_lst: in each of its four cases.                                  *)
LEMMA RemoveKeepsLinks ==
  ASSUME LinkTypes, LinksAgree, NEW w \in live, RemoveLinks(w)
  PROVE  LinkTypes' /\ LinksAgree'
<1> USE PointerAssumption DEF LinkTypes, LinksAgree, EndsAgree, NextLinked,
        PrevLinked, Pointer, Freed, RemoveLinks, BypassedNext
<1>1. CASE prev[w] = Null /\ next[w] # Null
  BY <1>1
<1>2. CASE next[w] = Null /\ prev[w] # Null
  BY <1>2
<1>3. CASE next[w] = Null /\ prev[w] = Null
  BY <1>3
<1>4. CASE next[w] # Null /\ prev[w] # Null
  BY <1>4
<1> QED BY <1>1, <1>2, <1>3, <1>4

(* pop_lst on a list that is not empty.                                    *)
LEMMA PopKeepsLinks ==
  ASSUME LinkTypes, LinksAgree, first # Null, PopLinks
  PROVE  LinkTypes' /\ LinksAgree'
<1> USE PointerAssumption DEF LinkTypes, LinksAgree, EndsAgree, NextLinked,
        PrevLinked, Pointer, Freed, PopLinks
<1>1. CASE next[first] # Null
  BY <1>1
<1>2. CASE next[first] = Null
  BY <1>2
<1> QED BY <1>1, <1>2

(* insert_lst, which goes to the ends or between two neighbours.           *)
LEMMA InsertKeepsLinks ==
  ASSUME LinkTypes, LinksAgree, NEW w \in live, NEW e \in Free,
         InsertAfterLinks(w, e) \/ InsertBeforeLinks(w, e)
  PROVE  LinkTypes' /\ LinksAgree'
<1>1. CASE InsertAfterLinks(w, e)
  <2>1. CASE next[w] = Null
    BY <1>1, <2>1, AppendKeepsLinks DEF InsertAfterLinks
  <2>2. CASE next[w] # Null
    <3>1. next[w] \in live /\ prev[next[w]] = w
      BY <2>2 DEF LinksAgree, NextLinked
    <3>2. Splice(e, w, next[w])
      BY <1>1, <2>2, <3>1 DEF InsertAfterLinks
    <3> QED BY <3>1, <3>2, SpliceKeepsLinks
  <2> QED BY <2>1, <2>2
<1>2. CASE InsertBeforeLinks(w, e)
  <2>1. CASE prev[w] = Null
    BY <1>2, <2>1, PrependKeepsLinks DEF InsertBeforeLinks
  <2>2. CASE prev[w] # Null
    <3>1. prev[w] \in live /\ next[prev[w]] = w
      BY <2>2 DEF LinksAgree, PrevLinked
    <3>2. Splice(e, prev[w], w)
      BY <1>2, <2>2, <3>1 DEF InsertBeforeLinks
    <3> QED BY <3>1, <3>2, SpliceKeepsLinks
  <2> QED BY <2>1, <2>2
<1> QED BY <1>1, <1>2

(* Every insertion adds its element to live and counts it.                 *)
LEMMA InsertCreates ==
  ASSUME NEW w, NEW e,
         \/ AppendLinks(e) \/ PrependLinks(e)
         \/ InsertAfterLinks(w, e) \/ InsertBeforeLinks(w, e)
  PROVE  Created(e)
BY DEF AppendLinks, PrependLinks, InsertAfterLinks, InsertBeforeLinks, Splice

-----------------------------------------------------------------------------
(* How len follows the number of allocated elements.                       *)

(* create_elem and the increment of len that goes with it.                 *)
LEMMA CreatedCounts ==
  ASSUME IsFiniteSet(live), len = Cardinality(live) + pops, pops \in Nat,
         NEW e \in Free, Created(e), pops' = pops
  PROVE  IsFiniteSet(live') /\ len' = Cardinality(live') + pops' /\ len' \in Nat
<1>1. e \notin live
  BY DEF Free
<1>2. IsFiniteSet(live') /\ Cardinality(live') = Cardinality(live) + 1
  BY <1>1, FS_AddElement DEF Created
<1>3. Cardinality(live) \in Nat
  BY FS_CardinalityType
<1> QED BY <1>2, <1>3 DEF Created

(* free_elem, with the decrement of remove_lst or without it, as pop_lst.  *)
LEMMA FreedCounts ==
  ASSUME IsFiniteSet(live), len = Cardinality(live) + pops, pops \in Nat,
         NEW w \in live, Freed(w),
         \/ len' = len - 1 /\ pops' = pops
         \/ len' = len /\ pops' = pops + 1
  PROVE  /\ IsFiniteSet(live') /\ len' = Cardinality(live') + pops'
         /\ len' \in Nat /\ pops' \in Nat
<1>1. IsFiniteSet(live') /\ Cardinality(live') = Cardinality(live) - 1
  BY FS_RemoveElement DEF Freed
<1>2. Cardinality(live) \in Nat /\ Cardinality(live') \in Nat
  BY <1>1, FS_CardinalityType
<1> QED BY <1>1, <1>2

-----------------------------------------------------------------------------
(* The inductive invariant: the links, the count and the cursor together.  *)
IInv == TypeOK /\ Linked /\ CursorIsLive /\ LenCountsAllButPops

(* create_lst makes an empty list that has the invariant.                  *)
LEMMA InitIInv == Init => IInv
<1> SUFFICES ASSUME Init PROVE IInv
  OBVIOUS
<1> USE DEF Init
<1>1. TypeOK
  BY DEF TypeOK, Pointer
<1>2. Linked
  BY DEF Linked, LinksAgree, EndsAgree, NextLinked, PrevLinked
<1>3. CursorIsLive
  BY DEF CursorIsLive
<1>4. LenCountsAllButPops
  BY FS_EmptySet DEF LenCountsAllButPops
<1> QED BY <1>1, <1>2, <1>3, <1>4 DEF IInv

(* Every operation on the list keeps the invariant.                        *)
LEMMA StepIInv == IInv /\ [Next]_vars => IInv'
<1> SUFFICES ASSUME IInv, [Next]_vars PROVE IInv'
  OBVIOUS
<1> USE DEF IInv
<1>1. ASSUME UNCHANGED vars PROVE IInv'
  BY <1>1 DEF vars, links, TypeOK, Linked, LinksAgree, EndsAgree, NextLinked,
              PrevLinked, CursorIsLive, LenCountsAllButPops, Alive
<1>2. ASSUME Alive,
             \/ AppendLst \/ PrependLst \/ InsertAfter \/ InsertBefore
             \/ RemoveLst \/ PopLst \/ DestroyLst \/ Killed
             \/ PeekLst \/ ResetLst \/ IterateLst
      PROVE  IInv'
  <2>0. /\ LinkTypes /\ LinksAgree
        /\ IsFiniteSet(live) /\ len = Cardinality(live) + pops /\ pops \in Nat
    BY <1>2 DEF TypeOK, LinkTypes, Linked, LenCountsAllButPops
  <2> DEFINE Kept == /\ LinkTypes' /\ LinksAgree' /\ IsFiniteSet(live')
                     /\ len' = Cardinality(live') + pops'
                     /\ len' \in Nat /\ pops' \in Nat
  (* What an operation that ends the iteration has left to establish.      *)
  <2>1. ASSUME Kept, iterating' = FALSE, UNCHANGED ret
        PROVE  IInv'
    BY <2>1 DEF TypeOK, LinkTypes, Linked, CursorIsLive, LenCountsAllButPops
  <2>2. CASE AppendLst
    <3>1. PICK e \in Free : AppendLinks(e)
      BY <2>2 DEF AppendLst
    <3>2. pops' = pops /\ iterating' = FALSE /\ UNCHANGED ret
      BY <2>2 DEF AppendLst, Changes
    <3> QED BY <2>0, <2>1, <3>1, <3>2, AppendKeepsLinks, InsertCreates,
               CreatedCounts
  <2>3. CASE PrependLst
    <3>1. PICK e \in Free : PrependLinks(e)
      BY <2>3 DEF PrependLst
    <3>2. pops' = pops /\ iterating' = FALSE /\ UNCHANGED ret
      BY <2>3 DEF PrependLst, Changes
    <3> QED BY <2>0, <2>1, <3>1, <3>2, PrependKeepsLinks, InsertCreates,
               CreatedCounts
  <2>4. CASE InsertAfter \/ InsertBefore
    <3>1. PICK w \in live, e \in Free :
            InsertAfterLinks(w, e) \/ InsertBeforeLinks(w, e)
      BY <2>4 DEF InsertAfter, InsertBefore
    <3>2. pops' = pops /\ iterating' = FALSE /\ UNCHANGED ret
      BY <2>4 DEF InsertAfter, InsertBefore, Changes
    <3> QED BY <2>0, <2>1, <3>1, <3>2, InsertKeepsLinks, InsertCreates,
               CreatedCounts
  <2>5. CASE RemoveLst
    <3>1. PICK w \in live : RemoveLinks(w)
      BY <2>5 DEF RemoveLst
    <3>2. pops' = pops /\ iterating' = FALSE /\ UNCHANGED ret
      BY <2>5 DEF RemoveLst, Changes
    <3>3. Freed(w) /\ len' = len - 1
      BY <3>1 DEF RemoveLinks
    <3> QED BY <2>0, <2>1, <3>1, <3>2, <3>3, RemoveKeepsLinks, FreedCounts
  <2>6. CASE PopLst
    <3>1. first # Null /\ first \in live
      BY <2>0, <2>6 DEF PopLst, LinksAgree, EndsAgree
    <3>2. /\ PopLinks /\ pops' = pops + 1
          /\ iterating' = FALSE /\ UNCHANGED ret
      BY <2>6 DEF PopLst, Changes
    <3>3. Freed(first) /\ len' = len
      BY <3>2 DEF PopLinks
    <3> QED BY <2>0, <2>1, <3>1, <3>2, <3>3, PopKeepsLinks, FreedCounts
  <2>7. CASE DestroyLst
    <3>1. ~Alive'
      BY <2>7 DEF DestroyLst, Changes, Alive
    <3>2. TypeOK'
      BY <2>7, Zenon DEF DestroyLst, Changes, TypeOK, Pointer
    <3>3. CursorIsLive'
      BY <2>7 DEF DestroyLst, Changes, CursorIsLive
    <3> QED BY <3>1, <3>2, <3>3 DEF Linked, LenCountsAllButPops
  <2>8. CASE Killed
    <3>1. ~Alive'
      BY <2>8 DEF Killed, Changes, Alive
    <3>2. TypeOK' /\ CursorIsLive'
      BY <2>8 DEF Killed, Changes, links, TypeOK, CursorIsLive
    <3> QED BY <3>1, <3>2 DEF Linked, LenCountsAllButPops
  (* The reading operations move crnt and ret only.                        *)
  <2>9. ASSUME UNCHANGED <<first, last, len, next, prev, live, pops>>
        PROVE  LinksAgree' /\ (Linked /\ LenCountsAllButPops)'
    BY <2>0, <2>9 DEF LinksAgree, EndsAgree, NextLinked, PrevLinked, Linked,
                     LenCountsAllButPops
  <2>10. CASE PeekLst
    <3>1. TypeOK' /\ CursorIsLive'
      BY <2>0, <2>10 DEF PeekLst, ElemToVoid, links, TypeOK, CursorIsLive,
                        LinksAgree, EndsAgree
    <3> QED BY <2>9, <2>10, <3>1 DEF PeekLst, links
  <2>11. CASE ResetLst
    <3>1. /\ crnt' = first /\ ret' = ElemToVoid(first) /\ op' = <<"reset">>
          /\ first' = first /\ live' = live
      BY <2>11 DEF ResetLst
    <3>2. TypeOK'
      BY <2>11, <3>1 DEF ResetLst, ElemToVoid, TypeOK
    <3>3. crnt' \in live' \cup {Null}
      BY <2>0, <3>1 DEF LinksAgree, EndsAgree
    <3>4. ret' # Null /\ (ret' \in live' <=> first' # Null)
      BY <2>0, <3>1, PointerAssumption
         DEF ElemToVoid, LinksAgree, EndsAgree, LinkTypes
    <3>5. op' # <<"iterate">>
      <4>1. op'[1] # "iterate"
        BY <3>1
      <4> QED BY <4>1
    <3> QED BY <2>9, <2>11, <3>2, <3>3, <3>4, <3>5 DEF ResetLst, CursorIsLive
  <2>12. CASE IterateLst
    <3>1. crnt' \in live \cup {Null}
      BY <2>0, <2>12 DEF IterateLst, Successor, CursorIsLive, LinksAgree,
                        NextLinked
    <3>2. TypeOK' /\ CursorIsLive'
      BY <2>12, <3>1 DEF IterateLst, TypeOK, CursorIsLive, Pointer
    <3> QED BY <2>9, <2>12, <3>2 DEF IterateLst
  <2> QED BY <1>2, <2>2, <2>3, <2>4, <2>5, <2>6, <2>7, <2>8, <2>10, <2>11,
             <2>12
<1> QED BY <1>1, <1>2 DEF Next

(* The inductive invariant holds for any number of elements and pops.      *)
THEOREM Invariant == Spec => []IInv
<1>1. Init => IInv
  BY InitIInv
<1>2. IInv /\ [Next]_vars => IInv'
  BY StepIInv
<1> QED BY <1>1, <1>2, PTL DEF Spec

(***************************************************************************)
(* However the operations are mixed, next and prev stay inverse, lead only *)
(* to allocated elements, and end at last and first.                       *)
(***************************************************************************)
THEOREM AlwaysLinked == Spec => []Linked
<1>1. IInv => Linked
  BY DEF IInv
<1> QED BY <1>1, Invariant, PTL

(***************************************************************************)
(* An iteration by the rules never follows a pointer to a freed element,   *)
(* and its body runs on elements only, except once on an empty list.       *)
(***************************************************************************)
THEOREM IterationIsSafe == Spec => []CursorIsLive
<1>1. IInv => CursorIsLive
  BY DEF IInv
<1> QED BY <1>1, Invariant, PTL

(* len is wrong by exactly the number of pops.                             *)
THEOREM LenIsExactButForPops == Spec => []LenCountsAllButPops
<1>1. IInv => LenCountsAllButPops
  BY DEF IInv
<1> QED BY <1>1, Invariant, PTL

(* Every pointer of the list is NULL or the address of an element.         *)
THEOREM TypeCorrect == Spec => []TypeOK
<1>1. IInv => TypeOK
  BY DEF IInv
<1> QED BY <1>1, Invariant, PTL
-----------------------------------------------------------------------------
(***************************************************************************)
(* The sequence that the links hold.  Chain: s is what is met from p on    *)
(* along link.  Holds: s is met forwards from fst, and backwards from lst, *)
(* and is everything in lv.                                                *)
(***************************************************************************)
Chain(s, p, link) ==
  /\ s \in Seq(Elems)
  /\ p = IF Len(s) = 0 THEN Null ELSE s[1]
  /\ \A i \in 1 .. Len(s) : link[s[i]] = IF i < Len(s) THEN s[i + 1] ELSE Null

Holds(s, fst, lst, nxt, prv, lv) ==
  /\ Chain(s, fst, nxt)
  /\ lst = IF Len(s) = 0 THEN Null ELSE s[Len(s)]
  /\ \A i \in 1 .. Len(s) : prv[s[i]] = IF 1 < i THEN s[i - 1] ELSE Null
  /\ \A i, j \in 1 .. Len(s) : s[i] = s[j] => i = j
  /\ lv = {s[i] : i \in 1 .. Len(s)}

Backwards(s) == [i \in 1 .. Len(s) |-> s[Len(s) + 1 - i]]

HoldsItems == Holds(Items, first, last, next, prev, live)

(* Items, of any links.                                                    *)
WalkOf(nxt, k, e) ==
  LET walk[n \in 0 .. k] ==
        [p \in Pointer |->
           IF p = Null \/ n = 0 THEN <<>> ELSE <<p>> \o walk[n - 1][nxt[p]]]
  IN  walk[k][e]

(* A set of natural numbers has a least element.                           *)
LEMMA LeastNumber ==
  ASSUME NEW T, T \subseteq Nat, T # {}
  PROVE  \E x \in T : \A y \in 0 .. x - 1 : y \notin T
<1>1. PICK x \in T : \A y \in T : ~(<<y, x>> \in OpToRel(<, Nat))
  BY WFMin, NatLessThanWellFounded, Zenon
<1>2. \A y \in T : ~(y < x)
  BY <1>1 DEF OpToRel
<1> QED BY <1>2

(* The recursive function of WalkFrom exists.                              *)
Round(f, n, nxt) ==
  [p \in Pointer |->
     IF p = Null \/ n = 0 THEN <<>> ELSE <<p>> \o f[n - 1][nxt[p]]]

IsWalk(f, nxt, k) == f = [n \in 0 .. k |-> Round(f, n, nxt)]

(* The walk over a list of any length is there.                            *)
LEMMA WalkExists ==
  ASSUME NEW nxt, NEW k \in Nat
  PROVE  \E f : IsWalk(f, nxt, k)
<1> DEFINE T == {n \in Nat : n <= k /\ ~(\E f : IsWalk(f, nxt, n))}
<1>1. SUFFICES ASSUME T # {} PROVE FALSE
  <2>1. k \notin T => \E f : IsWalk(f, nxt, k)
    OBVIOUS
  <2> QED BY <2>1
<1>2. PICK m \in T : \A n \in 0 .. m - 1 : n \notin T
  BY <1>1, LeastNumber
<1>3. m \in Nat /\ m <= k /\ ~(\E f : IsWalk(f, nxt, m))
  OBVIOUS
<1> HIDE DEF T
<1>4. \E f : m # 0 => IsWalk(f, nxt, m - 1)
  <2>1. m # 0 => m - 1 \in 0 .. m - 1 /\ m - 1 \in Nat /\ m - 1 <= k
    BY <1>3
  <2> QED BY <1>2, <2>1 DEF T
<1>5. PICK f : m # 0 => IsWalk(f, nxt, m - 1)
  BY <1>4
<1> DEFINE g == [n \in 0 .. m |-> IF n < m THEN f[n] ELSE Round(f, n, nxt)]
<1>6. \A n \in 0 .. m : g[n] = Round(g, n, nxt)
  <2> SUFFICES ASSUME NEW n \in 0 .. m PROVE g[n] = Round(g, n, nxt)
    OBVIOUS
  <2>1. g[n] = Round(f, n, nxt)
    <3>1. n < m => m # 0 /\ n \in 0 .. m - 1
      BY <1>3
    <3> QED BY <1>5, <3>1 DEF IsWalk
  <2>2. n # 0 => g[n - 1] = f[n - 1]
    BY <1>3
  <2> HIDE DEF g
  <2> QED BY <2>1, <2>2 DEF Round
<1>7. g = [n \in 0 .. m |-> Round(g, n, nxt)]
  <2>1. g = [n \in 0 .. m |-> g[n]]
    OBVIOUS
  <2> HIDE DEF g
  <2> QED BY <1>6, <2>1
<1> HIDE DEF g
<1> QED BY <1>3, <1>7 DEF IsWalk

(* Walking along a chain yields it, if enough steps are allowed.           *)
LEMMA WalkIsChain ==
  ASSUME NEW nxt \in [Elems -> Pointer], NEW s, NEW p, Chain(s, p, nxt)
  PROVE  WalkOf(nxt, Len(s), p) = s
<1> DEFINE k == Len(s)
           W == CHOOSE f : IsWalk(f, nxt, k)
           P(j) == IF j = 0 THEN Null ELSE s[k - j + 1]
<1>1. s \in Seq(Elems) /\ k \in Nat /\ \A i \in 1 .. k : s[i] \in Elems
  BY DEF Chain
<1>2. IsWalk(W, nxt, k)
  BY <1>1, WalkExists
<1>3. WalkOf(nxt, k, p) = W[k][p]
  BY DEF WalkOf, IsWalk, Round
<1> HIDE DEF W, k
<1>4. \A j \in 0 .. k : P(j) \in Pointer
  BY <1>1 DEF Pointer
<1> DEFINE Ok(j) == \A n \in j .. k : W[n][P(j)] = SubSeq(s, k - j + 1, k)
           T == {j \in Nat : j <= k /\ ~Ok(j)}
<1>5. T = {}
  <2> SUFFICES ASSUME T # {} PROVE FALSE
    OBVIOUS
  <2>1. PICK j \in T : \A i \in 0 .. j - 1 : i \notin T
    BY LeastNumber
  <2>2. j \in Nat /\ j <= k
    OBVIOUS
  <2>3. PICK n \in j .. k : W[n][P(j)] # SubSeq(s, k - j + 1, k)
    OBVIOUS
  <2>4. n \in 0 .. k /\ P(j) \in Pointer
    BY <1>1, <1>4, <2>2, <2>3
  <2>5. W[n][P(j)] = IF P(j) = Null \/ n = 0 THEN <<>>
                     ELSE <<P(j)>> \o W[n - 1][nxt[P(j)]]
    <3> HIDE DEF P
    <3>1. W[n] = Round(W, n, nxt)
      BY <1>2, <2>4 DEF IsWalk
    <3> QED BY <2>4, <3>1 DEF Round
  <2>6. CASE j = 0
    <3>1. P(j) = Null /\ k - j + 1 = k + 1
      BY <1>1, <2>6
    <3>2. SubSeq(s, k + 1, k) = <<>>
      BY <1>1, SubSeqEmpty
    <3> HIDE DEF P
    <3> QED BY <2>3, <2>5, <3>1, <3>2
  <2>7. CASE j # 0
    <3> DEFINE i == k - j + 1
    <3>1. /\ i \in 1 .. k /\ j - 1 \in 0 .. j - 1 /\ j - 1 <= k /\ j - 1 \in Nat
          /\ n - 1 \in j - 1 .. k /\ n # 0 /\ k - (j - 1) + 1 = i + 1
          /\ (i < k <=> j - 1 # 0)
      <4> HIDE DEF T, P, Ok
      <4>1. k \in Nat /\ n \in Nat /\ j <= n /\ n <= k /\ j > 0
        BY <1>1, <2>2, <2>3, <2>7
      <4> QED BY <2>2, <4>1
    <3>2. P(j) = s[i] /\ s[i] # Null
      BY <1>1, <2>7, <3>1, PointerAssumption
    <3>3. nxt[s[i]] = P(j - 1)
      <4>1. nxt[s[i]] = IF i < k THEN s[i + 1] ELSE Null
        BY <3>1 DEF Chain, k
      <4> QED BY <3>1, <4>1
    <3>4. Ok(j - 1)
      BY <2>1, <3>1
    <3>5. W[n - 1][P(j - 1)] = SubSeq(s, i + 1, k)
      BY <3>1, <3>4
    <3> HIDE DEF P, i
    <3>6. W[n][P(j)] = <<s[i]>> \o SubSeq(s, i + 1, k)
      BY <2>5, <3>1, <3>2, <3>3, <3>5
    <3>7. SubSeq(s, i, k) = <<s[i]>> \o SubSeq(s, i + 1, k)
      <4>1. i \in 1 .. Len(s) /\ k \in i .. Len(s)
        BY <1>1, <3>1 DEF k
      <4> QED BY <1>1, <4>1, SubSeqRecursiveFirst
    <3> QED BY <2>3, <3>6, <3>7 DEF i
  <2> QED BY <2>6, <2>7
<1>6. P(k) = p
  <2>1. k # 0 => k - k + 1 = 1
    BY <1>1
  <2>2. p = IF k = 0 THEN Null ELSE s[1]
    BY DEF Chain, k
  <2> QED BY <2>1, <2>2
<1>7. Ok(k)
  <2>1. k \notin T
    BY <1>5
  <2> HIDE DEF Ok
  <2> QED BY <1>1, <2>1
<1> HIDE DEF P
<1>8. W[k][P(k)] = SubSeq(s, 1, k)
  <2>1. k \in k .. k /\ k - k + 1 = 1
    BY <1>1
  <2> QED BY <1>7, <2>1
<1>9. SubSeq(s, 1, k) = s
  BY <1>1, SubSeqFull DEF k
<1> QED BY <1>3, <1>6, <1>8, <1>9 DEF k

(* Following n links of a chain leads to its n-th next element.            *)
IsGo(f, link, p, n) ==
  f = [k \in 0 .. n |-> IF k = 0 THEN p
                        ELSE IF f[k - 1] = Null THEN Null ELSE link[f[k - 1]]]

(* Following n links leads to the element n places on, or to Null.         *)
LEMMA FollowIsChain ==
  ASSUME NEW link, NEW s, NEW p, Chain(s, p, link), NEW n \in Nat
  PROVE  Follow(link, p, n) = IF n < Len(s) THEN s[n + 1] ELSE Null
<1> DEFINE At(k) == IF k < Len(s) THEN s[k + 1] ELSE Null
           G == [k \in 0 .. n |-> At(k)]
           F == CHOOSE f : IsGo(f, link, p, n)
<1>1. /\ Len(s) \in Nat /\ At(0) = p
      /\ \A i \in 1 .. Len(s) : s[i] # Null /\ link[s[i]] = At(i)
  BY PointerAssumption DEF Chain
<1>2. \A k \in 1 .. n : At(k) = IF At(k - 1) = Null THEN Null ELSE link[At(k - 1)]
  <2> SUFFICES ASSUME NEW k \in 1 .. n
               PROVE  At(k) = IF At(k - 1) = Null THEN Null ELSE link[At(k - 1)]
    OBVIOUS
  <2>1. CASE k - 1 < Len(s)
    <3>1. k \in 1 .. Len(s) /\ At(k - 1) = s[k]
      BY <1>1, <2>1
    <3> HIDE DEF At
    <3> QED BY <1>1, <3>1
  <2>2. CASE ~(k - 1 < Len(s))
    BY <1>1, <2>2
  <2> QED BY <2>1, <2>2
<1> HIDE DEF At
<1>3. IsGo(G, link, p, n)
  <2>1. \A k \in 0 .. n : G[k] = IF k = 0 THEN p
                               ELSE IF G[k - 1] = Null THEN Null ELSE link[G[k - 1]]
    <3> SUFFICES ASSUME NEW k \in 0 .. n
                 PROVE  G[k] = IF k = 0 THEN p ELSE IF G[k - 1] = Null THEN Null
                                                    ELSE link[G[k - 1]]
      OBVIOUS
    <3>1. G[k] = At(k) /\ (k # 0 => k \in 1 .. n /\ G[k - 1] = At(k - 1))
      OBVIOUS
    <3> HIDE DEF G
    <3> QED BY <1>1, <1>2, <3>1
  <2>2. G = [k \in 0 .. n |-> G[k]]
    OBVIOUS
  <2> HIDE DEF G
  <2> QED BY <2>1, <2>2 DEF IsGo
<1>4. IsGo(F, link, p, n)
  <2> HIDE DEF G
  <2> QED BY <1>3
<1>5. Follow(link, p, n) = F[n]
  BY DEF Follow, IsGo
<1> HIDE DEF F
<1> DEFINE T == {k \in Nat : k <= n /\ F[k] # At(k)}
<1>6. T = {}
  <2> SUFFICES ASSUME T # {} PROVE FALSE
    OBVIOUS
  <2>1. PICK k \in T : \A m \in 0 .. k - 1 : m \notin T
    BY LeastNumber
  <2>2. k \in 0 .. n /\ F[k] # At(k)
    OBVIOUS
  <2>3. k # 0 => k \in 1 .. n /\ F[k - 1] = At(k - 1)
    <3>1. k # 0 => k - 1 \in 0 .. k - 1 /\ k - 1 \in Nat /\ k - 1 <= n /\ k \in 1 .. n
      BY <2>2
    <3>2. \A m \in Nat : m <= n /\ m \notin T => F[m] = At(m)
      OBVIOUS
    <3> HIDE DEF T
    <3> QED BY <2>1, <3>1, <3>2
  <2>4. F[k] = IF k = 0 THEN p
               ELSE IF F[k - 1] = Null THEN Null ELSE link[F[k - 1]]
    BY <1>4, <2>2 DEF IsGo
  <2> HIDE DEF T
  <2> QED BY <1>1, <1>2, <2>2, <2>3, <2>4
<1>7. F[n] = At(n)
  BY <1>6
<1> QED BY <1>5, <1>7 DEF At

-----------------------------------------------------------------------------
(* A sequence that the links hold is what WalkOf finds.                    *)
LEMMA ItemsAreHeld ==
  ASSUME NEW s, NEW fst, NEW lst, NEW nxt \in [Elems -> Pointer], NEW prv, NEW lv,
         Holds(s, fst, lst, nxt, prv, lv)
  PROVE  /\ WalkOf(nxt, Cardinality(lv), fst) = s
         /\ Cardinality(lv) = Len(s)
<1>1. /\ s \in Seq(Elems) /\ Len(s) \in Nat /\ Chain(s, fst, nxt)
      /\ \A i, j \in 1 .. Len(s) : s[i] = s[j] => i = j
      /\ lv = {s[i] : i \in 1 .. Len(s)}
  BY DEF Holds, Chain
<1>2. s \in Bijection(1 .. Len(s), lv)
  <2>1. s \in [1 .. Len(s) -> lv]
    BY <1>1
  <2>2. s \in Injection(1 .. Len(s), lv)
    BY <1>1, <2>1 DEF Injection, IsInjective
  <2>3. s \in Surjection(1 .. Len(s), lv)
    BY <1>1, <2>1 DEF Surjection
  <2> QED BY <2>2, <2>3 DEF Bijection
<1>3. ExistsBijection(1 .. Len(s), lv)
  BY <1>2 DEF ExistsBijection
<1>4. Cardinality(lv) = Len(s)
  BY <1>1, <1>3, FS_CountingElements
<1> QED BY <1>1, <1>4, WalkIsChain

(* Backwards, the elements are met from the last to the first.             *)
LEMMA HeldBackwards ==
  ASSUME NEW s, NEW fst, NEW lst, NEW nxt, NEW prv, NEW lv,
         Holds(s, fst, lst, nxt, prv, lv)
  PROVE  /\ Chain(Backwards(s), lst, prv) /\ Len(Backwards(s)) = Len(s)
         /\ \A i \in 1 .. Len(s) : Backwards(s)[i] = s[Len(s) + 1 - i]
<1> DEFINE b == Backwards(s)
           k == Len(s)
<1>1. /\ s \in Seq(Elems) /\ k \in Nat /\ \A i \in 1 .. k : s[i] \in Elems
      /\ lst = IF k = 0 THEN Null ELSE s[k]
      /\ \A i \in 1 .. k : prv[s[i]] = IF 1 < i THEN s[i - 1] ELSE Null
  BY DEF Holds, Chain
<1>2. \A i \in 1 .. k : k + 1 - i \in 1 .. k
  BY <1>1
<1>3. b \in Seq(Elems) /\ Len(b) = k /\ \A i \in 1 .. k : b[i] = s[k + 1 - i]
  BY <1>1, <1>2 DEF Backwards
<1> HIDE DEF b
<1>4. lst = IF Len(b) = 0 THEN Null ELSE b[1]
  <2>1. k # 0 => 1 \in 1 .. k /\ k + 1 - 1 = k
    BY <1>1
  <2> QED BY <1>1, <1>3, <2>1
<1>5. ASSUME NEW i \in 1 .. k
      PROVE  prv[b[i]] = IF i < k THEN b[i + 1] ELSE Null
  <2>1. prv[s[k + 1 - i]] = IF 1 < k + 1 - i THEN s[(k + 1 - i) - 1] ELSE Null
    BY <1>1, <1>2
  <2>2. /\ 1 < k + 1 - i <=> i < k
        /\ (k + 1 - i) - 1 = k + 1 - (i + 1)
        /\ i < k => i + 1 \in 1 .. k
    BY <1>1
  <2> QED BY <1>3, <2>1, <2>2
<1> QED BY <1>3, <1>4, <1>5 DEF Chain, b

-----------------------------------------------------------------------------
(* InsertAt and RemoveAt, place by place.                                  *)
LEMMA InsertAtPlaces ==
  ASSUME NEW S, NEW s \in Seq(S), NEW e \in S, NEW i \in 1 .. Len(s) + 1
  PROVE  /\ InsertAt(s, i, e) \in Seq(S)
         /\ Len(InsertAt(s, i, e)) = Len(s) + 1
         /\ \A j \in 1 .. Len(s) + 1 :
              InsertAt(s, i, e)[j] = IF j < i THEN s[j] ELSE IF j = i THEN e
                                     ELSE s[j - 1]
<1> DEFINE a == SubSeq(s, 1, i - 1)
           b == SubSeq(s, i, Len(s))
           k == Len(s)
<1>1. k \in Nat /\ i \in Nat /\ 1 <= i /\ i <= k + 1 /\ \A j \in 1 .. k : s[j] \in S
  OBVIOUS
<1>2. /\ a \in Seq(S) /\ Len(a) = i - 1
      /\ \A j \in 1 .. i - 1 : a[j] = s[j]
  BY <1>1
<1>3. /\ b \in Seq(S) /\ Len(b) = k - i + 1
      /\ \A j \in 1 .. k - i + 1 : b[j] = s[i + j - 1]
  <2>1. \A j \in i .. k : s[j] \in S
    BY <1>1
  <2>2. /\ b \in Seq(S) /\ Len(b) = IF i <= k THEN k - i + 1 ELSE 0
        /\ \A j \in 1 .. k - i + 1 : b[j] = s[i + j - 1]
    BY <1>1, <2>1, SubSeqProperties
  <2> QED BY <1>1, <2>2
<1>4. InsertAt(s, i, e) = (a \o <<e>>) \o b
  BY DEF InsertAt
<1> HIDE DEF a, b, k
<1> DEFINE c == a \o <<e>>
<1>5. /\ c \in Seq(S) /\ Len(c) = i
      /\ \A j \in 1 .. i : c[j] = IF j < i THEN s[j] ELSE e
  BY <1>1, <1>2
<1> HIDE DEF c
<1>6. /\ c \o b \in Seq(S) /\ Len(c \o b) = k + 1
      /\ \A j \in 1 .. k + 1 : (c \o b)[j] = IF j <= i THEN c[j] ELSE b[j - i]
  <2>1. /\ c \o b \in Seq(S) /\ Len(c \o b) = Len(c) + Len(b)
        /\ \A j \in 1 .. Len(c) + Len(b) :
             (c \o b)[j] = IF j <= Len(c) THEN c[j] ELSE b[j - Len(c)]
    BY <1>3, <1>5, ConcatProperties
  <2>2. Len(c) + Len(b) = k + 1
    BY <1>1, <1>3, <1>5
  <2> QED BY <1>5, <2>1, <2>2
<1>7. ASSUME NEW j \in 1 .. k + 1
      PROVE  (c \o b)[j] = IF j < i THEN s[j] ELSE IF j = i THEN e ELSE s[j - 1]
  <2>1. CASE j <= i
    <3>1. j \in 1 .. i
      BY <1>1, <2>1
    <3> QED BY <1>1, <1>5, <1>6, <2>1, <3>1
  <2>2. CASE ~(j <= i)
    <3>1. j - i \in 1 .. k - i + 1 /\ i + (j - i) - 1 = j - 1
      BY <1>1, <2>2
    <3> QED BY <1>1, <1>3, <1>6, <2>2, <3>1
  <2> QED BY <2>1, <2>2
<1> QED BY <1>4, <1>6, <1>7 DEF c, k

(* Removing one place of a sequence moves the later ones forward.          *)
LEMMA RemoveAtPlaces ==
  ASSUME NEW S, NEW s \in Seq(S), NEW i \in 1 .. Len(s)
  PROVE  /\ RemoveAt(s, i) \in Seq(S)
         /\ Len(RemoveAt(s, i)) = Len(s) - 1
         /\ \A j \in 1 .. Len(s) - 1 :
              RemoveAt(s, i)[j] = IF j < i THEN s[j] ELSE s[j + 1]
<1> DEFINE a == SubSeq(s, 1, i - 1)
           b == SubSeq(s, i + 1, Len(s))
           k == Len(s)
<1>1. k \in Nat /\ i \in Nat /\ 1 <= i /\ i <= k /\ \A j \in 1 .. k : s[j] \in S
  OBVIOUS
<1>2. /\ a \in Seq(S) /\ Len(a) = i - 1
      /\ \A j \in 1 .. i - 1 : a[j] = s[j]
  BY <1>1
<1>3. /\ b \in Seq(S) /\ Len(b) = k - i
      /\ \A j \in 1 .. k - i : b[j] = s[i + j]
  <2>1. \A j \in i + 1 .. k : s[j] \in S
    BY <1>1
  <2>2. /\ b \in Seq(S) /\ Len(b) = IF i + 1 <= k THEN k - (i + 1) + 1 ELSE 0
        /\ \A j \in 1 .. k - (i + 1) + 1 : b[j] = s[(i + 1) + j - 1]
    BY <1>1, <2>1, SubSeqProperties
  <2>3. /\ k - (i + 1) + 1 = k - i
        /\ k - i = IF i + 1 <= k THEN k - (i + 1) + 1 ELSE 0
    BY <1>1
  <2>4. \A j \in 1 .. k - i : (i + 1) + j - 1 = i + j
    BY <1>1
  <2>5. ASSUME NEW j \in 1 .. k - i PROVE b[j] = s[i + j]
    <3>1. b[j] = s[(i + 1) + j - 1]
      BY <2>2, <2>3
    <3> QED BY <2>4, <3>1
  <2> HIDE DEF b
  <2> QED BY <2>2, <2>3, <2>5
<1>4. RemoveAt(s, i) = a \o b
  BY DEF RemoveAt
<1> HIDE DEF a, b, k
<1>5. /\ a \o b \in Seq(S) /\ Len(a \o b) = k - 1
      /\ \A j \in 1 .. k - 1 : (a \o b)[j] = IF j <= i - 1 THEN a[j] ELSE b[j - (i - 1)]
  <2>1. /\ a \o b \in Seq(S) /\ Len(a \o b) = Len(a) + Len(b)
        /\ \A j \in 1 .. Len(a) + Len(b) :
             (a \o b)[j] = IF j <= Len(a) THEN a[j] ELSE b[j - Len(a)]
    BY <1>2, <1>3, ConcatProperties
  <2>2. Len(a) + Len(b) = k - 1
    BY <1>1, <1>2, <1>3
  <2> QED BY <1>2, <2>1, <2>2
<1>6. ASSUME NEW j \in 1 .. k - 1
      PROVE  (a \o b)[j] = IF j < i THEN s[j] ELSE s[j + 1]
  <2>1. CASE j < i
    <3>1. j \in 1 .. i - 1 /\ j <= i - 1
      BY <1>1, <2>1
    <3> QED BY <1>2, <1>5, <2>1, <3>1
  <2>2. CASE ~(j < i)
    <3>1. /\ j - (i - 1) \in 1 .. k - i /\ i + (j - (i - 1)) = j + 1
          /\ ~(j <= i - 1)
      BY <1>1, <2>2
    <3> QED BY <1>3, <1>5, <2>2, <3>1
  <2> QED BY <2>1, <2>2
<1> QED BY <1>4, <1>5, <1>6 DEF k

(* Linking a new element in between its neighbours, or at an end.          *)
Inserted(s, e, i, nxt, prv, nxt2, prv2) ==
  /\ nxt2[e] = IF i <= Len(s) THEN s[i] ELSE Null
  /\ prv2[e] = IF 1 < i THEN s[i - 1] ELSE Null
  /\ \A j \in 1 .. Len(s) : nxt2[s[j]] = IF j = i - 1 THEN e ELSE nxt[s[j]]
  /\ \A j \in 1 .. Len(s) : prv2[s[j]] = IF j = i THEN e ELSE prv[s[j]]

(* That makes the links hold the longer sequence.                          *)
LEMMA InsertHolds ==
  ASSUME NEW s, NEW fst, NEW lst, NEW nxt, NEW prv, NEW lv,
         Holds(s, fst, lst, nxt, prv, lv),
         NEW e \in Elems, e \notin lv, NEW i \in 1 .. Len(s) + 1,
         NEW nxt2, NEW prv2, Inserted(s, e, i, nxt, prv, nxt2, prv2)
  PROVE  Holds(InsertAt(s, i, e), IF i = 1 THEN e ELSE fst,
               IF i = Len(s) + 1 THEN e ELSE lst, nxt2, prv2, lv \cup {e})
<1> DEFINE t == InsertAt(s, i, e)
           k == Len(s)
<1>1. /\ s \in Seq(Elems) /\ k \in Nat /\ fst = IF k = 0 THEN Null ELSE s[1]
      /\ lst = IF k = 0 THEN Null ELSE s[k]
      /\ \A j \in 1 .. k : nxt[s[j]] = IF j < k THEN s[j + 1] ELSE Null
      /\ \A j \in 1 .. k : prv[s[j]] = IF 1 < j THEN s[j - 1] ELSE Null
      /\ \A j, m \in 1 .. k : s[j] = s[m] => j = m
      /\ lv = {s[j] : j \in 1 .. k}
  <2>1. k \in Nat
    BY DEF Holds, Chain
  <2> QED BY <2>1, Zenon DEF Holds, Chain
<1>2. /\ t \in Seq(Elems) /\ Len(t) = k + 1
      /\ \A j \in 1 .. k + 1 : t[j] = IF j < i THEN s[j] ELSE IF j = i THEN e
                                      ELSE s[j - 1]
  BY <1>1, InsertAtPlaces
<1>3. /\ nxt2[e] = IF i <= k THEN s[i] ELSE Null
      /\ prv2[e] = IF 1 < i THEN s[i - 1] ELSE Null
      /\ \A j \in 1 .. k : nxt2[s[j]] = IF j = i - 1 THEN e ELSE nxt[s[j]]
      /\ \A j \in 1 .. k : prv2[s[j]] = IF j = i THEN e ELSE prv[s[j]]
      /\ i \in 1 .. k + 1 /\ \A j \in 1 .. k : s[j] # e
  BY <1>1 DEF Inserted
<1> HIDE DEF t, k
<1>4. t[1] = IF i = 1 THEN e ELSE fst
  BY <1>1, <1>2, <1>3
<1>5. t[k + 1] = IF i = k + 1 THEN e ELSE lst
  <2>1. (k + 1) - 1 = k
    BY <1>1
  <2> QED BY <1>1, <1>2, <1>3, <2>1
<1>6. ASSUME NEW j \in 1 .. k + 1
      PROVE  /\ nxt2[t[j]] = IF j < k + 1 THEN t[j + 1] ELSE Null
             /\ prv2[t[j]] = IF 1 < j THEN t[j - 1] ELSE Null
  <2>1. CASE j < i
    <3>1. j \in 1 .. k /\ t[j] = s[j] /\ j < k + 1 /\ j + 1 \in 1 .. k + 1
      <4>1. k \in Nat /\ j \in Nat /\ 1 <= j /\ j < i /\ i \in Nat /\ i <= k + 1
        BY <1>1, <1>3, <2>1
      <4>2. j \in 1 .. k /\ j < k + 1 /\ j + 1 \in 1 .. k + 1
        BY <4>1
      <4> QED BY <1>2, <2>1, <4>2
    <3>2. t[j + 1] = IF j = i - 1 THEN e ELSE s[j + 1]
      BY <1>2, <1>3, <2>1, <3>1
    <3>3. 1 < j => t[j - 1] = s[j - 1]
      BY <1>2, <1>3, <2>1, <3>1
    <3>4. j # i - 1 => j < k
      BY <1>1, <1>3, <2>1, <3>1
    <3>5. j # i
      BY <1>1, <1>3, <2>1
    <3> QED BY <1>1, <1>3, <3>1, <3>2, <3>3, <3>4, <3>5
  <2>2. CASE j = i
    <3>1. t[j] = e
      BY <1>2, <2>2
    <3>2. j < k + 1 => t[j + 1] = s[j]
      BY <1>1, <1>2, <1>3, <2>2
    <3>3. 1 < j => t[j - 1] = s[j - 1]
      BY <1>1, <1>2, <1>3, <2>2
    <3>4. j < k + 1 <=> i <= k
      BY <1>1, <1>3, <2>2
    <3> QED BY <1>3, <2>2, <3>1, <3>2, <3>3, <3>4
  <2>3. CASE i < j
    <3>1. j - 1 \in 1 .. k /\ t[j] = s[j - 1] /\ j - 1 # i - 1 /\ 1 < j
      BY <1>1, <1>2, <1>3, <2>3
    <3>2. /\ j < k + 1 => t[j + 1] = s[j]
          /\ j < k + 1 <=> j - 1 < k
          /\ (j - 1) + 1 = j
      BY <1>1, <1>2, <1>3, <2>3
    <3>3. t[j - 1] = IF j - 1 = i THEN e ELSE s[(j - 1) - 1]
      <4>1. j - 1 \in 1 .. k + 1 /\ ~(j - 1 < i)
        BY <1>1, <1>3, <2>3, <3>1
      <4> QED BY <1>2, <4>1
    <3>4. j - 1 # i => 1 < j - 1
      BY <1>1, <1>3, <2>3
    <3> QED BY <1>1, <1>3, <3>1, <3>2, <3>3, <3>4
  <2> QED BY <1>1, <1>3, <2>1, <2>2, <2>3
<1>7. ASSUME NEW j \in 1 .. k + 1, NEW m \in 1 .. k + 1, t[j] = t[m]
      PROVE  j = m
  <2> DEFINE Old(n) == IF n < i THEN n ELSE n - 1
  <2>1. \A n \in 1 .. k + 1 : n # i => Old(n) \in 1 .. k /\ t[n] = s[Old(n)]
    BY <1>1, <1>2, <1>3
  <2>2. t[i] = e
    BY <1>2, <1>3
  <2>3. j = i <=> m = i
    BY <1>3, <1>7, <2>1, <2>2
  <2>4. CASE j # i /\ m # i
    <3>1. /\ Old(j) \in 1 .. k /\ Old(m) \in 1 .. k
          /\ s[Old(j)] = s[Old(m)]
      BY <1>7, <2>1, <2>4
    <3> HIDE DEF Old
    <3>2. Old(j) = Old(m)
      BY <1>1, <3>1
    <3>3. j \in Nat /\ m \in Nat /\ i \in Nat
      BY <1>1, <1>3
    <3> QED BY <2>4, <3>2, <3>3 DEF Old
  <2> QED BY <2>3, <2>4
<1>8. lv \cup {e} = {t[j] : j \in 1 .. k + 1}
  <2>1. ASSUME NEW j \in 1 .. k
        PROVE  s[j] \in {t[m] : m \in 1 .. k + 1}
    <3>1. CASE j < i
      BY <1>1, <1>2, <3>1
    <3>2. CASE ~(j < i)
      <4>1. j + 1 \in 1 .. k + 1 /\ t[j + 1] = s[j]
        BY <1>1, <1>2, <1>3, <3>2
      <4> QED BY <4>1
    <3> QED BY <3>1, <3>2
  <2>2. e \in {t[m] : m \in 1 .. k + 1}
    BY <1>2, <1>3
  <2>3. ASSUME NEW j \in 1 .. k + 1
        PROVE  t[j] \in lv \cup {e}
    <3>1. j < i => j \in 1 .. k
      BY <1>1, <1>3
    <3>2. i < j => j - 1 \in 1 .. k
      BY <1>1, <1>3
    <3> QED BY <1>1, <1>2, <1>3, <3>1, <3>2
  <2>4. lv \subseteq {t[m] : m \in 1 .. k + 1}
    <3> SUFFICES ASSUME NEW x \in lv
                 PROVE  x \in {t[m] : m \in 1 .. k + 1}
      OBVIOUS
    <3>1. PICK n \in 1 .. k : x = s[n]
      BY <1>1
    <3> QED BY <2>1, <3>1
  <2>5. {t[m] : m \in 1 .. k + 1} \subseteq lv \cup {e}
    BY <2>3
  <2> QED BY <2>2, <2>4, <2>5
<1>9. Len(t) # 0
  BY <1>1, <1>2
<1>10. Chain(t, IF i = 1 THEN e ELSE fst, nxt2)
  BY <1>2, <1>4, <1>6, <1>9 DEF Chain
<1>11. /\ (IF i = k + 1 THEN e ELSE lst) = IF Len(t) = 0 THEN Null ELSE t[Len(t)]
       /\ \A j \in 1 .. Len(t) : prv2[t[j]] = IF 1 < j THEN t[j - 1] ELSE Null
       /\ \A j, m \in 1 .. Len(t) : t[j] = t[m] => j = m
       /\ lv \cup {e} = {t[j] : j \in 1 .. Len(t)}
  BY <1>2, <1>5, <1>6, <1>7, <1>8, <1>9
<1>12. Holds(t, IF i = 1 THEN e ELSE fst, IF i = k + 1 THEN e ELSE lst, nxt2, prv2,
             lv \cup {e})
  BY <1>10, <1>11, Zenon DEF Holds
<1> QED BY <1>12 DEF t, k

(* Unlinking an element, in the middle or at an end.                       *)
Removed(s, i, nxt, prv, nxt2, prv2) ==
  /\ \A j \in 1 .. Len(s) : j # i =>
       nxt2[s[j]] = IF j = i - 1 THEN nxt[s[i]] ELSE nxt[s[j]]
  /\ \A j \in 1 .. Len(s) : j # i =>
       prv2[s[j]] = IF j = i + 1 THEN prv[s[i]] ELSE prv[s[j]]

(* That makes the links hold the shorter sequence.                         *)
LEMMA RemoveHolds ==
  ASSUME NEW s, NEW fst, NEW lst, NEW nxt, NEW prv, NEW lv,
         Holds(s, fst, lst, nxt, prv, lv), NEW i \in 1 .. Len(s),
         NEW nxt2, NEW prv2, Removed(s, i, nxt, prv, nxt2, prv2)
  PROVE  Holds(RemoveAt(s, i), IF i = 1 THEN nxt[s[i]] ELSE fst,
               IF i = Len(s) THEN prv[s[i]] ELSE lst, nxt2, prv2, lv \ {s[i]})
<1> DEFINE t == RemoveAt(s, i)
           k == Len(s)
<1>1. /\ s \in Seq(Elems) /\ k \in Nat /\ fst = IF k = 0 THEN Null ELSE s[1]
      /\ lst = IF k = 0 THEN Null ELSE s[k]
      /\ \A j \in 1 .. k : nxt[s[j]] = IF j < k THEN s[j + 1] ELSE Null
      /\ \A j \in 1 .. k : prv[s[j]] = IF 1 < j THEN s[j - 1] ELSE Null
      /\ \A j, m \in 1 .. k : s[j] = s[m] => j = m
      /\ lv = {s[j] : j \in 1 .. k}
  <2>1. k \in Nat
    BY DEF Holds, Chain
  <2> QED BY <2>1, Zenon DEF Holds, Chain
<1>2. /\ t \in Seq(Elems) /\ Len(t) = k - 1
      /\ \A j \in 1 .. k - 1 : t[j] = IF j < i THEN s[j] ELSE s[j + 1]
  BY <1>1, RemoveAtPlaces
<1>3. /\ \A j \in 1 .. k : j # i =>
           nxt2[s[j]] = IF j = i - 1 THEN nxt[s[i]] ELSE nxt[s[j]]
      /\ \A j \in 1 .. k : j # i =>
           prv2[s[j]] = IF j = i + 1 THEN prv[s[i]] ELSE prv[s[j]]
      /\ i \in 1 .. k
  BY DEF Removed
<1> HIDE DEF t, k
<1>4. (IF i = 1 THEN nxt[s[i]] ELSE fst) = IF k - 1 = 0 THEN Null ELSE t[1]
  BY <1>1, <1>2, <1>3
<1>5. (IF i = k THEN prv[s[i]] ELSE lst) = IF k - 1 = 0 THEN Null ELSE t[k - 1]
  <2>1. k - 1 # 0 => k - 1 \in 1 .. k - 1 /\ (k - 1) + 1 = k /\ k # 0
    BY <1>1, <1>3
  <2>2. i = k <=> k - 1 < i
    BY <1>1, <1>3
  <2>3. k - 1 = 0 => i = 1 /\ k = 1
    BY <1>1, <1>3
  <2>4. i = k => prv[s[i]] = IF 1 < k THEN s[k - 1] ELSE Null
    BY <1>1, <1>3
  <2>5. 1 < k <=> k - 1 # 0
    BY <1>1, <1>3
  <2> QED BY <1>1, <1>2, <1>3, <2>1, <2>2, <2>3, <2>4, <2>5
<1>6. ASSUME NEW j \in 1 .. k - 1
      PROVE  /\ nxt2[t[j]] = IF j < k - 1 THEN t[j + 1] ELSE Null
             /\ prv2[t[j]] = IF 1 < j THEN t[j - 1] ELSE Null
  <2>1. CASE j < i
    <3>1. j \in 1 .. k /\ t[j] = s[j] /\ j # i /\ j # i + 1
      BY <1>1, <1>2, <1>3, <2>1
    <3>2. 1 < j => t[j - 1] = s[j - 1]
      BY <1>1, <1>2, <1>3, <2>1
    <3>3. prv2[t[j]] = IF 1 < j THEN t[j - 1] ELSE Null
      BY <1>1, <1>3, <3>1, <3>2
    <3>4. CASE j = i - 1
      <4>1. nxt2[t[j]] = IF i < k THEN s[i + 1] ELSE Null
        BY <1>1, <1>3, <3>1, <3>4
      <4>2. /\ i < k <=> j < k - 1
            /\ j + 1 = i
        BY <1>1, <1>3, <3>4
      <4>3. j < k - 1 => t[j + 1] = s[i + 1]
        BY <1>1, <1>2, <1>3, <4>2
      <4> QED BY <3>3, <4>1, <4>2, <4>3
    <3>5. CASE j # i - 1
      <4>1. j + 1 < i /\ j < k - 1 /\ j < k
        BY <1>1, <1>3, <2>1, <3>5
      <4>2. t[j + 1] = s[j + 1]
        BY <1>1, <1>2, <1>3, <4>1
      <4> QED BY <1>1, <1>3, <3>1, <3>3, <3>5, <4>1, <4>2
    <3> QED BY <3>4, <3>5
  <2>2. CASE ~(j < i)
    <3>1. /\ j + 1 \in 1 .. k /\ t[j] = s[j + 1] /\ j + 1 # i /\ j + 1 # i - 1
          /\ (j + 1) - 1 = j
      BY <1>1, <1>2, <1>3, <2>2
    <3>2. /\ j < k - 1 <=> j + 1 < k
          /\ j < k - 1 => t[j + 1] = s[(j + 1) + 1]
      BY <1>1, <1>2, <1>3, <2>2
    <3>3. nxt2[t[j]] = IF j < k - 1 THEN t[j + 1] ELSE Null
      BY <1>1, <1>3, <3>1, <3>2
    <3>4. CASE j = i
      <4>1. prv2[t[j]] = IF 1 < i THEN s[i - 1] ELSE Null
        <5>1. prv2[s[j + 1]] = prv[s[i]]
          BY <1>3, <3>1, <3>4
        <5>2. prv[s[i]] = IF 1 < i THEN s[i - 1] ELSE Null
          BY <1>1, <1>3
        <5> QED BY <3>1, <5>1, <5>2
      <4>2. 1 < j => t[j - 1] = s[i - 1]
        <5>1. 1 < j => j - 1 \in 1 .. k - 1 /\ j - 1 < i
          BY <1>1, <3>4
        <5> QED BY <1>2, <3>4, <5>1
      <4>3. prv2[t[j]] = IF 1 < j THEN t[j - 1] ELSE Null
        BY <3>4, <4>1, <4>2
      <4> QED BY <3>3, <4>3, Zenon
    <3>5. CASE j # i
      <4>1. prv2[t[j]] = s[j] /\ 1 < j
        <5>1. 1 < j /\ j + 1 # i + 1 /\ 1 < j + 1
          BY <1>1, <1>3, <2>2, <3>5
        <5>2. prv2[s[j + 1]] = prv[s[j + 1]]
          BY <1>3, <3>1, <5>1
        <5>3. prv[s[j + 1]] = s[(j + 1) - 1]
          BY <1>1, <3>1, <5>1
        <5> QED BY <3>1, <5>1, <5>2, <5>3
      <4>2. t[j - 1] = s[(j - 1) + 1] /\ (j - 1) + 1 = j
        BY <1>1, <1>2, <1>3, <2>2, <3>5
      <4> QED BY <3>3, <4>1, <4>2
    <3> QED BY <3>4, <3>5
  <2> QED BY <2>1, <2>2
<1> DEFINE Old(n) == IF n < i THEN n ELSE n + 1
<1>7. \A n \in 1 .. k - 1 : Old(n) \in 1 .. k /\ Old(n) # i /\ t[n] = s[Old(n)]
  BY <1>1, <1>2, <1>3
<1>8. \A n \in 1 .. k : n # i => \E m \in 1 .. k - 1 : Old(m) = n
  <2> SUFFICES ASSUME NEW n \in 1 .. k, n # i
               PROVE  \E m \in 1 .. k - 1 : Old(m) = n
    OBVIOUS
  <2>1. n < i => n \in 1 .. k - 1 /\ Old(n) = n
    BY <1>1, <1>3
  <2>2. i < n => n - 1 \in 1 .. k - 1 /\ Old(n - 1) = n
    BY <1>1, <1>3
  <2>3. n < i \/ i < n
    BY <1>1, <1>3
  <2> HIDE DEF Old
  <2> QED BY <2>1, <2>2, <2>3
<1>9. ASSUME NEW j \in 1 .. k - 1, NEW m \in 1 .. k - 1, Old(j) = Old(m)
      PROVE  j = m
  <2>1. j \in Nat /\ m \in Nat /\ i \in Nat
    BY <1>1, <1>3
  <2>2. CASE j < i /\ m < i
    BY <1>9, <2>2
  <2>3. CASE ~(j < i) /\ ~(m < i)
    <3>1. j + 1 = m + 1
      BY <1>9, <2>3
    <3> QED BY <2>1, <3>1
  <2>4. CASE j < i /\ ~(m < i)
    <3>1. j = m + 1
      BY <1>9, <2>4
    <3> QED BY <2>1, <2>4, <3>1
  <2>5. CASE ~(j < i) /\ m < i
    <3>1. j + 1 = m
      BY <1>9, <2>5
    <3> QED BY <2>1, <2>5, <3>1
  <2> QED BY <2>2, <2>3, <2>4, <2>5
<1> HIDE DEF Old
<1>10. ASSUME NEW j \in 1 .. k - 1, NEW m \in 1 .. k - 1, t[j] = t[m]
       PROVE  j = m
  <2>1. Old(j) \in 1 .. k /\ Old(m) \in 1 .. k /\ s[Old(j)] = s[Old(m)]
    BY <1>7, <1>10
  <2>2. Old(j) = Old(m)
    BY <1>1, <2>1
  <2> QED BY <1>9, <2>2
<1>11. lv \ {s[i]} = {t[j] : j \in 1 .. k - 1}
  <2>1. ASSUME NEW n \in 1 .. k, s[n] # s[i]
        PROVE  s[n] \in {t[j] : j \in 1 .. k - 1}
    <3>1. PICK m \in 1 .. k - 1 : Old(m) = n
      BY <1>8, <2>1
    <3> QED BY <1>7, <3>1
  <2>2. ASSUME NEW j \in 1 .. k - 1
        PROVE  t[j] \in lv \ {s[i]}
    <3>1. Old(j) \in 1 .. k /\ Old(j) # i /\ t[j] = s[Old(j)]
      BY <1>7
    <3>2. s[Old(j)] # s[i]
      BY <1>1, <1>3, <3>1
    <3> QED BY <1>1, <3>1, <3>2
  <2>3. lv \ {s[i]} \subseteq {t[j] : j \in 1 .. k - 1}
    <3> SUFFICES ASSUME NEW x \in lv, x # s[i]
                 PROVE  x \in {t[j] : j \in 1 .. k - 1}
      OBVIOUS
    <3>1. PICK n \in 1 .. k : x = s[n]
      BY <1>1
    <3> QED BY <2>1, <3>1
  <2>4. {t[j] : j \in 1 .. k - 1} \subseteq lv \ {s[i]}
    BY <2>2
  <2> QED BY <2>3, <2>4
<1> DEFINE f == IF i = 1 THEN nxt[s[i]] ELSE fst
           l == IF i = k THEN prv[s[i]] ELSE lst
<1>12. f = (IF Len(t) = 0 THEN Null ELSE t[1]) /\ l = (IF Len(t) = 0 THEN Null ELSE t[Len(t)])
  BY <1>2, <1>4, <1>5
<1> HIDE DEF f, l
<1>13. Chain(t, f, nxt2)
  BY <1>2, <1>6, <1>12 DEF Chain
<1>14. /\ \A j \in 1 .. Len(t) : prv2[t[j]] = IF 1 < j THEN t[j - 1] ELSE Null
       /\ \A j, m \in 1 .. Len(t) : t[j] = t[m] => j = m
       /\ lv \ {s[i]} = {t[j] : j \in 1 .. Len(t)}
  BY <1>2, <1>6, <1>10, <1>11
<1>15. Holds(t, f, l, nxt2, prv2, lv \ {s[i]})
  BY <1>12, <1>13, <1>14, Zenon DEF Holds
<1> QED BY <1>15 DEF f, l, t, k

-----------------------------------------------------------------------------
(* The operations of list.c on the sequence that the links hold.           *)
(* What is known of the links before an operation.                         *)
LEMMA HeldState ==
  ASSUME NEW s, Holds(s, first, last, next, prev, live)
  PROVE  /\ s \in Seq(Elems) /\ Len(s) \in Nat
         /\ \A j \in 1 .. Len(s) : s[j] \in Elems /\ s[j] \in live /\ s[j] # Null
         /\ first = IF Len(s) = 0 THEN Null ELSE s[1]
         /\ last = IF Len(s) = 0 THEN Null ELSE s[Len(s)]
         /\ \A j \in 1 .. Len(s) : next[s[j]] = IF j < Len(s) THEN s[j + 1] ELSE Null
         /\ \A j \in 1 .. Len(s) : prev[s[j]] = IF 1 < j THEN s[j - 1] ELSE Null
<1>1. s \in Seq(Elems) /\ Len(s) \in Nat
  BY DEF Holds, Chain
<1>2. \A j \in 1 .. Len(s) : s[j] \in Elems /\ s[j] \in live /\ s[j] # Null
  <2>1. live = {s[j] : j \in 1 .. Len(s)}
    BY DEF Holds
  <2> QED BY <1>1, <2>1, PointerAssumption
<1> QED BY <1>1, <1>2, Zenon DEF Holds, Chain

(* A list that is held has each element once and every live element.       *)
LEMMA HeldOnce ==
  ASSUME NEW s, Holds(s, first, last, next, prev, live)
  PROVE  /\ \A i, j \in 1 .. Len(s) : s[i] = s[j] => i = j
         /\ \A w \in live : \E i \in 1 .. Len(s) : w = s[i]
BY Zenon DEF Holds

(* append_lst puts the element at the end.                                 *)
LEMMA AppendHolds ==
  ASSUME LinkTypes, NEW s, Holds(s, first, last, next, prev, live),
         NEW e \in Free, AppendLinks(e)
  PROVE  Holds(InsertAt(s, Len(s) + 1, e), first', last', next', prev', live')
<1> DEFINE k == Len(s)
<1>1. /\ k \in Nat /\ \A j \in 1 .. k : s[j] \in Elems /\ s[j] # e /\ s[j] # Null
      /\ first = IF k = 0 THEN Null ELSE s[1]
      /\ last = IF k = 0 THEN Null ELSE s[k]
      /\ e \in Elems /\ e \notin live
  BY HeldState DEF Free
<1>2. next \in [Elems -> Pointer] /\ prev \in [Elems -> Pointer]
  BY DEF LinkTypes
<1> HIDE DEF k
<1>3. /\ first' = IF k + 1 = 1 THEN e ELSE first
      /\ last' = IF k + 1 = k + 1 THEN e ELSE last
      /\ live' = live \cup {e}
  BY <1>1 DEF AppendLinks, Created
<1>4. /\ next'[e] = Null /\ prev'[e] = last
      /\ \A j \in 1 .. k : next'[s[j]] = IF s[j] = last THEN e ELSE next[s[j]]
      /\ \A j \in 1 .. k : prev'[s[j]] = prev[s[j]]
  BY <1>1, <1>2 DEF AppendLinks
<1>5. Inserted(s, e, k + 1, next, prev, next', prev')
  <2>1. ~(k + 1 <= k) /\ (k + 1) - 1 = k /\ (1 < k + 1 <=> k # 0)
    BY <1>1
  <2>2. \A j \in 1 .. k : j # k + 1 /\ (s[j] = last <=> j = k)
    <3>1. \A i, j \in 1 .. k : s[i] = s[j] => i = j
      BY HeldOnce DEF k
    <3> QED BY <1>1, <3>1
  <2> QED BY <1>1, <1>4, <2>1, <2>2 DEF Inserted, k
<1>6. k + 1 \in 1 .. Len(s) + 1
  BY <1>1 DEF k
<1> QED BY <1>1, <1>3, <1>5, <1>6, InsertHolds DEF k

(* prepend_lst puts the element at the front.                              *)
LEMMA PrependHolds ==
  ASSUME LinkTypes, NEW s, Holds(s, first, last, next, prev, live),
         NEW e \in Free, PrependLinks(e)
  PROVE  Holds(InsertAt(s, 1, e), first', last', next', prev', live')
<1> DEFINE k == Len(s)
<1>1. /\ k \in Nat /\ \A j \in 1 .. k : s[j] \in Elems /\ s[j] # e /\ s[j] # Null
      /\ first = IF k = 0 THEN Null ELSE s[1]
      /\ last = IF k = 0 THEN Null ELSE s[k]
      /\ e \in Elems /\ e \notin live
  BY HeldState DEF Free
<1>2. next \in [Elems -> Pointer] /\ prev \in [Elems -> Pointer]
  BY DEF LinkTypes
<1> HIDE DEF k
<1>3. /\ first' = IF 1 = 1 THEN e ELSE first
      /\ last' = IF 1 = k + 1 THEN e ELSE last
      /\ live' = live \cup {e}
  BY <1>1 DEF PrependLinks, Created
<1>4. /\ next'[e] = first /\ prev'[e] = Null
      /\ \A j \in 1 .. k : prev'[s[j]] = IF s[j] = first THEN e ELSE prev[s[j]]
      /\ \A j \in 1 .. k : next'[s[j]] = next[s[j]]
  BY <1>1, <1>2 DEF PrependLinks
<1>5. Inserted(s, e, 1, next, prev, next', prev')
  <2>1. 1 <= k <=> k # 0
    BY <1>1
  <2>2. \A j \in 1 .. k : j # 1 - 1 /\ (s[j] = first <=> j = 1)
    <3>1. \A i, j \in 1 .. k : s[i] = s[j] => i = j
      BY HeldOnce DEF k
    <3> QED BY <1>1, <3>1
  <2> QED BY <1>1, <1>4, <2>1, <2>2 DEF Inserted, k
<1>6. 1 \in 1 .. Len(s) + 1
  BY <1>1 DEF k
<1> QED BY <1>1, <1>3, <1>5, <1>6, InsertHolds DEF k

(* insert_lst puts it between two neighbours.                              *)
LEMMA SpliceHolds ==
  ASSUME LinkTypes, NEW s, Holds(s, first, last, next, prev, live),
         NEW e \in Free, NEW i \in 2 .. Len(s), Splice(e, s[i - 1], s[i])
  PROVE  Holds(InsertAt(s, i, e), first', last', next', prev', live')
<1> DEFINE k == Len(s)
<1>1. /\ k \in Nat /\ \A j \in 1 .. k : s[j] \in Elems /\ s[j] # e
      /\ e \in Elems /\ e \notin live
      /\ \A m, j \in 1 .. k : s[m] = s[j] => m = j
  BY HeldState, HeldOnce DEF Free
<1>2. next \in [Elems -> Pointer] /\ prev \in [Elems -> Pointer]
  BY DEF LinkTypes
<1>3. i \in 2 .. k
  OBVIOUS
<1> HIDE DEF k
<1>4. /\ i \in 1 .. k + 1 /\ i # 1 /\ i # k + 1 /\ i <= k /\ 1 < i
      /\ i \in 1 .. k /\ i - 1 \in 1 .. k
  BY <1>1, <1>3
<1>5. /\ first' = IF i = 1 THEN e ELSE first
      /\ last' = IF i = k + 1 THEN e ELSE last
      /\ live' = live \cup {e}
  BY <1>4 DEF Splice, Created
<1>6. /\ next' = [next EXCEPT ![e] = s[i], ![s[i - 1]] = e]
      /\ prev' = [prev EXCEPT ![e] = s[i - 1], ![s[i]] = e]
  BY DEF Splice, SplicedPrev
<1>7. /\ next'[e] = s[i] /\ prev'[e] = s[i - 1]
      /\ \A j \in 1 .. k : next'[s[j]] = IF s[j] = s[i - 1] THEN e ELSE next[s[j]]
      /\ \A j \in 1 .. k : prev'[s[j]] = IF s[j] = s[i] THEN e ELSE prev[s[j]]
  BY <1>1, <1>2, <1>4, <1>6
<1>8. \A j \in 1 .. k : /\ s[j] = s[i - 1] <=> j = i - 1
                        /\ s[j] = s[i] <=> j = i
  BY <1>1, <1>4
<1>9. Inserted(s, e, i, next, prev, next', prev')
  BY <1>4, <1>7, <1>8 DEF Inserted, k
<1> QED BY <1>1, <1>4, <1>5, <1>9, InsertHolds DEF k

(* insert_lst after the element at i, and before it.                       *)
LEMMA InsertLstHolds ==
  ASSUME LinkTypes, NEW s, Holds(s, first, last, next, prev, live),
         NEW e \in Free, NEW i \in 1 .. Len(s)
  PROVE  /\ InsertAfterLinks(s[i], e) =>
              Holds(InsertAt(s, i + 1, e), first', last', next', prev', live')
         /\ InsertBeforeLinks(s[i], e) =>
              Holds(InsertAt(s, i, e), first', last', next', prev', live')
<1>1. /\ Len(s) \in Nat /\ \A j \in 1 .. Len(s) : s[j] # Null
      /\ next[s[i]] = IF i < Len(s) THEN s[i + 1] ELSE Null
      /\ prev[s[i]] = IF 1 < i THEN s[i - 1] ELSE Null
  BY HeldState
<1>2. ASSUME InsertAfterLinks(s[i], e)
      PROVE  Holds(InsertAt(s, i + 1, e), first', last', next', prev', live')
  <2>1. CASE i = Len(s)
    <3>1. AppendLinks(e)
      BY <1>1, <1>2, <2>1 DEF InsertAfterLinks
    <3> QED BY <2>1, <3>1, AppendHolds
  <2>2. CASE i # Len(s)
    <3>1. i < Len(s) /\ i + 1 \in 2 .. Len(s) /\ (i + 1) - 1 = i /\ i + 1 \in 1 .. Len(s)
      BY <1>1, <2>2
    <3>2. next[s[i]] = s[i + 1] /\ s[i + 1] # Null
      BY <1>1, <3>1
    <3>3. prev[s[i + 1]] = s[i]
      <4>1. prev[s[i + 1]] = IF 1 < i + 1 THEN s[(i + 1) - 1] ELSE Null
        BY <3>1, HeldState
      <4> QED BY <3>1, <4>1
    <3>4. Splice(e, s[(i + 1) - 1], s[i + 1])
      BY <1>2, <3>1, <3>2, <3>3 DEF InsertAfterLinks
    <3> QED BY <3>1, <3>4, SpliceHolds
  <2> QED BY <2>1, <2>2
<1>3. ASSUME InsertBeforeLinks(s[i], e)
      PROVE  Holds(InsertAt(s, i, e), first', last', next', prev', live')
  <2>1. CASE i = 1
    <3>1. PrependLinks(e)
      BY <1>1, <1>3, <2>1 DEF InsertBeforeLinks
    <3> QED BY <2>1, <3>1, PrependHolds
  <2>2. CASE i # 1
    <3>1. 1 < i /\ i \in 2 .. Len(s) /\ i - 1 \in 1 .. Len(s) /\ (i - 1) + 1 = i
          /\ i - 1 < Len(s)
      BY <1>1, <2>2
    <3>2. prev[s[i]] = s[i - 1] /\ s[i - 1] # Null
      BY <1>1, <3>1
    <3>3. next[s[i - 1]] = s[i]
      <4>1. next[s[i - 1]] = IF i - 1 < Len(s) THEN s[(i - 1) + 1] ELSE Null
        BY <3>1, HeldState
      <4> QED BY <3>1, <4>1
    <3>4. Splice(e, s[i - 1], s[i])
      BY <1>3, <3>2, <3>3 DEF InsertBeforeLinks
    <3> QED BY <3>1, <3>4, SpliceHolds
  <2> QED BY <2>1, <2>2
<1> QED BY <1>2, <1>3

(* remove_lst takes the element at i out, and pop_lst the first.           *)
LEMMA RemoveLstHolds ==
  ASSUME LinkTypes, NEW s, Holds(s, first, last, next, prev, live),
         NEW i \in 1 .. Len(s),
         RemoveLinks(s[i]) \/ (i = 1 /\ PopLinks)
  PROVE  Holds(RemoveAt(s, i), first', last', next', prev', live')
<1> DEFINE k == Len(s)
           w == s[i]
<1>1. /\ k \in Nat /\ \A j \in 1 .. k : s[j] \in Elems /\ s[j] # Null
      /\ first = IF k = 0 THEN Null ELSE s[1]
      /\ last = IF k = 0 THEN Null ELSE s[k]
      /\ \A j \in 1 .. k : next[s[j]] = IF j < k THEN s[j + 1] ELSE Null
      /\ \A j \in 1 .. k : prev[s[j]] = IF 1 < j THEN s[j - 1] ELSE Null
  BY HeldState
<1>2. /\ next \in [Elems -> Pointer] /\ prev \in [Elems -> Pointer]
      /\ i \in 1 .. k /\ \A m, j \in 1 .. k : s[m] = s[j] => m = j
  BY HeldOnce DEF LinkTypes
<1>3. RemoveLinks(w) \/ (w = first /\ PopLinks)
  BY <1>1, <1>2
<1>4. \A j \in 1 .. k : s[j] = w <=> j = i
  BY <1>2
<1> HIDE DEF k
<1>5. /\ next[w] = IF i < k THEN s[i + 1] ELSE Null
      /\ prev[w] = IF 1 < i THEN s[i - 1] ELSE Null
      /\ w # Null /\ w \in Elems
  BY <1>1, <1>2
<1> HIDE DEF w
<1>6. /\ i < k => i + 1 \in 1 .. k /\ next[w] # Null
      /\ ~(i < k) => i = k /\ next[w] = Null
      /\ 1 < i => i - 1 \in 1 .. k /\ prev[w] # Null
      /\ ~(1 < i) => i = 1 /\ prev[w] = Null
  BY <1>1, <1>2, <1>5
<1>7. live' = live \ {w}
  BY <1>3 DEF RemoveLinks, PopLinks, Freed
<1>8. /\ first' = IF prev[w] = Null THEN next[w] ELSE first
      /\ last' = IF next[w] = Null THEN prev[w] ELSE last
  <2>1. CASE RemoveLinks(w)
    BY <2>1 DEF RemoveLinks
  <2>2. CASE w = first /\ PopLinks
    <3>1. k # 0 /\ w = s[1] /\ i = 1
      BY <1>1, <1>2, <1>4, <1>5, <2>2
    <3>2. prev[w] = Null
      BY <1>6, <3>1
    <3> QED BY <2>2, <3>2 DEF PopLinks
  <2> QED BY <1>3, <2>1, <2>2
<1>9. /\ \A j \in 1 .. k : j # i =>
           next'[s[j]] = IF prev[w] # Null /\ s[j] = prev[w] THEN next[w] ELSE next[s[j]]
      /\ \A j \in 1 .. k : j # i =>
           prev'[s[j]] = IF next[w] # Null /\ s[j] = next[w] THEN prev[w] ELSE prev[s[j]]
  <2>1. CASE RemoveLinks(w)
    <3>1. next' = IF prev[w] # Null THEN [next EXCEPT ![prev[w]] = next[w]] ELSE next
      BY <2>1 DEF RemoveLinks, BypassedNext
    <3>2. prev' = IF next[w] # Null THEN [prev EXCEPT ![next[w]] = prev[w]] ELSE prev
      BY <2>1 DEF RemoveLinks
    <3> QED BY <1>1, <1>2, <3>1, <3>2
  <2>2. CASE w = first /\ PopLinks
    <3>1. k # 0 /\ w = s[1] /\ i = 1
      BY <1>1, <1>2, <1>4, <1>5, <2>2
    <3>2. prev[w] = Null
      BY <1>6, <3>1
    <3>3. next' = next
      BY <2>2 DEF PopLinks
    <3>4. prev' = IF next[w] # Null THEN [prev EXCEPT ![next[w]] = Null] ELSE prev
      BY <2>2 DEF PopLinks
    <3> QED BY <1>1, <1>2, <3>2, <3>3, <3>4
  <2> QED BY <1>3, <2>1, <2>2
<1>10. /\ \A j \in 1 .. k : (prev[w] # Null /\ s[j] = prev[w]) <=> j = i - 1
       /\ \A j \in 1 .. k : (next[w] # Null /\ s[j] = next[w]) <=> j = i + 1
  <2>1. ASSUME NEW j \in 1 .. k
        PROVE  (prev[w] # Null /\ s[j] = prev[w]) <=> j = i - 1
    BY <1>1, <1>2, <1>5, <1>6
  <2>2. ASSUME NEW j \in 1 .. k
        PROVE  (next[w] # Null /\ s[j] = next[w]) <=> j = i + 1
    BY <1>1, <1>2, <1>5, <1>6
  <2> QED BY <2>1, <2>2
<1>11. Removed(s, i, next, prev, next', prev')
  BY <1>9, <1>10 DEF Removed, k, w
<1>12. /\ first' = IF i = 1 THEN next[w] ELSE first
       /\ last' = IF i = k THEN prev[w] ELSE last
  BY <1>2, <1>6, <1>8
<1> QED BY <1>2, <1>7, <1>11, <1>12, RemoveHolds DEF k, w

-----------------------------------------------------------------------------
(* The links hold Items: the invariant behind the abstract list.           *)
HInv == IInv /\ HoldsItems

(* The sequence that the links hold after a step is Items.                 *)
LEMMA NextItems ==
  ASSUME next' \in [Elems -> Pointer], NEW t,
         Holds(t, first', last', next', prev', live')
  PROVE  Items' = t /\ HoldsItems'
<1>1. Items' = WalkOf(next', Cardinality(live'), first')
  BY DEF Items, WalkFrom, WalkOf
<1>2. Items' = t
  BY <1>1, ItemsAreHeld
<1> QED BY <1>2 DEF HoldsItems

(* The empty list holds the empty sequence.                                *)
LEMMA EmptyHolds ==
  ASSUME NEW nxt, NEW prv
  PROVE  Holds(<<>>, Null, Null, nxt, prv, {})
BY DEF Holds, Chain

(***************************************************************************)
(* get_elem (list.c:242-263) counts from the front with an index that is   *)
(* not negative and from the back with a negative one.                     *)
(***************************************************************************)
LEMMA ItemsAreIndexed == HInv => IndexingIsRight
<1> SUFFICES ASSUME HInv, NEW i \in -(Len(Items) + 1) .. Len(Items)
             PROVE  GetElem(i) = IF i \in 0 .. Len(Items) - 1 THEN Items[i + 1]
                      ELSE IF -i \in 1 .. Len(Items) THEN Items[Len(Items) + i + 1]
                      ELSE Null
  BY DEF IndexingIsRight
<1> DEFINE k == Len(Items)
<1>1. Holds(Items, first, last, next, prev, live)
  BY DEF HInv, HoldsItems
<1>2. k \in Nat /\ i \in Int /\ Chain(Items, first, next)
  BY <1>1 DEF Holds, Chain
<1>3. /\ Chain(Backwards(Items), last, prev) /\ Len(Backwards(Items)) = k
      /\ \A j \in 1 .. k : Backwards(Items)[j] = Items[k + 1 - j]
  BY <1>1, HeldBackwards
<1> HIDE DEF k
<1>4. CASE i >= 0
  <2>1. GetElem(i) = IF i < k THEN Items[i + 1] ELSE Null
    BY <1>2, <1>4, FollowIsChain DEF GetElem, k
  <2>2. i \in 0 .. k - 1 <=> i < k
    BY <1>2, <1>4
  <2>3. ~(-i \in 1 .. k)
    BY <1>2, <1>4
  <2> QED BY <2>1, <2>2, <2>3 DEF k
<1>5. CASE i < 0
  <2> DEFINE n == -i - 1
  <2>1. n \in Nat /\ ~(i >= 0) /\ ~(i \in 0 .. k - 1) /\ (n < k <=> -i \in 1 .. k)
    BY <1>2, <1>5
  <2>2. n < k => n + 1 \in 1 .. k /\ k + 1 - (n + 1) = k + i + 1
    BY <1>2, <1>5
  <2>3. GetElem(i) = Follow(prev, last, n)
    BY <2>1 DEF GetElem
  <2> HIDE DEF n
  <2>4. GetElem(i) = IF n < k THEN Backwards(Items)[n + 1] ELSE Null
    BY <1>3, <2>1, <2>3, FollowIsChain
  <2>5. n < k => Backwards(Items)[n + 1] = Items[k + i + 1]
    BY <1>3, <2>2
  <2> QED BY <2>1, <2>4, <2>5 DEF k
<1> QED BY <1>2, <1>4, <1>5

(* The abstract list finds an element where it is.                         *)
LEMMA IndexOfItem ==
  ASSUME HoldsItems, NEW i \in 1 .. Len(Items)
  PROVE  Abstract!IndexOf(Items[i]) = i
<1>1. DOMAIN Items = 1 .. Len(Items)
  BY HeldState DEF HoldsItems
<1>2. \A j \in 1 .. Len(Items) : Items[j] = Items[i] => j = i
  BY HeldOnce DEF HoldsItems
<1> QED BY <1>1, <1>2 DEF Abstract!IndexOf

(* The links hold the empty list after create_lst.                         *)
LEMMA InitHolds == Init => HoldsItems /\ Abstract!Init
<1> SUFFICES ASSUME Init PROVE HoldsItems /\ Abstract!Init
  OBVIOUS
<1>1. Holds(<<>>, first, last, next, prev, live)
  BY EmptyHolds DEF Init
<1>2. next \in [Elems -> Pointer]
  BY DEF Init, Pointer
<1>3. Items = WalkOf(next, Cardinality(live), first)
  BY DEF Items, WalkFrom, WalkOf
<1>4. Items = <<>>
  BY <1>1, <1>2, <1>3, ItemsAreHeld
<1> QED BY <1>1, <1>4 DEF HoldsItems, Init, Abstract!Init

(* Every operation changes Items as the operation of ListSpec does.        *)
LEMMA StepHolds ==
  ASSUME HInv, IInv', [Next]_vars
  PROVE  HoldsItems' /\ [Abstract!Next]_<<Items, IF iterating THEN crnt ELSE Null, op>>
<1> DEFINE at == IF iterating THEN crnt ELSE Null
           k == Len(Items)
<1>1. /\ Holds(Items, first, last, next, prev, live) /\ LinkTypes
      /\ next' \in [Elems -> Pointer]
  BY DEF HInv, HoldsItems, IInv, TypeOK, LinkTypes
<1>2. /\ Items \in Seq(Elems) /\ k \in Nat /\ DOMAIN Items = 1 .. k
      /\ \A j \in 1 .. k : Items[j] \in Elems /\ Items[j] \in live /\ Items[j] # Null
      /\ first = IF k = 0 THEN Null ELSE Items[1]
      /\ last = IF k = 0 THEN Null ELSE Items[k]
  <2>1. Items \in Seq(Elems)
    BY <1>1, HeldState
  <2>2. DOMAIN Items = 1 .. k /\ k \in Nat
    BY <2>1
  <2> QED BY <1>1, <2>1, <2>2, HeldState
<1>3. \A j \in 1 .. k : next[Items[j]] = IF j < k THEN Items[j + 1] ELSE Null
  BY <1>1, HeldState
<1>4. /\ \A w \in live : \E i \in 1 .. k : w = Items[i]
      /\ ToSet(Items) = live
  <2>1. \A w \in live : \E i \in 1 .. k : w = Items[i]
    BY <1>1, HeldOnce
  <2>2. live = {Items[i] : i \in 1 .. k}
    BY <1>1 DEF Holds
  <2>3. ToSet(Items) = live
    BY <1>2, <2>2, Zenon DEF ToSet
  <2> QED BY <2>1, <2>3
<1>5. /\ Abstract!Free = Free /\ Abstract!ToSet(Items) = live
      /\ \A i \in 1 .. k + 1, e \in Elems : Abstract!InsertAt(Items, i, e) = InsertAt(Items, i, e)
      /\ \A i \in 1 .. k : Abstract!RemoveAt(Items, i) = RemoveAt(Items, i)
  BY <1>4 DEF Abstract!Free, Free, Abstract!ToSet, ToSet, Abstract!InsertAt, InsertAt,
              Abstract!RemoveAt, RemoveAt
<1> HIDE DEF k
<1>6. ASSUME UNCHANGED <<first, last, next, prev, live>>
      PROVE  Items' = Items /\ HoldsItems'
  BY <1>1, <1>6, NextItems
<1>7. CASE UNCHANGED vars
  BY <1>6, <1>7 DEF vars, links
<1>8. CASE AppendLst
  <2>1. PICK e \in Free : AppendLinks(e) /\ Changes(<<"append", e>>)
    BY <1>8 DEF AppendLst
  <2>2. Items' = InsertAt(Items, Len(Items) + 1, e) /\ HoldsItems'
    BY <1>1, <2>1, AppendHolds, NextItems
  <2>3. at' = Null /\ op' = <<"append", e>>
    BY <2>1 DEF Changes
  <2>4. e \in Elems /\ Len(Items) + 1 \in 1 .. k + 1
    BY <1>2 DEF Free, k
  <2>5. Abstract!Append_
    BY <1>5, <2>2, <2>3, <2>4 DEF Abstract!Append_, Abstract!Insert
  <2> QED BY <2>2, <2>5 DEF Abstract!Next
<1>9. CASE PrependLst
  <2>1. PICK e \in Free : PrependLinks(e) /\ Changes(<<"prepend", e>>)
    BY <1>9 DEF PrependLst
  <2>2. Items' = InsertAt(Items, 1, e) /\ HoldsItems'
    BY <1>1, <2>1, PrependHolds, NextItems
  <2>3. at' = Null /\ op' = <<"prepend", e>>
    BY <2>1 DEF Changes
  <2>4. e \in Elems /\ 1 \in 1 .. k + 1
    BY <1>2 DEF Free
  <2>5. Abstract!Prepend
    BY <1>5, <2>2, <2>3, <2>4 DEF Abstract!Prepend, Abstract!Insert
  <2> QED BY <2>2, <2>5 DEF Abstract!Next
<1>10. CASE InsertAfter
  <2>1. PICK w \in live, e \in Free :
          InsertAfterLinks(w, e) /\ Changes(<<"insert after", w, e>>)
    BY <1>10 DEF InsertAfter
  <2>2. PICK i \in 1 .. k : w = Items[i]
    BY <1>4
  <2>3. Items' = InsertAt(Items, i + 1, e) /\ HoldsItems'
    BY <1>1, <2>1, <2>2, InsertLstHolds, NextItems DEF k
  <2>4. at' = Null /\ op' = <<"insert after", w, e>>
    BY <2>1 DEF Changes
  <2>5. e \in Elems /\ i + 1 \in 1 .. k + 1
    BY <1>2 DEF Free
  <2>6. Abstract!IndexOf(w) = i
    BY <2>2, IndexOfItem DEF HInv, k
  <2>7. Abstract!InsertAfter
    BY <1>5, <2>3, <2>4, <2>5, <2>6 DEF Abstract!InsertAfter, Abstract!Insert
  <2> QED BY <2>3, <2>7 DEF Abstract!Next
<1>11. CASE InsertBefore
  <2>1. PICK w \in live, e \in Free :
          InsertBeforeLinks(w, e) /\ Changes(<<"insert before", w, e>>)
    BY <1>11 DEF InsertBefore
  <2>2. PICK i \in 1 .. k : w = Items[i]
    BY <1>4
  <2>3. Items' = InsertAt(Items, i, e) /\ HoldsItems'
    BY <1>1, <2>1, <2>2, InsertLstHolds, NextItems DEF k
  <2>4. at' = Null /\ op' = <<"insert before", w, e>>
    BY <2>1 DEF Changes
  <2>5. e \in Elems /\ i \in 1 .. k + 1
    BY <1>2 DEF Free
  <2>6. Abstract!IndexOf(w) = i
    BY <2>2, IndexOfItem DEF HInv, k
  <2>7. Abstract!InsertBefore
    BY <1>5, <2>3, <2>4, <2>5, <2>6 DEF Abstract!InsertBefore, Abstract!Insert
  <2> QED BY <2>3, <2>7 DEF Abstract!Next
<1>12. CASE RemoveLst
  <2>1. PICK w \in live : RemoveLinks(w) /\ Changes(<<"remove", w>>)
    BY <1>12 DEF RemoveLst
  <2>2. PICK i \in 1 .. k : w = Items[i]
    BY <1>4
  <2>3. Items' = RemoveAt(Items, i) /\ HoldsItems'
    BY <1>1, <2>1, <2>2, RemoveLstHolds, NextItems DEF k
  <2>4. at' = Null /\ op' = <<"remove", w>>
    BY <2>1 DEF Changes
  <2>5. Abstract!IndexOf(w) = i
    BY <2>2, IndexOfItem DEF HInv, k
  <2>6. Abstract!Remove_
    BY <1>5, <2>3, <2>4, <2>5 DEF Abstract!Remove_, Abstract!Delete
  <2> QED BY <2>3, <2>6 DEF Abstract!Next
<1>13. CASE PopLst
  <2>1. first # Null /\ PopLinks /\ Changes(<<"pop">>)
    BY <1>13 DEF PopLst
  <2>2. k # 0 /\ 1 \in 1 .. k /\ Items # <<>>
    BY <1>2, <2>1 DEF k
  <2>3. Items' = RemoveAt(Items, 1) /\ HoldsItems'
    BY <1>1, <2>1, <2>2, RemoveLstHolds, NextItems DEF k
  <2>4. at' = Null /\ op' = <<"pop">>
    BY <2>1 DEF Changes
  <2>5. Abstract!IndexOf(Items[1]) = 1
    BY <2>2, IndexOfItem DEF HInv, k
  <2>6. Abstract!Pop
    BY <1>5, <2>2, <2>3, <2>4, <2>5 DEF Abstract!Pop, Abstract!Delete
  <2> QED BY <2>3, <2>6 DEF Abstract!Next
<1>14. CASE DestroyLst
  <2>1. /\ live' = live \ {Follow(next, first, n) : n \in 0 .. Cardinality(live)}
        /\ first' = Null /\ last' = Null /\ Changes(<<"destroyed">>)
    BY <1>14 DEF DestroyLst
  <2>2. Cardinality(live) = k
    BY <1>1, ItemsAreHeld DEF k, LinkTypes
  <2>3. ASSUME NEW i \in 1 .. k
        PROVE  Items[i] = Follow(next, first, i - 1) /\ i - 1 \in 0 .. k
    <3>1. i - 1 \in Nat /\ i - 1 < k /\ (i - 1) + 1 = i /\ i - 1 \in 0 .. k
      BY <1>2
    <3>2. Chain(Items, first, next)
      BY <1>1 DEF Holds
    <3> QED BY <3>1, <3>2, FollowIsChain DEF k
  <2>4. live' = {}
    <3>1. \A w \in live : w \in {Follow(next, first, n) : n \in 0 .. k}
      BY <1>4, <2>3
    <3> QED BY <2>1, <2>2, <3>1
  <2>5. Items' = <<>> /\ HoldsItems'
    BY <1>1, <2>1, <2>4, EmptyHolds, NextItems
  <2>6. at' = Null /\ op' = <<"destroyed">>
    BY <2>1 DEF Changes
  <2> QED BY <2>5, <2>6 DEF Abstract!Next, Abstract!Destroy
<1>15. CASE Killed
  <2>1. Items' = Items /\ HoldsItems'
    BY <1>6, <1>15 DEF Killed, links
  <2>2. Cardinality(live) = k
    BY <1>1, ItemsAreHeld DEF k, LinkTypes
  <2>3. PICK i \in -(k + 1) .. k : GetElem(i) = Null /\ Changes(<<"killed", i>>)
    BY <1>15, <2>2 DEF Killed
  <2>4. i \notin -k .. k - 1
    <3>1. GetElem(i) = IF i \in 0 .. k - 1 THEN Items[i + 1]
                       ELSE IF -i \in 1 .. k THEN Items[k + i + 1] ELSE Null
      BY <2>3, ItemsAreIndexed DEF IndexingIsRight, k
    <3>2. /\ i \in 0 .. k - 1 => i + 1 \in 1 .. k
          /\ -i \in 1 .. k => k + i + 1 \in 1 .. k
          /\ i \in -k .. k - 1 => i \in 0 .. k - 1 \/ -i \in 1 .. k
      BY <1>2, <2>3
    <3> QED BY <1>2, <2>3, <3>1, <3>2
  <2>5. at' = Null /\ op' = <<"killed", i>>
    BY <2>3 DEF Changes
  <2> QED BY <2>1, <2>3, <2>4, <2>5
          DEF Abstract!Next, Abstract!Killed, Abstract!Indexes, k
<1>16. CASE PeekLst
  <2>1. Items' = Items /\ HoldsItems'
    BY <1>6, <1>16 DEF PeekLst, links
  <2>2. at' = at /\ op' = <<"peek">>
    BY <1>16 DEF PeekLst, links
  <2> QED BY <2>1, <2>2 DEF Abstract!Next, Abstract!Peek
<1>17. CASE ResetLst
  <2>1. Items' = Items /\ HoldsItems'
    BY <1>6, <1>17 DEF ResetLst
  <2>2. at' = first /\ op' = <<"reset">>
    BY <1>17 DEF ResetLst
  <2>3. first = IF Items = <<>> THEN Null ELSE Items[1]
    BY <1>2 DEF k
  <2> QED BY <2>1, <2>2, <2>3 DEF Abstract!Next, Abstract!Reset
<1>18. CASE IterateLst
  <2>1. Items' = Items /\ HoldsItems'
    BY <1>6, <1>18 DEF IterateLst
  <2>2. at = crnt /\ at' = Successor(crnt) /\ op' = <<"iterate">>
    BY <1>18 DEF IterateLst
  <2>3. CASE crnt = Null
    <3>1. at = Null /\ at' = Null
      BY <2>2, <2>3 DEF Successor
    <3> QED BY <2>1, <2>2, <3>1 DEF Abstract!Next, Abstract!IterateAtEnd
  <2>4. CASE crnt # Null
    <3>1. crnt \in live
      BY <1>18, <2>4 DEF IterateLst, HInv, IInv, CursorIsLive
    <3>2. PICK i \in 1 .. k : crnt = Items[i]
      BY <1>4, <3>1
    <3>3. Abstract!IndexOf(crnt) = i
      BY <3>2, IndexOfItem DEF HInv, k
    <3>4. at' = IF i < k THEN Items[i + 1] ELSE Null
      BY <1>3, <2>2, <2>4, <3>2 DEF Successor
    <3>5. Abstract!Last(Items) = Items[k]
      BY DEF Abstract!Last, k
    <3>6. crnt = Items[k] <=> ~(i < k)
      <4>1. k \in 1 .. k
        BY <1>2
      <4>2. Items[i] = Items[k] => i = k
        BY <1>1, <4>1, HeldOnce DEF k
      <4> QED BY <1>2, <3>2, <4>2
    <3>7. at' = IF at = Abstract!Last(Items) THEN Null
                ELSE Items[Abstract!IndexOf(at) + 1]
      BY <2>2, <3>3, <3>4, <3>5, <3>6
    <3> QED BY <2>1, <2>2, <2>4, <3>7 DEF Abstract!Next, Abstract!Iterate
  <2> QED BY <2>3, <2>4
<1> QED BY <1>7, <1>8, <1>9, <1>10, <1>11, <1>12, <1>13, <1>14, <1>15, <1>16,
           <1>17, <1>18 DEF Next

(* The links hold Items in every state.                                    *)
THEOREM ItemsAreAlwaysHeld == Spec => []HInv
<1>1. Init => HInv
  BY InitIInv, InitHolds DEF HInv
<1>2. HInv /\ [Next]_vars => HInv'
  <2>1. HInv /\ [Next]_vars => IInv'
    BY StepIInv DEF HInv
  <2> QED BY <2>1, StepHolds DEF HInv
<1> QED BY <1>1, <1>2, PTL DEF Spec

(***************************************************************************)
(* The doubly linked list is a sequence: every operation of list.c         *)
(* (114-433) does with the links what ListSpec says, on lists of any       *)
(* length and wherever the element is.                                     *)
(***************************************************************************)
THEOREM ListImplementsSequence == Spec => ImplementsList
<1>1. Init => Abstract!Init
  BY InitHolds
<1>2. HInv /\ HInv' /\ [Next]_vars
        => [Abstract!Next]_<<Items, IF iterating THEN crnt ELSE Null, op>>
  BY StepHolds DEF HInv
<1>3. Spec => Abstract!Spec
  BY <1>1, <1>2, ItemsAreAlwaysHeld, PTL DEF Spec, Abstract!Spec
<1> QED BY <1>3 DEF ImplementsList

(***************************************************************************)
(* Everything that is allocated can be reached from first, so that         *)
(* destroy_lst frees it all (list.c 80-92).                                *)
(***************************************************************************)
THEOREM NothingIsLost == Spec => []NothingLeaks
<1>1. HInv => NothingLeaks
  <2> SUFFICES ASSUME HInv PROVE NothingLeaks
    OBVIOUS
  <2>1. /\ Holds(Items, first, last, next, prev, live)
        /\ next \in [Elems -> Pointer]
    BY DEF HInv, HoldsItems, IInv, TypeOK
  <2>2. Cardinality(live) = Len(Items)
    BY <2>1, ItemsAreHeld
  <2>3. Items \in Seq(Elems) /\ live = {Items[i] : i \in 1 .. Len(Items)}
    BY <2>1 DEF Holds, Chain
  <2>4. DOMAIN Items = 1 .. Len(Items)
    BY <2>3
  <2>5. {Items[i] : i \in DOMAIN Items} = live
    BY <2>3, <2>4, Zenon
  <2> QED BY <2>2, <2>5 DEF NothingLeaks
<1> QED BY <1>1, ItemsAreAlwaysHeld, PTL

(***************************************************************************)
(* get_elem with any index finds the element that is there, or none, in    *)
(* every state of a list of any length.                                    *)
(***************************************************************************)
THEOREM IndicesAreRight == Spec => []IndexingIsRight
BY ItemsAreIndexed, ItemsAreAlwaysHeld, PTL
=============================================================================
