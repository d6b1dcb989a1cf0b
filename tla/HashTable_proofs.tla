-------------------------- MODULE HashTable_proofs --------------------------
(***************************************************************************)
(* For every set of keys, whatever they collide on, and every sequence of  *)
(* calls: find_slot returns, the load is bounded, no stored key gets lost, *)
(* and until the first removal the table is a map.                         *)
(***************************************************************************)
EXTENDS HashProps, FiniteSetTheorems, WellFoundedInduction, TLAPS

Slot == Entry \cup {Null, Tombstone}
Tables(c) == [0 .. c - 1 -> Slot]

(* EntriesAreReachable, of any table.                                      *)
Reaches(t, c, k, i) ==
  \E n \in 0 .. 2 * c - 1 :
    /\ Probe(k, c, n) = i
    /\ \A m \in 0 .. n : t[Probe(k, c, m)] # Null

Reachable(t, c) ==
  \A k \in Keys : \A i \in 0 .. c - 1 : Holds(t[i], k) => Reaches(t, c, k, i)

Size(t) == Cardinality(Entries(t))

(* Every key at most once, and no tombstones: what the table is until the  *)
(* first removal.  The map that it stands for, of any table.               *)
IsMap(t, c) ==
  /\ \A i \in 0 .. c - 1 : t[i] # Tombstone
  /\ \A i, j \in 0 .. c - 1 :
       t[i] \in Entry /\ t[j] \in Entry /\ t[i].key = t[j].key => i = j

Contents(t) == {t[i] : i \in Entries(t)}

StoredIn(t) ==
  [k \in {t[i].key : i \in Entries(t)} |->
     t[CHOOSE i \in {j \in DOMAIN t : Holds(t[j], k)} : TRUE].data]

TypeOK == cap \in Nat /\ 8 <= cap /\ table \in Tables(cap) /\ misses \in Nat

IInv ==
  /\ TypeOK
  /\ LoadIsBounded
  /\ CountIsEntriesAndMisses
  /\ Reachable(table, cap)

MapInv == removed \/ IsMap(table, cap)

-----------------------------------------------------------------------------
(* A set of natural numbers has a least element.                           *)
LEMMA LeastNumber ==
  ASSUME NEW T, T \subseteq Nat, T # {}
  PROVE  \E x \in T : \A y \in 0 .. x - 1 : y \notin T
<1>1. PICK x \in T : \A y \in T : ~(<<y, x>> \in OpToRel(<, Nat))
  BY WFMin, NatLessThanWellFounded, Zenon
<1>2. \A y \in T : ~(y < x)
  BY <1>1 DEF OpToRel
<1> QED BY <1>2

(* A slot is an entry, or one of the two marks; only an entry has a key.   *)
LEMMA SlotCases ==
  /\ \A s \in Slot : IsEntry(s) <=> s \in Entry
  /\ \A s \in Slot, k \in Keys : Holds(s, k) => s \in Entry
  /\ \A e \in Entry : e.key \in Keys /\ e.data \in Values /\ Holds(e, e.key)
  /\ \A e \in Entry : e = [key |-> e.key, data |-> e.data]
  /\ Null # Tombstone /\ Null \notin Entry /\ Tombstone \notin Entry
<1>1. Null.key = "NULL slot" /\ Tombstone.key = "NULL key"
  BY DEF Null, Tombstone
<1>2. Null.key \notin Keys /\ Tombstone.key \notin Keys
  BY <1>1, HashAssumption
<1>3. \A e \in Entry : e.key \in Keys /\ e.data \in Values
  BY DEF Entry
<1>4. Null # Tombstone /\ Null \notin Entry /\ Tombstone \notin Entry
  BY <1>1, <1>2, <1>3
<1>5. \A e \in Entry : e = [key |-> e.key, data |-> e.data]
  BY DEF Entry
<1>6. \A s \in Slot : IsEntry(s) <=> s \in Entry
  BY <1>4 DEF IsEntry, Slot
<1>7. \A s \in Slot, k \in Keys : Holds(s, k) => s \in Entry
  BY <1>2 DEF Holds, Slot
<1> QED BY <1>3, <1>4, <1>5, <1>6, <1>7 DEF Holds

-----------------------------------------------------------------------------
(* The probes stay inside of the table, and the second round sees it all.  *)
LEMMA ProbesAreSlots ==
  ASSUME NEW c \in Nat, 0 < c, NEW k \in Keys
  PROVE  /\ \A n \in Nat : Probe(k, c, n) \in 0 .. c - 1
         /\ \A i \in 0 .. c - 1 : \E n \in 0 .. 2 * c - 1 : Probe(k, c, n) = i
<1>1. Home(k, c) \in 0 .. c - 1
  <2>1. HashOf[k] \in Nat
    BY HashAssumption
  <2> QED BY <2>1 DEF Home
<1>2. Distance(k, c) \in Nat
  BY <1>1 DEF Distance
<1>3. ASSUME NEW n \in Nat
      PROVE  Probe(k, c, n) \in 0 .. c - 1
  <2>1. n * Distance(k, c) \in Nat
    BY <1>2
  <2>2. Home(k, c) + n * Distance(k, c) \in Int /\ Home(k, c) + n \in Int
    BY <1>1, <2>1
  <2> QED BY <2>2 DEF Probe
<1>4. ASSUME NEW i \in 0 .. c - 1
      PROVE  \E n \in 0 .. 2 * c - 1 : Probe(k, c, n) = i
  <2>1. CASE Home(k, c) <= i
    <3> DEFINE n == i - Home(k, c) + c
    <3>1. n \in 0 .. 2 * c - 1 /\ ~(n < c) /\ Home(k, c) + n = i + c
      BY <1>1, <2>1
    <3>2. (i + c) % c = i
      OBVIOUS
    <3> QED BY <3>1, <3>2 DEF Probe
  <2>2. CASE i < Home(k, c)
    <3> DEFINE n == i - Home(k, c) + 2 * c
    <3>1. n \in 0 .. 2 * c - 1 /\ ~(n < c) /\ Home(k, c) + n = i + 2 * c
      BY <1>1, <2>2
    <3>2. (i + 2 * c) % c = i
      OBVIOUS
    <3> QED BY <3>1, <3>2 DEF Probe
  <2> QED BY <1>1, <2>1, <2>2
<1> QED BY <1>3, <1>4

(* The entries of a table are finitely many; if not all slots are entries  *)
(* there is one that find_slot can use.                                    *)
LEMMA SizeOfTable ==
  ASSUME NEW c \in Nat, 0 < c, NEW t \in Tables(c)
  PROVE  /\ Entries(t) \subseteq 0 .. c - 1
         /\ IsFiniteSet(Entries(t)) /\ Size(t) \in Nat
         /\ Size(t) < c => \E i \in 0 .. c - 1 : ~IsEntry(t[i])
<1>1. Entries(t) \subseteq 0 .. c - 1
  BY DEF Entries, Tables
<1>2. IsFiniteSet(0 .. c - 1) /\ Cardinality(0 .. c - 1) = c
  BY FS_Interval
<1>3. IsFiniteSet(Entries(t)) /\ Size(t) \in Nat
  BY <1>1, <1>2, FS_Subset, FS_CardinalityType DEF Size
<1>4. ASSUME \A i \in 0 .. c - 1 : IsEntry(t[i])
      PROVE  Size(t) = c
  BY <1>1, <1>2, <1>4 DEF Entries, Tables, Size
<1> QED BY <1>1, <1>3, <1>4

(* find_slot returns a slot that stops it, and an entry at every earlier   *)
(* probe, if not all slots are entries.                                    *)
LEMMA FindSlotStops ==
  ASSUME NEW c \in Nat, 0 < c, NEW t \in Tables(c), Size(t) < c,
         NEW k \in Keys
  PROVE  \E n \in 0 .. 2 * c - 1 :
           /\ StopsAt(t, c, k, n)
           /\ FindSlot(t, c, k) = Probe(k, c, n)
<1> DEFINE T == {n \in 0 .. 2 * c - 1 : Stops(t[Probe(k, c, n)], k)}
<1>1. PICK i \in 0 .. c - 1 : ~IsEntry(t[i])
  BY SizeOfTable
<1>2. PICK n \in 0 .. 2 * c - 1 : Probe(k, c, n) = i
  BY ProbesAreSlots
<1>3. n \in T
  BY <1>1, <1>2 DEF Stops
<1>4. T # {} /\ T \subseteq Nat
  BY <1>3
<1>5. PICK x \in T : \A y \in 0 .. x - 1 : y \notin T
  <2> HIDE DEF T
  <2> QED BY <1>4, LeastNumber
<1>6. x \in 0 .. 2 * c - 1 /\ StopsAt(t, c, k, x)
  BY <1>5 DEF StopsAt
<1> DEFINE N == CHOOSE m \in 0 .. 2 * c - 1 : StopsAt(t, c, k, m)
<1>7. N \in 0 .. 2 * c - 1 /\ StopsAt(t, c, k, N)
  BY <1>6
<1> QED BY <1>7 DEF FindSlot

(* What find_slot returns is a slot; it is the key or can be used.         *)
LEMMA FindSlotIsASlot ==
  ASSUME NEW c \in Nat, 0 < c, NEW t \in Tables(c), Size(t) < c,
         NEW k \in Keys
  PROVE  /\ FindSlot(t, c, k) \in 0 .. c - 1
         /\ t[FindSlot(t, c, k)] \in Slot
         /\ ~Holds(t[FindSlot(t, c, k)], k) => t[FindSlot(t, c, k)] \notin Entry
<1>1. PICK n \in 0 .. 2 * c - 1 :
         StopsAt(t, c, k, n) /\ FindSlot(t, c, k) = Probe(k, c, n)
  BY FindSlotStops
<1>2. FindSlot(t, c, k) \in 0 .. c - 1
  BY <1>1, ProbesAreSlots
<1>3. Stops(t[FindSlot(t, c, k)], k)
  BY <1>1 DEF StopsAt
<1> QED BY <1>2, <1>3, SlotCases DEF Stops, Tables

(* Storing an entry where find_slot points keeps a table, adds at most one *)
(* entry, and every key stays within reach.                                *)
LEMMA StoredEntry ==
  ASSUME NEW c \in Nat, 0 < c, NEW t \in Tables(c), Size(t) < c,
         Reachable(t, c), NEW e \in Entry
  PROVE  LET slot == FindSlot(t, c, e.key)
             u == [t EXCEPT ![slot] = e]
         IN  /\ u \in Tables(c) /\ Reachable(u, c)
             /\ Entries(u) = Entries(t) \cup {slot}
             /\ Size(u) = IF t[slot] \in Entry THEN Size(t) ELSE Size(t) + 1
<1> DEFINE slot == FindSlot(t, c, e.key)
           u == [t EXCEPT ![slot] = e]
<1>1. e.key \in Keys /\ Holds(e, e.key) /\ IsEntry(e) /\ e # Null /\ e \in Slot
  BY SlotCases DEF Slot
<1>2. PICK n \in 0 .. 2 * c - 1 :
         StopsAt(t, c, e.key, n) /\ slot = Probe(e.key, c, n)
  BY <1>1, FindSlotStops
<1>3. slot \in 0 .. c - 1
  BY <1>1, FindSlotIsASlot
<1> HIDE DEF slot
<1>4. u \in Tables(c) /\ u[slot] = e /\ \A i \in 0 .. c - 1 : i # slot => u[i] = t[i]
  BY <1>1, <1>3 DEF Tables
<1>5. Entries(u) = Entries(t) \cup {slot}
  BY <1>1, <1>3, <1>4 DEF Entries, Tables
<1>6. t[slot] \in Entry <=> slot \in Entries(t)
  BY <1>3, SlotCases DEF Entries, Tables
<1>7. Size(u) = IF t[slot] \in Entry THEN Size(t) ELSE Size(t) + 1
  BY <1>5, <1>6, SizeOfTable, FS_AddElement DEF Size
<1> HIDE DEF u
<1>8. \A i \in 0 .. c - 1 : t[i] # Null => u[i] # Null
  BY <1>1, <1>4
<1>9. ASSUME NEW k \in Keys, NEW i \in 0 .. c - 1, Holds(u[i], k)
      PROVE  Reaches(u, c, k, i)
  <2>1. CASE i # slot
    <3>1. Reaches(t, c, k, i)
      BY <1>4, <1>9, <2>1 DEF Reachable
    <3>2. PICK m \in 0 .. 2 * c - 1 :
             /\ Probe(k, c, m) = i
             /\ \A j \in 0 .. m : t[Probe(k, c, j)] # Null
      BY <3>1 DEF Reaches
    <3>3. \A j \in 0 .. m : Probe(k, c, j) \in 0 .. c - 1
      BY ProbesAreSlots
    <3> QED BY <1>8, <3>2, <3>3 DEF Reaches
  <2>2. CASE i = slot
    <3>1. k = e.key
      BY <1>4, <1>9, <2>2 DEF Holds
    <3>2. \A j \in 0 .. n - 1 : IsEntry(t[Probe(k, c, j)])
      BY <1>2, <3>1 DEF StopsAt, Stops
    <3>3. \A j \in 0 .. n - 1 : t[Probe(k, c, j)] # Null
      BY <3>2 DEF IsEntry
    <3>4. \A j \in 0 .. n : Probe(k, c, j) \in 0 .. c - 1
      BY ProbesAreSlots
    <3>5. \A j \in 0 .. n : u[Probe(k, c, j)] # Null
      <4> SUFFICES ASSUME NEW j \in 0 .. n
                   PROVE  u[Probe(k, c, j)] # Null
        OBVIOUS
      <4>1. CASE j \in 0 .. n - 1
        BY <1>8, <3>3, <3>4, <4>1
      <4>2. CASE j = n
        BY <1>1, <1>2, <1>4, <3>1, <4>2
      <4> QED BY <4>1, <4>2
    <3> QED BY <1>2, <2>2, <3>1, <3>5 DEF Reaches
  <2> QED BY <2>1, <2>2
<1>10. Reachable(u, c)
  BY <1>9 DEF Reachable
<1> QED BY <1>4, <1>5, <1>7, <1>10 DEF u, slot

(* A tombstone keeps the table and what lies behind it within reach.       *)
LEMMA RemovedEntry ==
  ASSUME NEW c \in Nat, 0 < c, NEW t \in Tables(c), Reachable(t, c),
         NEW slot \in 0 .. c - 1, t[slot] \in Entry
  PROVE  LET u == [t EXCEPT ![slot] = Tombstone]
         IN  /\ u \in Tables(c) /\ Reachable(u, c)
             /\ Size(u) = Size(t) - 1
<1> DEFINE u == [t EXCEPT ![slot] = Tombstone]
<1>1. /\ u \in Tables(c) /\ u[slot] = Tombstone
      /\ \A i \in 0 .. c - 1 : i # slot => u[i] = t[i]
  BY DEF Tables, Slot
<1>2. slot \in Entries(t) /\ Entries(u) = Entries(t) \ {slot}
  BY <1>1, SlotCases DEF Entries, Tables, IsEntry
<1>3. Size(u) = Size(t) - 1
  BY <1>2, SizeOfTable, FS_RemoveElement DEF Size
<1> HIDE DEF u
<1>4. \A i \in 0 .. c - 1 : t[i] # Null => u[i] # Null
  BY <1>1, SlotCases
<1>5. ASSUME NEW k \in Keys, NEW i \in 0 .. c - 1, Holds(u[i], k)
      PROVE  Reaches(u, c, k, i)
  <2>1. i # slot
    <3>1. u[i] \in Entry
      BY <1>1, <1>5, SlotCases DEF Tables
    <3> QED BY <1>1, <3>1, SlotCases
  <2>2. Reaches(t, c, k, i)
    BY <1>1, <1>5, <2>1 DEF Reachable
  <2>3. PICK m \in 0 .. 2 * c - 1 :
           /\ Probe(k, c, m) = i
           /\ \A j \in 0 .. m : t[Probe(k, c, j)] # Null
    BY <2>2 DEF Reaches
  <2>4. \A j \in 0 .. m : Probe(k, c, j) \in 0 .. c - 1
    BY ProbesAreSlots
  <2> QED BY <1>4, <2>3, <2>4 DEF Reaches
<1> QED BY <1>1, <1>3, <1>5 DEF Reachable, u

(* A table of slots never used.                                            *)
LEMMA EmptyTableIsATable ==
  ASSUME NEW c \in Nat, 0 < c
  PROVE  /\ EmptyTable(c) \in Tables(c) /\ Reachable(EmptyTable(c), c)
         /\ Entries(EmptyTable(c)) = {} /\ Size(EmptyTable(c)) = 0
<1>1. EmptyTable(c) \in Tables(c) /\ \A i \in 0 .. c - 1 : EmptyTable(c)[i] = Null
  BY DEF EmptyTable, Tables, Slot
<1>2. Entries(EmptyTable(c)) = {}
  BY <1>1 DEF Entries, IsEntry, Tables
<1>3. Reachable(EmptyTable(c), c)
  BY <1>1, SlotCases DEF Reachable, Slot
<1> QED BY <1>1, <1>2, <1>3, FS_EmptySet DEF Size
-----------------------------------------------------------------------------
(* A slot that holds a key is one of the entries.                          *)
LEMMA HeldIsContained ==
  ASSUME NEW c \in Nat, NEW t \in Tables(c), NEW i \in 0 .. c - 1,
         NEW k \in Keys, Holds(t[i], k)
  PROVE  t[i] \in Contents(t) /\ t[i].key = k
<1>1. t[i] \in Entry /\ i \in DOMAIN t
  BY SlotCases DEF Tables
<1> QED BY <1>1, SlotCases DEF Contents, Entries, Holds, Slot

(* What a table without doubles maps a key to.                             *)
LEMMA StoredInMap ==
  ASSUME NEW c \in Nat, 0 < c, NEW t \in Tables(c), IsMap(t, c)
  PROVE  /\ Contents(t) \subseteq Entry
         /\ DOMAIN StoredIn(t) = {e.key : e \in Contents(t)}
         /\ \A e \in Contents(t) : StoredIn(t)[e.key] = e.data
<1>1. DOMAIN t = 0 .. c - 1 /\ \A i \in 0 .. c - 1 : t[i] \in Slot
  BY DEF Tables
<1>2. \A i \in 0 .. c - 1 : i \in Entries(t) <=> t[i] \in Entry
  BY <1>1, SlotCases DEF Entries
<1>3. Entries(t) \subseteq 0 .. c - 1
  BY <1>1 DEF Entries
<1>4. Contents(t) \subseteq Entry
  BY <1>2, <1>3 DEF Contents
<1>5. DOMAIN StoredIn(t) = {e.key : e \in Contents(t)}
  BY DEF StoredIn, Contents
<1>6. ASSUME NEW e \in Contents(t)
      PROVE  StoredIn(t)[e.key] = e.data
  <2>1. PICK i \in Entries(t) : e = t[i]
    BY DEF Contents
  <2>2. i \in 0 .. c - 1 /\ t[i] \in Entry /\ e.key \in Keys
    BY <1>2, <1>3, <2>1, SlotCases
  <2> DEFINE J == {j \in DOMAIN t : Holds(t[j], e.key)}
             x == CHOOSE j \in J : TRUE
  <2>3. i \in J
    BY <1>1, <2>1, <2>2 DEF Holds
  <2>4. x \in J
    BY <2>3
  <2>5. StoredIn(t)[e.key] = t[x].data
    BY <2>1 DEF StoredIn
  <2> HIDE DEF x
  <2>6. x \in 0 .. c - 1 /\ t[x].key = e.key /\ t[x] \in Slot /\ Holds(t[x], e.key)
    BY <1>1, <2>4 DEF Holds
  <2>7. t[x] \in Entry
    BY <2>2, <2>6, SlotCases
  <2>8. x = i
    BY <2>1, <2>2, <2>6, <2>7 DEF IsMap
  <2> QED BY <2>1, <2>5, <2>8
<1> QED BY <1>4, <1>5, <1>6

(* The order of the slots does not matter.                                 *)
LEMMA SameContentsSameMap ==
  ASSUME NEW c \in Nat, 0 < c, NEW t \in Tables(c), IsMap(t, c),
         NEW d \in Nat, 0 < d, NEW u \in Tables(d), IsMap(u, d),
         Contents(t) = Contents(u)
  PROVE  StoredIn(t) = StoredIn(u)
<1> DEFINE D == {e.key : e \in Contents(t)}
<1>1. DOMAIN StoredIn(t) = D /\ \A e \in Contents(t) : StoredIn(t)[e.key] = e.data
  BY StoredInMap, ZenonT(30)
<1>2. DOMAIN StoredIn(u) = D /\ \A e \in Contents(t) : StoredIn(u)[e.key] = e.data
  <2>1. /\ DOMAIN StoredIn(u) = {e.key : e \in Contents(u)}
        /\ \A e \in Contents(u) : StoredIn(u)[e.key] = e.data
    BY StoredInMap, ZenonT(30)
  <2> QED BY <2>1
<1>3. \A k \in D : StoredIn(t)[k] = StoredIn(u)[k]
  BY <1>1, <1>2
<1>4. /\ StoredIn(t) = [k \in DOMAIN StoredIn(t) |-> StoredIn(t)[k]]
      /\ StoredIn(u) = [k \in DOMAIN StoredIn(u) |-> StoredIn(u)[k]]
  BY DEF StoredIn
<1> HIDE DEF D
<1> QED BY <1>1, <1>2, <1>3, <1>4

(* One more entry, of a new key, is one more pair of the map.              *)
LEMMA OneMoreEntry ==
  ASSUME NEW c \in Nat, 0 < c, NEW t \in Tables(c), IsMap(t, c),
         NEW u \in Tables(c), IsMap(u, c), NEW e \in Entry,
         Contents(u) = Contents(t) \cup {e},
         e.key \notin DOMAIN StoredIn(t)
  PROVE  StoredIn(u) = [k \in DOMAIN StoredIn(t) \cup {e.key} |->
                          IF k = e.key THEN e.data ELSE StoredIn(t)[k]]
<1> DEFINE D == {x.key : x \in Contents(t)}
           f == [k \in D \cup {e.key} |->
                   IF k = e.key THEN e.data ELSE StoredIn(t)[k]]
<1>1. DOMAIN StoredIn(t) = D /\ \A x \in Contents(t) : StoredIn(t)[x.key] = x.data
  BY StoredInMap, ZenonT(30)
<1>2. /\ DOMAIN StoredIn(u) = {x.key : x \in Contents(u)}
      /\ \A x \in Contents(u) : StoredIn(u)[x.key] = x.data
  BY StoredInMap, ZenonT(30)
<1>3. DOMAIN StoredIn(u) = D \cup {e.key}
  BY <1>2
<1>4. \A k \in D \cup {e.key} : StoredIn(u)[k] = f[k]
  BY <1>1, <1>2
<1>5. StoredIn(u) = [k \in DOMAIN StoredIn(u) |-> StoredIn(u)[k]]
  BY DEF StoredIn
<1> HIDE DEF D
<1> QED BY <1>1, <1>3, <1>4, <1>5

(* Until the first removal, find_slot finds the key or a slot that was     *)
(* never used, and the latter only if the key is nowhere.                  *)
LEMMA FindSlotOfMap ==
  ASSUME NEW c \in Nat, 0 < c, NEW t \in Tables(c), Size(t) < c,
         Reachable(t, c), IsMap(t, c), NEW k \in Keys,
         ~Holds(t[FindSlot(t, c, k)], k)
  PROVE  /\ t[FindSlot(t, c, k)] = Null
         /\ \A i \in 0 .. c - 1 : ~Holds(t[i], k)
<1>1. PICK n \in 0 .. 2 * c - 1 :
         StopsAt(t, c, k, n) /\ FindSlot(t, c, k) = Probe(k, c, n)
  BY FindSlotStops
<1>2. t[Probe(k, c, n)] = Null
  BY <1>1, FindSlotIsASlot DEF Slot, IsMap
<1>3. ASSUME NEW i \in 0 .. c - 1, Holds(t[i], k)
      PROVE  FALSE
  <2>1. PICK m \in 0 .. 2 * c - 1 :
           /\ Probe(k, c, m) = i
           /\ \A j \in 0 .. m : t[Probe(k, c, j)] # Null
    BY <1>3 DEF Reachable, Reaches
  <2>2. m < n
    BY <1>2, <2>1
  <2>3. ~Stops(t[Probe(k, c, m)], k)
    BY <1>1, <2>2 DEF StopsAt
  <2> QED BY <1>3, <2>1, <2>3 DEF Stops
<1> QED BY <1>1, <1>2, <1>3

(* Storing an entry of a new key.                                          *)
LEMMA StoredInNewSlot ==
  ASSUME NEW c \in Nat, 0 < c, NEW t \in Tables(c), Size(t) < c,
         Reachable(t, c), IsMap(t, c), NEW e \in Entry,
         \A i \in 0 .. c - 1 : ~Holds(t[i], e.key)
  PROVE  /\ IsMap(Put(t, c, e), c)
         /\ Contents(Put(t, c, e)) = Contents(t) \cup {e}
<1> DEFINE slot == FindSlot(t, c, e.key)
           u == Put(t, c, e)
<1>1. e.key \in Keys
  BY SlotCases
<1>2. slot \in 0 .. c - 1 /\ t[slot] = Null
  BY <1>1, FindSlotIsASlot, FindSlotOfMap
<1> HIDE DEF slot
<1>3. u[slot] = e /\ \A i \in 0 .. c - 1 : i # slot => u[i] = t[i]
  BY <1>2 DEF Put, slot, Tables
<1>4. Entries(u) = Entries(t) \cup {slot} /\ slot \notin Entries(t)
  <2>1. Entries(u) = Entries(t) \cup {slot}
    BY StoredEntry DEF Put, slot
  <2> QED BY <1>2, <2>1 DEF Entries, IsEntry
<1>5. Entries(t) \subseteq 0 .. c - 1
  BY SizeOfTable
<1> HIDE DEF u
<1>6. Contents(u) = Contents(t) \cup {e}
  BY <1>3, <1>4, <1>5 DEF Contents
<1>7. \A i \in 0 .. c - 1 : u[i] # Tombstone
  BY <1>3, SlotCases DEF IsMap
<1>8. \A i \in 0 .. c - 1 : t[i].key # e.key
  BY DEF Holds
<1>9. ASSUME NEW i \in 0 .. c - 1, NEW j \in 0 .. c - 1,
             u[i] \in Entry, u[j] \in Entry, u[i].key = u[j].key
      PROVE  i = j
  BY <1>3, <1>8, <1>9 DEF IsMap
<1> QED BY <1>6, <1>7, <1>9 DEF IsMap, u

-----------------------------------------------------------------------------
(* rehash_table, slot by slot: what one slot adds to the new table, and    *)
(* the function that Rehashed defines by recursion.                        *)
PutSlot(t, c, s) == IF IsEntry(s) THEN Put(t, c, s) ELSE t

IsPutUpTo(put, c, n) ==
  put = [i \in 0 .. n |-> IF i = 0 THEN EmptyTable(c)
                          ELSE PutSlot(put[i - 1], c, table[i - 1])]

(* There is such a function, and Rehashed is its last value.               *)
LEMMA RehashedIsPut ==
  ASSUME NEW c, cap \in Nat
  PROVE  \E put :
           /\ put[0] = EmptyTable(c)
           /\ \A i \in 1 .. cap : put[i] = PutSlot(put[i - 1], c, table[i - 1])
           /\ Rehashed(c) = put[cap]
<1> DEFINE T == {n \in Nat : ~ \E put : IsPutUpTo(put, c, n)}
<1>1. T = {}
  <2> SUFFICES ASSUME T # {} PROVE FALSE
    OBVIOUS
  <2>1. PICK n \in T : \A m \in 0 .. n - 1 : m \notin T
    <3>1. T \subseteq Nat
      OBVIOUS
    <3> HIDE DEF T
    <3> QED BY <3>1, LeastNumber
  <2>2. n \in Nat /\ ~ \E put : IsPutUpTo(put, c, n)
    BY <2>1
  <2>3. n # 0
    <3> DEFINE f == [i \in 0 .. 0 |-> EmptyTable(c)]
    <3>1. f = [i \in 0 .. 0 |-> IF i = 0 THEN EmptyTable(c)
                                ELSE PutSlot(f[i - 1], c, table[i - 1])]
      OBVIOUS
    <3> QED BY <2>2, <3>1 DEF IsPutUpTo
  <2>4. PICK f : IsPutUpTo(f, c, n - 1)
    <3>1. n - 1 \in Nat /\ n - 1 \in 0 .. n - 1
      BY <2>2, <2>3
    <3> QED BY <2>1, <3>1
  <2> DEFINE g == [i \in 0 .. n |-> IF i < n THEN f[i]
                                    ELSE PutSlot(f[n - 1], c, table[n - 1])]
             h == [i \in 0 .. n |-> IF i = 0 THEN EmptyTable(c)
                                    ELSE PutSlot(g[i - 1], c, table[i - 1])]
  <2>5. \A i \in 0 .. n - 1 : g[i] = f[i]
    BY <2>2
  <2>6. \A i \in 0 .. n - 1 :
           f[i] = IF i = 0 THEN EmptyTable(c)
                  ELSE PutSlot(f[i - 1], c, table[i - 1])
    BY <2>4 DEF IsPutUpTo
  <2>7. \A i \in 0 .. n : g[i] = h[i]
    <3> SUFFICES ASSUME NEW i \in 0 .. n PROVE g[i] = h[i]
      OBVIOUS
    <3>1. CASE i = n
      <4>1. g[n] = PutSlot(f[n - 1], c, table[n - 1]) /\ n - 1 \in 0 .. n - 1
        BY <2>2, <2>3
      <4> QED BY <2>2, <2>3, <2>5, <3>1, <4>1
    <3>2. CASE i = 0
      BY <2>2, <2>3, <2>5, <2>6, <3>2
    <3>3. CASE i \in 1 .. n - 1
      <4>1. i \in 0 .. n - 1 /\ i - 1 \in 0 .. n - 1 /\ i # 0
        BY <2>2, <3>3
      <4> QED BY <2>5, <2>6, <4>1
    <3> QED BY <2>2, <3>1, <3>2, <3>3
  <2>8. g = h
    <3>1. DOMAIN g = 0 .. n /\ DOMAIN h = 0 .. n
      OBVIOUS
    <3>2. g = [i \in 0 .. n |-> g[i]] /\ h = [i \in 0 .. n |-> h[i]]
      OBVIOUS
    <3> HIDE DEF g, h
    <3> QED BY <2>7, <3>2
  <2> HIDE DEF g
  <2> QED BY <2>2, <2>8 DEF IsPutUpTo
<1>2. \E put : IsPutUpTo(put, c, cap)
  BY <1>1
<1> DEFINE P == CHOOSE put : IsPutUpTo(put, c, cap)
<1>3. IsPutUpTo(P, c, cap)
  BY <1>2
<1>4. Rehashed(c) = P[cap]
  BY DEF Rehashed, IsPutUpTo, PutSlot
<1> HIDE DEF P
<1>5. P[0] = EmptyTable(c)
  BY <1>3 DEF IsPutUpTo
<1>6. \A i \in 1 .. cap : P[i] = PutSlot(P[i - 1], c, table[i - 1])
  BY <1>3 DEF IsPutUpTo
<1> QED BY <1>4, <1>5, <1>6

(* The new table is one: it has no more entries than the old one has slots,*)
(* and all of them are within reach.  It is the same map, if the old one   *)
(* is a map.                                                               *)
LEMMA RehashedIsATable ==
  ASSUME TypeOK, NEW c \in Nat, cap < c
  PROVE  /\ Rehashed(c) \in Tables(c) /\ Reachable(Rehashed(c), c)
         /\ Size(Rehashed(c)) <= cap
         /\ IsMap(table, cap) => /\ IsMap(Rehashed(c), c)
                                 /\ Contents(Rehashed(c)) = Contents(table)
<1> DEFINE Ok(t, i) == /\ t \in Tables(c) /\ Reachable(t, c)
                       /\ Size(t) <= i
           Upto(i) == {table[j] : j \in {j \in 0 .. i - 1 : IsEntry(table[j])}}
           MapOk(t, i) == IsMap(t, c) /\ Contents(t) = Upto(i)
           OkMap(t, i) == Ok(t, i) /\ (IsMap(table, cap) => MapOk(t, i))
<1>1. cap \in Nat /\ 0 < c /\ table \in Tables(cap)
  BY DEF TypeOK
<1>2. PICK put : /\ put[0] = EmptyTable(c)
                 /\ \A i \in 1 .. cap :
                      put[i] = PutSlot(put[i - 1], c, table[i - 1])
                 /\ Rehashed(c) = put[cap]
  BY <1>1, RehashedIsPut
<1>3. OkMap(put[0], 0)
  <2>1. Ok(put[0], 0)
    BY <1>1, <1>2, EmptyTableIsATable
  <2>2. \A i \in 0 .. c - 1 : put[0][i] = Null
    BY <1>2 DEF EmptyTable
  <2>3. IsMap(put[0], c)
    BY <2>2, SlotCases DEF IsMap
  <2>4. Contents(put[0]) = {} /\ Upto(0) = {}
    BY <1>1, <1>2, EmptyTableIsATable DEF Contents
  <2> QED BY <2>1, <2>3, <2>4
<1>4. ASSUME NEW i \in 1 .. cap, OkMap(put[i - 1], i - 1)
      PROVE  OkMap(put[i], i)
  <2> DEFINE t == put[i - 1]
             s == table[i - 1]
  <2>1. put[i] = PutSlot(t, c, s) /\ s \in Slot
    BY <1>1, <1>2 DEF Tables
  <2>2. Size(t) \in Nat /\ i \in Nat /\ i <= cap /\ i - 1 \in 0 .. cap - 1
    BY <1>1, <1>4, SizeOfTable
  <2>3. Upto(i) = IF IsEntry(s) THEN Upto(i - 1) \cup {s} ELSE Upto(i - 1)
    <3>1. 0 .. i - 1 = (0 .. i - 2) \cup {i - 1}
      BY <2>2
    <3>2. (i - 1) - 1 = i - 2
      BY <2>2
    <3> QED BY <3>1, <3>2
  <2>4. CASE ~IsEntry(s)
    <3>1. put[i] = t
      BY <2>1, <2>4 DEF PutSlot
    <3>2. Ok(put[i], i)
      BY <1>4, <2>2, <3>1
    <3> HIDE DEF Upto, t, s
    <3>3. Upto(i) = Upto(i - 1)
      BY <2>3, <2>4
    <3> QED BY <1>4, <3>1, <3>2, <3>3 DEF t
  <2>5. CASE IsEntry(s)
    <3>1. s \in Entry /\ put[i] = Put(t, c, s)
      BY <2>1, <2>5, SlotCases DEF PutSlot
    <3>2. Size(t) < c /\ t \in Tables(c) /\ Reachable(t, c)
      BY <1>1, <1>4, <2>2
    <3> HIDE DEF t, s
    <3>3. /\ put[i] \in Tables(c) /\ Reachable(put[i], c)
          /\ Size(put[i]) <= Size(t) + 1
      BY <1>1, <2>2, <3>1, <3>2, StoredEntry DEF Put
    <3>4. Size(put[i]) \in Nat
      BY <1>1, <3>3, SizeOfTable
    <3>5. Ok(put[i], i)
      BY <1>4, <2>2, <3>3, <3>4 DEF t
    <3>6. ASSUME IsMap(table, cap)
          PROVE  MapOk(put[i], i)
      <4> HIDE DEF Upto
      <4>1. IsMap(t, c) /\ Contents(t) = Upto(i - 1)
        BY <1>4, <3>6 DEF t
      <4>2. ASSUME NEW j \in 0 .. c - 1, Holds(t[j], s.key)
            PROVE  FALSE
        <5>1. t[j] \in Upto(i - 1) /\ t[j].key = s.key
          <6>1. s.key \in Keys
            BY <3>1, SlotCases
          <6>2. t[j] \in Contents(t) /\ t[j].key = s.key
            BY <3>2, <4>2, <6>1, HeldIsContained
          <6> QED BY <4>1, <6>2
        <5>2. PICK x \in 0 .. i - 2 : IsEntry(table[x]) /\ t[j] = table[x]
          <6>1. (i - 1) - 1 = i - 2
            BY <2>2
          <6> QED BY <5>1, <6>1 DEF Upto
        <5>3. x \in 0 .. cap - 1 /\ x # i - 1
          BY <1>1, <2>2
        <5>4. table[x] \in Entry /\ table[x].key = table[i - 1].key
          BY <1>1, <5>1, <5>2, <5>3, SlotCases DEF Tables, s
        <5> QED BY <2>2, <3>1, <3>6, <5>3, <5>4 DEF IsMap, s
      <4>3. IsMap(put[i], c) /\ Contents(put[i]) = Contents(t) \cup {s}
        BY <1>1, <3>1, <3>2, <4>1, <4>2, StoredInNewSlot
      <4> QED BY <2>3, <2>5, <4>1, <4>3
    <3> QED BY <3>5, <3>6
  <2> QED BY <2>4, <2>5
<1> DEFINE T == {i \in Nat : i <= cap /\ ~OkMap(put[i], i)}
<1>5. T = {}
  <2> HIDE DEF OkMap
  <2> SUFFICES ASSUME T # {} PROVE FALSE
    OBVIOUS
  <2>1. PICK i \in T : \A j \in 0 .. i - 1 : j \notin T
    <3>1. T \subseteq Nat
      OBVIOUS
    <3> HIDE DEF T
    <3> QED BY <3>1, LeastNumber
  <2>2. i \in Nat /\ i <= cap /\ ~OkMap(put[i], i) /\ i # 0
    BY <1>3, <2>1
  <2>3. i \in 1 .. cap /\ i - 1 \in 0 .. i - 1 /\ i - 1 \in Nat /\ i - 1 <= cap
    BY <1>1, <2>2
  <2>4. OkMap(put[i - 1], i - 1)
    BY <2>1, <2>3
  <2> QED BY <1>4, <2>2, <2>3, <2>4
<1>6. OkMap(put[cap], cap)
  <2> HIDE DEF OkMap
  <2> QED BY <1>1, <1>5
<1>7. Upto(cap) = Contents(table)
  BY <1>1 DEF Contents, Entries, Tables
<1> HIDE DEF Upto
<1> QED BY <1>2, <1>6, <1>7

-----------------------------------------------------------------------------
(* The load leaves slots free: find_slot may be called.                    *)
LEMMA RoomIsLeft ==
  ASSUME IInv
  PROVE  /\ cap \in Nat /\ 0 < cap /\ table \in Tables(cap)
         /\ Size(table) \in Nat /\ Size(table) < cap
<1>1. cap \in Nat /\ 8 <= cap /\ table \in Tables(cap)
  BY DEF IInv, TypeOK
<1>2. Size(table) \in Nat
  BY <1>1, SizeOfTable
<1>3. 7 * (Size(table) - 1) <= 4 * cap
  BY DEF IInv, LoadIsBounded, Size
<1> QED BY <1>1, <1>2, <1>3

(* The invariant, from what it says of the next state.                     *)
LEMMA NextInv ==
  ASSUME cap' \in Nat, 8 <= cap', table' \in Tables(cap'), misses' \in Nat,
         7 * (Size(table') - 1) <= 4 * cap',
         count' = Size(table') + misses', Reachable(table', cap')
  PROVE  IInv'
BY DEF IInv, TypeOK, LoadIsBounded, CountIsEntriesAndMisses, Size, Entries,
       IsEntry, Tables, Slot, Entry, Null, Tombstone, Reachable, Reaches,
       Holds, Probe, Home, Distance

(* The part of hashInsert after the resize.                                *)
LEMMA InsertIntoStep ==
  ASSUME NEW c \in Nat, 8 <= c, NEW t \in Tables(c), Reachable(t, c),
         7 * Size(t) <= 4 * c, NEW m \in Nat, NEW n, n = Size(t) + m,
         NEW toms, NEW k \in Keys, NEW v \in Values,
         InsertInto(t, c, n, toms, k, v)
  PROVE  /\ table' \in Tables(c) /\ Reachable(table', c)
         /\ 7 * (Size(table') - 1) <= 4 * c
         /\ count' = Size(table') + m
<1> DEFINE slot == FindSlot(t, c, k)
           e == [key |-> k, data |-> v]
<1>1. Size(t) \in Nat /\ Size(t) < c /\ 0 < c
  BY SizeOfTable
<1>2. e \in Entry /\ e.key = k
  BY DEF Entry
<1>3. ~Holds(t[slot], k) => t[slot] \notin Entry
  BY <1>1, FindSlotIsASlot
<1>4. /\ count' = IF Holds(t[slot], k) THEN n ELSE n + 1
      /\ Holds(t[slot], k) => table' = t
      /\ ~Holds(t[slot], k) => table' = [t EXCEPT ![slot] = e]
  BY DEF InsertInto, CountAfter
<1>5. CASE Holds(t[slot], k)
  BY <1>1, <1>4, <1>5
<1>6. CASE ~Holds(t[slot], k)
  <2>1. /\ table' \in Tables(c) /\ Reachable(table', c)
        /\ Size(table') = Size(t) + 1
    <3> HIDE DEF e
    <3>1. FindSlot(t, c, e.key) = slot
      BY <1>2
    <3>2. LET u == [t EXCEPT ![FindSlot(t, c, e.key)] = e]
          IN  /\ u \in Tables(c) /\ Reachable(u, c)
              /\ t[slot] \notin Entry => Size(u) = Size(t) + 1
      BY <1>1, <1>2, <3>1, StoredEntry
    <3> QED BY <1>3, <1>4, <1>6, <3>1, <3>2
  <2> QED BY <1>1, <1>4, <1>6, <2>1
<1> QED BY <1>5, <1>6

(* hashInsert *)
LEMMA InsertKeepsIInv ==
  ASSUME IInv, NEW k \in Keys, NEW v \in Values, Insert(k, v)
  PROVE  IInv'
<1>1. /\ cap \in Nat /\ 8 <= cap /\ table \in Tables(cap) /\ misses \in Nat
      /\ Size(table) \in Nat /\ Reachable(table, cap) /\ TypeOK
      /\ count = Size(table) + misses
  BY RoomIsLeft DEF IInv, TypeOK, CountIsEntriesAndMisses, Size
<1>2. CASE IsFull
  <2> DEFINE t == Rehashed(2 * cap)
             c == 2 * cap
  <2>1. /\ cap' = c /\ misses' = 0
        /\ InsertInto(t, c, Size(t), 0, k, v)
    BY <1>2 DEF Insert, Size
  <2>2. c \in Nat /\ cap < c /\ 8 <= c /\ 0 < c
    BY <1>1
  <2>3. t \in Tables(c) /\ Reachable(t, c) /\ Size(t) <= cap
    BY <1>1, <2>2, RehashedIsATable
  <2> HIDE DEF t
  <2>4. Size(t) \in Nat
    BY <2>2, <2>3, SizeOfTable
  <2>5. 7 * Size(t) <= 4 * c
    BY <1>1, <2>3, <2>4
  <2> HIDE DEF c
  <2>6. Size(t) = Size(t) + 0
    BY <2>4
  <2>7. /\ table' \in Tables(c) /\ Reachable(table', c)
        /\ 7 * (Size(table') - 1) <= 4 * c
        /\ count' = Size(table') + 0
    BY <2>1, <2>2, <2>3, <2>5, <2>6, InsertIntoStep
  <2> QED BY <2>1, <2>2, <2>7, NextInv
<1>3. CASE ~IsFull
  <2>1. /\ cap' = cap /\ misses' = misses
        /\ InsertInto(table, cap, count, tombstones, k, v)
    BY <1>3 DEF Insert
  <2>2. 7 * Size(table) <= 4 * cap
    BY <1>1, <1>3 DEF IsFull
  <2>3. /\ table' \in Tables(cap) /\ Reachable(table', cap)
        /\ 7 * (Size(table') - 1) <= 4 * cap
        /\ count' = Size(table') + misses
    BY <1>1, <2>1, <2>2, InsertIntoStep
  <2> QED BY <1>1, <2>1, <2>3, NextInv
<1> QED BY <1>2, <1>3

(* hashFind and hashRemove when they do not find k.                        *)
LEMMA NotFoundKeepsIInv ==
  ASSUME IInv, NEW k \in Keys, NotFound(k, table[FindSlot(table, cap, k)])
  PROVE  IInv'
<1>1. /\ cap' = cap /\ table' = table /\ misses' = misses + 1
      /\ count' = count + 1
  BY DEF NotFound, CountAfter
<1>2. /\ cap \in Nat /\ 8 <= cap /\ table \in Tables(cap) /\ misses \in Nat
      /\ Size(table) \in Nat /\ count = Size(table) + misses
      /\ Reachable(table, cap) /\ 7 * (Size(table) - 1) <= 4 * cap
  BY RoomIsLeft
     DEF IInv, TypeOK, CountIsEntriesAndMisses, LoadIsBounded, Size
<1>3. count' = Size(table') + misses'
  BY <1>1, <1>2
<1> QED BY <1>1, <1>2, <1>3, NextInv

(* hashRemove when it finds k.                                             *)
LEMMA RemovedKeepsIInv ==
  ASSUME IInv, NEW k \in Keys, Remove(k),
         Holds(table[FindSlot(table, cap, k)], k)
  PROVE  IInv'
<1> DEFINE slot == FindSlot(table, cap, k)
<1>1. /\ cap \in Nat /\ 8 <= cap /\ table \in Tables(cap) /\ misses \in Nat
      /\ Size(table) \in Nat /\ count = Size(table) + misses
      /\ Reachable(table, cap) /\ 7 * (Size(table) - 1) <= 4 * cap
      /\ Size(table) < cap /\ 0 < cap
  BY RoomIsLeft
     DEF IInv, TypeOK, CountIsEntriesAndMisses, LoadIsBounded, Size
<1>2. slot \in 0 .. cap - 1 /\ table[slot] \in Entry
  BY <1>1, FindSlotIsASlot, SlotCases
<1>3. /\ cap' = cap /\ misses' = misses /\ count' = count - 1
      /\ table' = [table EXCEPT ![slot] = Tombstone]
  BY DEF Remove, NotFound, RemovedAs
<1> HIDE DEF slot
<1>4. /\ table' \in Tables(cap) /\ Reachable(table', cap)
      /\ Size(table') = Size(table) - 1
  BY <1>1, <1>2, <1>3, RemovedEntry
<1>5. 7 * (Size(table') - 1) <= 4 * cap' /\ count' = Size(table') + misses'
  BY <1>1, <1>3, <1>4
<1> QED BY <1>1, <1>3, <1>4, <1>5, NextInv

(* Every step keeps the invariant.                                         *)
LEMMA NextKeepsIInv == IInv /\ [Next]_vars => IInv'
<1> SUFFICES ASSUME IInv, [Next]_vars PROVE IInv'
  OBVIOUS
<1>1. CASE UNCHANGED vars
  BY <1>1 DEF vars, IInv, TypeOK, LoadIsBounded, CountIsEntriesAndMisses,
              Size, Entries, IsEntry, Tables, Slot, Entry, Null, Tombstone,
              Reachable, Reaches, Holds, Probe, Home, Distance
<1>2. ASSUME NEW k \in Keys, Find(k)
      PROVE  IInv'
  <2>1. CASE NotFound(k, table[FindSlot(table, cap, k)])
    BY <2>1, NotFoundKeepsIInv
  <2>2. CASE UNCHANGED <<table, cap, count, tombstones, misses, removed>>
    BY <2>2 DEF IInv, TypeOK, LoadIsBounded, CountIsEntriesAndMisses,
                Size, Entries, IsEntry, Tables, Slot, Entry, Null, Tombstone,
                Reachable, Reaches, Holds, Probe, Home, Distance
  <2> QED BY <1>2, <2>1, <2>2 DEF Find
<1>3. ASSUME NEW k \in Keys, Remove(k)
      PROVE  IInv'
  <2>1. CASE NotFound(k, table[FindSlot(table, cap, k)])
    BY <2>1, NotFoundKeepsIInv
  <2>2. CASE Holds(table[FindSlot(table, cap, k)], k)
    BY <1>3, <2>2, RemovedKeepsIInv
  <2> QED BY <1>3, <2>1, <2>2 DEF Remove
<1>4. ASSUME NEW k \in Keys, NEW v \in Values, Insert(k, v)
      PROVE  IInv'
  BY <1>4, InsertKeepsIInv
<1>5. CASE Destroy
  <2>1. cap \in Nat /\ 8 <= cap /\ cap' = cap /\ misses' = 0 /\ count' = 0
    BY <1>5 DEF Destroy, IInv, TypeOK
  <2>2. table' = EmptyTable(cap)
    BY <1>5 DEF Destroy
  <2>3. table' \in Tables(cap) /\ Reachable(table', cap) /\ Size(table') = 0
    BY <2>1, <2>2, EmptyTableIsATable
  <2>4. 7 * (Size(table') - 1) <= 4 * cap' /\ count' = Size(table') + misses'
    BY <2>1, <2>3
  <2> QED BY <2>1, <2>3, <2>4, NextInv
<1> QED BY <1>1, <1>2, <1>3, <1>4, <1>5 DEF Next

(* hashCreate *)
LEMMA InitIInv == Init => IInv
<1> SUFFICES ASSUME Init PROVE IInv
  OBVIOUS
<1>1. cap = 8 /\ table = EmptyTable(8) /\ count = 0 /\ misses = 0
  BY DEF Init
<1>2. /\ table \in Tables(8) /\ Reachable(table, 8)
      /\ Size(table) = 0
  BY <1>1, EmptyTableIsATable
<1> QED BY <1>1, <1>2
        DEF IInv, TypeOK, LoadIsBounded, CountIsEntriesAndMisses, Size

(* The inductive invariant holds in every reachable table.                 *)
LEMMA Invariance == Spec => []IInv
<1> QED BY InitIInv, NextKeepsIInv, PTL DEF Spec

-----------------------------------------------------------------------------
(* Lookups, which also count slots, and tombstones, which the load does not*)
(* see, never let the entries fill more than 4/7 of the slots, and one.    *)
THEOREM LoadBounded == Spec => []LoadIsBounded
<1>1. IInv => LoadIsBounded
  BY DEF IInv
<1> QED BY <1>1, Invariance, PTL

(* The unbounded loop of find_slot ends for every key, in every state.     *)
THEOREM FindSlotTerminates == Spec => []FindSlotReturns
<1>1. IInv => FindSlotReturns
  BY RoomIsLeft, FindSlotStops DEF FindSlotReturns
<1> QED BY <1>1, Invariance, PTL

(* count says how many entries there are, and how many lookups failed.     *)
THEOREM CountCounts == Spec => []CountIsEntriesAndMisses
<1>1. IInv => CountIsEntriesAndMisses
  BY DEF IInv
<1> QED BY <1>1, Invariance, PTL

(* No slot on the way to a stored key is ever one that was never used.     *)
THEOREM EntriesReachable == Spec => []EntriesAreReachable
<1>1. IInv => EntriesAreReachable
  BY RoomIsLeft DEF IInv, EntriesAreReachable, ReachedAt, Reachable, Reaches,
                    Copies, Tables
<1> QED BY <1>1, Invariance, PTL
-----------------------------------------------------------------------------
(* The map that the specification of the interface is about.               *)
LEMMA StoredIsStoredIn == Stored = StoredIn(table) /\ Stored' = StoredIn(table')
BY DEF Stored, StoredIn, Entries, Copies, Holds, IsEntry, Null, Tombstone

(* An empty table is the empty map.                                        *)
LEMMA EmptyTableIsEmptyMap ==
  ASSUME NEW c \in Nat, 0 < c
  PROVE  IsMap(EmptyTable(c), c) /\ StoredIn(EmptyTable(c)) = <<>>
<1>1. \A i \in 0 .. c - 1 : EmptyTable(c)[i] = Null
  BY DEF EmptyTable
<1>2. IsMap(EmptyTable(c), c)
  BY <1>1, SlotCases DEF IsMap
<1>3. Entries(EmptyTable(c)) = {}
  BY EmptyTableIsATable
<1>4. StoredIn(EmptyTable(c)) = <<>>
  BY <1>3 DEF StoredIn
<1> QED BY <1>2, <1>4

(* What find_slot finds, in terms of the map.                              *)
LEMMA FoundInMap ==
  ASSUME NEW c \in Nat, 0 < c, NEW t \in Tables(c), Size(t) < c,
         Reachable(t, c), IsMap(t, c), NEW k \in Keys
  PROVE  LET s == t[FindSlot(t, c, k)] IN
         /\ Holds(s, k) <=> k \in DOMAIN StoredIn(t)
         /\ Holds(s, k) => StoredIn(t)[k] = s.data
<1> DEFINE s == t[FindSlot(t, c, k)]
<1>1. FindSlot(t, c, k) \in 0 .. c - 1
  BY FindSlotIsASlot
<1>2. /\ DOMAIN StoredIn(t) = {e.key : e \in Contents(t)}
      /\ \A e \in Contents(t) : StoredIn(t)[e.key] = e.data
  BY StoredInMap, ZenonT(30)
<1> HIDE DEF s
<1>3. ASSUME Holds(s, k)
      PROVE  k \in DOMAIN StoredIn(t) /\ StoredIn(t)[k] = s.data
  <2>1. s \in Contents(t) /\ s.key = k
    BY <1>1, <1>3, HeldIsContained DEF s
  <2> QED BY <1>2, <2>1
<1>4. ASSUME k \in DOMAIN StoredIn(t), ~Holds(s, k)
      PROVE  FALSE
  <2>1. \A i \in 0 .. c - 1 : ~Holds(t[i], k)
    BY <1>4, FindSlotOfMap DEF s
  <2>2. PICK e \in Contents(t) : e.key = k
    BY <1>4, <1>2
  <2>3. PICK i \in Entries(t) : e = t[i]
    BY DEF Contents
  <2>4. i \in 0 .. c - 1
    BY SizeOfTable
  <2> QED BY <2>1, <2>2, <2>3, <2>4 DEF Holds
<1> QED BY <1>3, <1>4 DEF s

(* hashInsert after the resize is the Insert of the map.                   *)
LEMMA InsertIntoMap ==
  ASSUME NEW c \in Nat, 8 <= c, NEW t \in Tables(c), Reachable(t, c),
         IsMap(t, c), Size(t) < c, StoredIn(t) = Stored,
         NEW n, NEW toms, NEW k \in Keys, NEW v \in Values,
         InsertInto(t, c, n, toms, k, v)
  PROVE  IsMap(table', c) /\ Abstract!Insert(k, v)
<1> DEFINE slot == FindSlot(t, c, k)
           e == [key |-> k, data |-> v]
<1>1. 0 < c
  OBVIOUS
<1>2. Holds(t[slot], k) <=> k \in DOMAIN Stored
  BY <1>1, FoundInMap
<1>3. CASE Holds(t[slot], k)
  <2>1. ret' = <<"insert", k, "HASH_DUP">> /\ table' = t
    BY <1>3 DEF InsertInto
  <2>2. Stored' = Stored
    BY <2>1, StoredIsStoredIn
  <2> QED BY <1>2, <1>3, <2>1, <2>2 DEF Abstract!Insert
<1>4. CASE ~Holds(t[slot], k)
  <2>1. /\ ret' = <<"insert", k, "HASH_OK">>
        /\ table' = [t EXCEPT ![slot] = e]
    BY <1>4 DEF InsertInto
  <2>2. e \in Entry /\ e.key = k /\ e.data = v
    BY DEF Entry
  <2> HIDE DEF e
  <2>3. table' = Put(t, c, e)
    BY <2>1, <2>2 DEF Put
  <2>4. \A i \in 0 .. c - 1 : ~Holds(t[i], e.key)
    BY <1>1, <1>4, <2>2, FindSlotOfMap
  <2>5. IsMap(table', c) /\ Contents(table') = Contents(t) \cup {e}
    BY <1>1, <2>2, <2>3, <2>4, StoredInNewSlot
  <2>6. table' \in Tables(c)
    BY <1>1, <2>2, <2>3, StoredEntry DEF Put
  <2>7. StoredIn(table') = [x \in DOMAIN StoredIn(t) \cup {e.key} |->
                              IF x = e.key THEN e.data ELSE StoredIn(t)[x]]
    BY <1>1, <1>2, <1>4, <2>2, <2>5, <2>6, OneMoreEntry
  <2>8. Stored' = Abstract!With(k, v)
    BY <2>2, <2>7, StoredIsStoredIn DEF Abstract!With
  <2> QED BY <1>2, <1>4, <2>1, <2>5, <2>8 DEF Abstract!Insert
<1> QED BY <1>3, <1>4

(* Until the first removal each step is a step of the map.                 *)
LEMMA StepsOfMap ==
  ASSUME IInv, MapInv, [Next]_vars
  PROVE  MapInv' /\ [removed' \/ Abstract!Next]_<<Stored, ret>>
<1> DEFINE A == MapInv' /\ [removed' \/ Abstract!Next]_<<Stored, ret>>
<1>1. /\ cap \in Nat /\ 0 < cap /\ 8 <= cap /\ table \in Tables(cap)
      /\ Size(table) < cap /\ Reachable(table, cap) /\ TypeOK
  BY RoomIsLeft DEF IInv, TypeOK
<1>2. removed' => MapInv' /\ [removed' \/ Abstract!Next]_<<Stored, ret>>
  BY DEF MapInv
<1>3. CASE removed'
  BY <1>2, <1>3
<1>4. ASSUME ~removed, UNCHANGED <<table, cap>>
      PROVE  MapInv' /\ Stored' = Stored
  BY <1>4, StoredIsStoredIn DEF MapInv, IsMap, Entry, Tombstone
<1>5. CASE UNCHANGED vars
  BY <1>3, <1>4, <1>5 DEF vars
<1>6. ASSUME NEW k \in Keys, Find(k), ~removed'
      PROVE  A
  <2> DEFINE s == table[FindSlot(table, cap, k)]
  <2>1. UNCHANGED <<table, cap>> /\ ~removed
    BY <1>6 DEF Find, NotFound
  <2>2. IsMap(table, cap)
    BY <2>1 DEF MapInv
  <2>3. /\ Holds(s, k) <=> k \in DOMAIN Stored
        /\ Holds(s, k) => Stored[k] = s.data
    BY <1>1, <2>2, FoundInMap, StoredIsStoredIn
  <2>4. Abstract!Find(k)
    BY <1>4, <1>6, <2>1, <2>3 DEF Find, NotFound, Abstract!Find
  <2> QED BY <1>4, <2>1, <2>4 DEF Abstract!Next
<1>7. ASSUME NEW k \in Keys, Remove(k), ~removed'
      PROVE  A
  <2> DEFINE s == table[FindSlot(table, cap, k)]
  <2>1. /\ UNCHANGED <<table, cap>> /\ ~removed /\ ~Holds(s, k)
        /\ ret' = <<"remove", k, "HASH_NF">>
    BY <1>7 DEF Remove, NotFound
  <2>2. IsMap(table, cap)
    BY <2>1 DEF MapInv
  <2>3. k \notin DOMAIN Stored
    BY <1>1, <2>1, <2>2, FoundInMap, StoredIsStoredIn
  <2>4. Abstract!Remove(k)
    BY <1>4, <2>1, <2>3 DEF Abstract!Remove
  <2> QED BY <1>4, <2>1, <2>4 DEF Abstract!Next
<1>8. ASSUME NEW k \in Keys, NEW v \in Values, Insert(k, v), ~removed'
      PROVE  A
  <2>1. ~removed /\ IsMap(table, cap)
    BY <1>8 DEF Insert, MapInv
  <2>2. IsMap(table', cap') /\ Abstract!Insert(k, v)
    <3>1. CASE IsFull
      <4> DEFINE c == 2 * cap
                 t == Rehashed(c)
      <4>1. cap' = c /\ InsertInto(t, c, Cardinality(Entries(t)), 0, k, v)
        BY <1>8, <3>1 DEF Insert
      <4>2. c \in Nat /\ cap < c /\ 8 <= c /\ 0 < c
        BY <1>1
      <4> HIDE DEF c
      <4>3. /\ t \in Tables(c) /\ Reachable(t, c) /\ Size(t) <= cap
            /\ IsMap(t, c) /\ Contents(t) = Contents(table)
        BY <1>1, <2>1, <4>2, RehashedIsATable
      <4> HIDE DEF t
      <4>4. Size(t) < c
        BY <1>1, <4>2, <4>3, SizeOfTable
      <4>5. StoredIn(t) = Stored
        BY <1>1, <2>1, <4>2, <4>3, SameContentsSameMap, StoredIsStoredIn
      <4> QED BY <4>1, <4>2, <4>3, <4>4, <4>5, InsertIntoMap
    <3>2. CASE ~IsFull
      <4>1. cap' = cap /\ InsertInto(table, cap, count, tombstones, k, v)
        BY <1>8, <3>2 DEF Insert
      <4> QED BY <1>1, <2>1, <4>1, InsertIntoMap, StoredIsStoredIn
    <3> QED BY <3>1, <3>2
  <2>3. MapInv'
    BY <2>2 DEF MapInv, IsMap, Entry, Tombstone
  <2> QED BY <2>2, <2>3 DEF Abstract!Next
<1>9. ASSUME Destroy, ~removed'
      PROVE  A
  <2>1. cap' = cap /\ table' = EmptyTable(cap) /\ ret' = <<"destroy">>
    BY <1>9 DEF Destroy
  <2>2. IsMap(table', cap') /\ Stored' = <<>>
    BY <1>1, <2>1, EmptyTableIsEmptyMap, StoredIsStoredIn
  <2>3. MapInv'
    BY <2>2 DEF MapInv, IsMap, Entry, Tombstone
  <2>4. Abstract!Destroy
    BY <2>1, <2>2 DEF Abstract!Destroy
  <2> QED BY <2>3, <2>4 DEF Abstract!Next
<1> QED BY <1>3, <1>5, <1>6, <1>7, <1>8, <1>9 DEF Next

(* Until the first removal the table implements the map that hash.h        *)
(* promises: each call returns what the map would, collisions and resizes  *)
(* change nothing.                                                         *)
THEOREM ImplementsMap == Spec => ImplementsMapUntilRemoval
<1>1. Init => MapInv /\ Abstract!Init
  <2> SUFFICES ASSUME Init PROVE MapInv /\ Abstract!Init
    OBVIOUS
  <2>1. cap = 8 /\ table = EmptyTable(8) /\ ret = <<"create">>
    BY DEF Init
  <2>2. IsMap(table, cap) /\ Stored = <<>>
    BY <2>1, EmptyTableIsEmptyMap, StoredIsStoredIn
  <2> QED BY <2>1, <2>2 DEF MapInv, Abstract!Init
<1>2. IInv /\ MapInv /\ [Next]_vars
        => MapInv' /\ [removed' \/ Abstract!Next]_<<Stored, ret>>
  BY StepsOfMap
<1> QED BY <1>1, <1>2, Invariance, PTL DEF Spec, ImplementsMapUntilRemoval
=============================================================================
