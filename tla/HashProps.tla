----------------------------- MODULE HashProps ------------------------------
(* What the slots and counters of the table mean.                          *)
EXTENDS HashTable

Copies(k) == {i \in DOMAIN table : Holds(table[i], k)}

(***************************************************************************)
(* An entry can be reached: find_slot probes its slot, and meets no slot   *)
(* that was never used before it does.  Only a tombstone or another copy   *)
(* of the key can keep a stored key from being found.                      *)
(***************************************************************************)
ReachedAt(k, i) ==
  \E n \in 0 .. 2 * cap - 1 :
    /\ Probe(k, cap, n) = i
    /\ \A m \in 0 .. n : table[Probe(k, cap, m)] # Null

EntriesAreReachable == \A k \in Keys : \A i \in Copies(k) : ReachedAt(k, i)

(***************************************************************************)
(* find_slot returns, for whatever key it is called next: its unbounded    *)
(* loop meets the key or a slot that can be used.                          *)
(***************************************************************************)
FindSlotReturns ==
  \A k \in Keys : \E n \in 0 .. 2 * cap - 1 : StopsAt(table, cap, k, n)

(***************************************************************************)
(* At most 4/7 of the slots hold an entry, and one more: the check before  *)
(* an insertion bounds the load even though lookups also change the count. *)
(* The bound is that of hash.c:87; hash.c:11 says 3/4.                     *)
(***************************************************************************)
LoadIsBounded == 7 * (Cardinality(Entries(table)) - 1) <= 4 * cap

(***************************************************************************)
(* count is the number of entries and one for every unsuccessful lookup or *)
(* removal since the last resize; it is never too small.                   *)
(***************************************************************************)
CountIsEntriesAndMisses == count = Cardinality(Entries(table)) + misses

(***************************************************************************)
(* Until the first removal the table is a map, whatever collides, and it   *)
(* stays the same map when it is resized.                                  *)
(***************************************************************************)
Stored == [k \in {table[i].key : i \in Entries(table)} |->
             table[CHOOSE i \in Copies(k) : TRUE].data]
Abstract == INSTANCE MapSpec WITH map <- Stored
ImplementsMapUntilRemoval ==
  Abstract!Init /\ [][removed' \/ Abstract!Next]_<<Stored, ret>>

(* hash.c:152 "cannot store duplicate key": a key is stored at most once.  *)
NoDuplicateKeys == \A k \in Keys : Cardinality(Copies(k)) <= 1
=============================================================================
