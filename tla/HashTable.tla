----------------------------- MODULE HashTable ------------------------------
(***************************************************************************)
(* The hash table of hash.c: open addressing, tombstones, doubling.  A     *)
(* step is one call of the interface.  The callers pass data, and all data *)
(* has the same size.                                                      *)
(***************************************************************************)
EXTENDS Integers, FiniteSets, Functions, TLC

CONSTANTS
  Keys, Values,
  HashOf,   \* hash_func: a number for each key
  MaxCap,   \* bound: the table grows no further than this many slots
  MaxCount  \* bound: no call is made when count has reached this

ASSUME HashAssumption ==
  /\ HashOf \in [Keys -> Nat]
  /\ {"NULL slot", "NULL key"} \cap Keys = {}  \* a NULL pointer is no key
  /\ MaxCap \in Nat /\ MaxCount \in Nat

VARIABLES
  table,       \* the slots 0 .. cap - 1
  cap,
  count,       \* the slots in use, as the code counts them
  tombstones,  \* the removed entries, as the code counts them
  misses,      \* history: unsuccessful finds and removes since the last resize
  removed,     \* history: a key was removed
  ret          \* the last call, its result and the data that it found

vars == <<table, cap, count, tombstones, misses, removed, ret>>

Null == [key |-> "NULL slot"]         \* table[i] == NULL
Tombstone == [key |-> "NULL key"]     \* table[i]->key == NULL
Entry == [key : Keys, data : Values]

Holds(s, k) == s.key = k
IsEntry(s) == s \notin {Null, Tombstone}

Alive == ret # <<"destroy">>

-----------------------------------------------------------------------------
(***************************************************************************)
(* find_slot: the n-th slot that it looks at in a table of c slots.  The   *)
(* first c probes are a fixed distance apart, which is a function of the   *)
(* first slot; as the distance may share a factor with c, every slot is    *)
(* tried after them.                                                       *)
(***************************************************************************)
Home(k, c) == HashOf[k] % c
Distance(k, c) == IF Home(k, c) % 16 = 0 THEN 1 ELSE Home(k, c) % 16

ProbeOneCycle(k, c, n) == (Home(k, c) + n * Distance(k, c)) % c
Probe(k, c, n) ==
  IF n < c THEN (Home(k, c) + n * Distance(k, c)) % c
           ELSE (Home(k, c) + n) % c

(* It stops at a slot never used, at a tombstone or at the key.            *)
Stops(s, k) == ~IsEntry(s) \/ Holds(s, k)

(* The first probe at which it stops; it goes on for ever if there is none.*)
StopsAt(t, c, k, n) ==
  /\ Stops(t[Probe(k, c, n)], k)
  /\ \A m \in 0 .. n - 1 : ~Stops(t[Probe(k, c, m)], k)

FindSlot(t, c, k) ==
  Probe(k, c, CHOOSE n \in 0 .. 2 * c - 1 : StopsAt(t, c, k, n))

(* The counters after find_slot returned slot s for k, whoever called it.  *)
CountNewSlots(n, s, k) == IF s = Null THEN n + 1 ELSE n
CountAfter(n, s, k) == IF Holds(s, k) THEN n ELSE n + 1
TombstonesAfter(n, s) == IF s = Tombstone THEN n - 1 ELSE n

-----------------------------------------------------------------------------
(* rehash_table: twice the slots, the entries put in again in slot order.  *)

IsFullAtCap == count >= cap
IsFull == 7 * count > 4 * cap   \* count * 1.75 > cap

EmptyTable(c) == [i \in 0 .. c - 1 |-> Null]

PutAtHome(t, c, e) == [t EXCEPT ![Home(e.key, c)] = e]
Put(t, c, e) == [t EXCEPT ![FindSlot(t, c, e.key)] = e]

Rehashed(c) ==
  LET put[i \in 0 .. cap] ==
        IF i = 0 THEN EmptyTable(c)
        ELSE IF IsEntry(table[i - 1]) THEN Put(put[i - 1], c, table[i - 1])
        ELSE put[i - 1]
  IN  put[cap]

Entries(t) == {i \in DOMAIN t : IsEntry(t[i])}

-----------------------------------------------------------------------------
(* hashCreate *)
Init ==
  /\ cap = 8
  /\ table = EmptyTable(8)
  /\ count = 0 /\ tombstones = 0
  /\ misses = 0
  /\ removed = FALSE
  /\ ret = <<"create">>

Callable == Alive /\ count < MaxCount

(* hashInsert, after rehash_table left table t with c slots and n in use.  *)
InsertInto(t, c, n, toms, k, v) ==
  LET slot == FindSlot(t, c, k) IN
  /\ count' = CountAfter(n, t[slot], k)
  /\ tombstones' = TombstonesAfter(toms, t[slot])
  /\ IF Holds(t[slot], k)
     THEN ret' = <<"insert", k, "HASH_DUP">> /\ table' = t
     ELSE /\ ret' = <<"insert", k, "HASH_OK">>
          /\ table' = [t EXCEPT ![slot] = [key |-> k, data |-> v]]

Insert(k, v) ==
  /\ Callable
  /\ IF IsFull
     THEN LET t == Rehashed(2 * cap) IN
          /\ 2 * cap <= MaxCap
          /\ cap' = 2 * cap
          /\ misses' = 0
          /\ InsertInto(t, 2 * cap, Cardinality(Entries(t)), 0, k, v)
     ELSE InsertInto(table, cap, count, tombstones, k, v)
          /\ UNCHANGED <<cap, misses>>
  /\ UNCHANGED removed

(* hashFind and hashRemove count a slot in use when they do not find k.    *)
NotFound(k, s) ==
  /\ ~Holds(s, k)
  /\ count' = CountAfter(count, s, k)
  /\ tombstones' = TombstonesAfter(tombstones, s)
  /\ misses' = misses + 1
  /\ UNCHANGED <<table, cap, removed>>

Find(k) ==
  LET s == table[FindSlot(table, cap, k)] IN
  /\ Callable
  /\ \/ NotFound(k, s) /\ ret' = <<"find", k, "HASH_NF">>
     \/ /\ Holds(s, k)
        /\ ret' = <<"find", k, "HASH_OK", s.data>>
        /\ UNCHANGED <<table, cap, count, tombstones, misses, removed>>

(* hashRemove keeps the node, without its key.                         *)
RemovedAsNull(s) == Null
RemovedAs(s) == Tombstone

Remove(k) ==
  LET slot == FindSlot(table, cap, k) IN
  /\ Callable
  /\ \/ NotFound(k, table[slot]) /\ ret' = <<"remove", k, "HASH_NF">>
     \/ /\ Holds(table[slot], k)
        /\ table' = [table EXCEPT ![slot] = RemovedAs(@)]
        /\ count' = count - 1
        /\ tombstones' = tombstones + 1
        /\ removed' = TRUE
        /\ ret' = <<"remove", k, "HASH_OK">>
        /\ UNCHANGED <<cap, misses>>

(* hashDestroy *)
Destroy ==
  /\ Alive
  /\ table' = EmptyTable(cap)
  /\ count' = 0 /\ tombstones' = 0 /\ misses' = 0
  /\ ret' = <<"destroy">>
  /\ UNCHANGED <<cap, removed>>

Next ==
  \/ \E k \in Keys : Find(k) \/ Remove(k) \/ \E v \in Values : Insert(k, v)
  \/ Destroy

Spec == Init /\ [][Next]_vars

=============================================================================
