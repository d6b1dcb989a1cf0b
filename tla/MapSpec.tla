------------------------------ MODULE MapSpec -------------------------------
(***************************************************************************)
(* What hash.h promises: a map from keys to data that keeps the first data *)
(* given for a key.                                                        *)
(***************************************************************************)
EXTENDS Functions

CONSTANTS Keys, Values

VARIABLES
  map,  \* the keys that were inserted, with their data
  ret   \* the last operation, its result and the data that it found

Init == map = <<>> /\ ret = <<"create">>

With(k, v) ==
  [x \in DOMAIN map \cup {k} |-> IF x = k THEN v ELSE map[x]]

Insert(k, v) ==
  IF k \in DOMAIN map
  THEN ret' = <<"insert", k, "HASH_DUP">> /\ UNCHANGED map
  ELSE ret' = <<"insert", k, "HASH_OK">> /\ map' = With(k, v)

Find(k) ==
  /\ ret' = IF k \in DOMAIN map THEN <<"find", k, "HASH_OK", map[k]>>
                                ELSE <<"find", k, "HASH_NF">>
  /\ UNCHANGED map

Remove(k) ==
  IF k \in DOMAIN map
  THEN /\ map' = Restrict(map, DOMAIN map \ {k})
       /\ ret' = <<"remove", k, "HASH_OK">>
  ELSE ret' = <<"remove", k, "HASH_NF">> /\ UNCHANGED map

Destroy == map' = <<>> /\ ret' = <<"destroy">>

Next ==
  \/ \E k \in Keys, v \in Values : Insert(k, v)
  \/ \E k \in Keys : Find(k) \/ Remove(k)
  \/ Destroy

Spec == Init /\ [][Next]_<<map, ret>>
=============================================================================
