------------------------------- MODULE MCHash -------------------------------
(***************************************************************************)
(* Three keys that share home 4 in a table of 8 slots, where distance 4    *)
(* visits only two of the slots; in a table of 16 their homes are 4 and    *)
(* 12.  MaxCount 6 lets the table be resized once.                         *)
(***************************************************************************)
EXTENDS HashProps

CONSTANTS p, q, r, v1, v2  \* model values

MCHashOf == [k \in Keys |-> IF k = q THEN 12 ELSE 4]

(* Keys of the same hash and data are only ever compared for equality.     *)
Symmetry == Permutations({p, r}) \cup Permutations({v1, v2})
=============================================================================
