------------------------------- MODULE MCList -------------------------------
(***************************************************************************)
(* Four elements: a list with two neighbours on either side of the place   *)
(* where something happens does not differ from a longer one.              *)
(***************************************************************************)
EXTENDS ListProps, TLC

(* The addresses are interchangeable: no operation compares or orders them.*)
Symmetry == Permutations(Elems)
=============================================================================
