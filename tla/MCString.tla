------------------------------ MODULE MCString ------------------------------
(***************************************************************************)
(* Two strings with a first capacity of 4 that can double once.  The       *)
(* literals include spaces at either end, and texts that fill the first    *)
(* capacity up to the last byte.                                           *)
(***************************************************************************)
EXTENDS StringProps, TLC

CONSTANTS s1, s2  \* model values

MCUpper == [c \in Chars |-> IF c = "a" THEN "A" ELSE c]
MCLower == [c \in Chars |-> IF c = "A" THEN "a" ELSE c]

MCLiterals == {<<>>, <<"A">>, <<" ", "a">>, <<"a", " ", " ">>, <<"a", "A", "a", " ">>}
Symmetry == Permutations(Handles)

MCExtensions == {<<"a">>}
=============================================================================
