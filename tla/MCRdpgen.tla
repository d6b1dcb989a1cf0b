------------------------------ MODULE MCRdpgen ------------------------------
(***************************************************************************)
(* Small instance of the whole program.  Ten tokens are two rules with     *)
(* their symbols printed, %verbosity 6 a : b {} x : y {}, or one rule with *)
(* every section of the dump, %verbosity 6 a : b {} %code {}.              *)
(***************************************************************************)
EXTENDS RdpgenProps

MCNumeralValue == [n \in Numerals |-> IF n = "6" THEN 6 ELSE 0]

(***************************************************************************)
(* Two bounds that keep the inputs few.  The symbols appear in one order   *)
(* of first use: every other input is one of these with its symbols        *)
(* renamed.  An input that goes beyond ShortLen tokens does so without an  *)
(* error: a parser with an error reads only the rest of the construct.     *)
(***************************************************************************)
InOrderOfUse == <<"a", "b", "x", "y">>
ShortLen == 5

UsedBefore(s, i) == \E j \in 1 .. i - 1 : input[j].str = s

Bounded ==
  /\ \A k \in 2 .. Len(InOrderOfUse) : \A i \in DOMAIN input :
       input[i].str = InOrderOfUse[k] => UsedBefore(InOrderOfUse[k - 1], i)
  /\ Len(input) > ShortLen => errors = 0 \/ stage # "parse"
=============================================================================
