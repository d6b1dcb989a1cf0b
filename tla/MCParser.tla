------------------------------ MODULE MCParser ------------------------------
(***************************************************************************)
(* Small instance of the parser.  ints have 4 bits and longs 5, so that    *)
(* "9" wraps to a negative verbosity and "99" saturates first.             *)
(***************************************************************************)
EXTENDS ParserProps

MCNumeralValue == [n \in Numerals |->
  CASE n = "0" -> 0 [] n = "6" -> 6 [] n = "9" -> 9 [] OTHER -> 99]
=============================================================================
