------------------------------ MODULE RuleTree ------------------------------
(***************************************************************************)
(* The rule list that the parser builds and the later passes walk over     *)
(* (struct rule_t, pattern_t and pat_elem_t of parser.h).  The fields      *)
(* is_recursive and has_nonterms are never assigned and are left out.      *)
(***************************************************************************)
EXTENDS Naturals, Sequences

CONSTANTS
  Symbols,   \* rule names and pattern elements
  Blocks,    \* texts of code blocks, the enclosing braces dropped
  NullText   \* the code of a pattern that was never given one

ASSUME NullAssumption == NullText \notin Blocks

PatElem == [str : Symbols, is_terminal : BOOLEAN]
Pattern == [elems : Seq(PatElem), code : Blocks \cup {NullText}]
Rule    == [name : Symbols, patterns : Seq(Pattern)]
=============================================================================
