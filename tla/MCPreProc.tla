----------------------------- MODULE MCPreProc ------------------------------
(***************************************************************************)
(* Every grammar of two rules with one pattern each, and of a rule with    *)
(* two patterns and one with one pattern, over the symbols "a" and "b"     *)
(* (possible rule names) and "x"; patterns have up to two elements, none   *)
(* included.  Three rules with one element each give every duplication.    *)
(***************************************************************************)
EXTENDS PreProcProps

Names == {"a", "b"}

Elem(s) == [str |-> s, is_terminal |-> FALSE]

SmallPatterns ==
  {[elems |-> [i \in DOMAIN s |-> Elem(s[i])], code |-> "c"] :
     s \in BoundedSeq(Symbols, 2)}

RulesWith(n) == [name : Names, patterns : TupleOf(SmallPatterns, n)]

MCInitialRules ==
  {<<>>} \cup TupleOf(RulesWith(1), 2) \cup TupleOf(RulesWith(2), 1)
    \cup {<<q, r>> : q \in RulesWith(2), r \in RulesWith(1)}
    \cup TupleOf({q \in RulesWith(1) : Len(q.patterns[1].elems) = 1}, 3)
=============================================================================
