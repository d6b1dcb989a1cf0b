------------------------------- MODULE PreProc ------------------------------
(***************************************************************************)
(* The passes between the parser and the output (preproc.c): the list of   *)
(* non-terminals, one per rule name, and the list of terminals, the other  *)
(* symbols that the patterns use.  A step is one iteration of the          *)
(* innermost loop.                                                         *)
(*                                                                         *)
(* All loops are FOR_LST (ptrlst.h), whose first test is on the result of  *)
(* reset_lst.  For an empty list that is not NULL but an address just      *)
(* above NULL, so the body runs on it: the program reads an address that   *)
(* is not mapped and is killed.                                            *)
(***************************************************************************)
EXTENDS RuleTree

CONSTANTS
  InitialRules  \* the rule lists that the parser may hand over

(* parse_pattern clears is_terminal in every element that it makes.        *)
Unflagged(rs) ==
  \A r \in DOMAIN rs : \A p \in DOMAIN rs[r].patterns :
    \A e \in DOMAIN rs[r].patterns[p].elems :
      ~rs[r].patterns[p].elems[e].is_terminal

ASSUME InitialRulesAssumption ==
  \A rs \in InitialRules : rs \in Seq(Rule) /\ Unflagged(rs)

VARIABLES
  rules,          \* Pstate.rules
  terminals,      \* Pstate.terminals
  non_terminals,  \* Pstate.non_terminals
  errors,         \* the count kept by errors.c
  phase,          \* "non_terms", "terms", "done" or "crash"
  cur             \* the list cursors: rule r, pattern p, element e

preVars == <<rules, terminals, non_terminals, errors, phase, cur>>

(* str_in_lst: the string occurs in the list.                              *)
StrInLst(lst, s) == \E i \in DOMAIN lst : lst[i] = s

(* is_term: neither a rule name nor already listed as a terminal.          *)
IsTermOfRules(s) == ~StrInLst(non_terminals, s)
IsTermTwice(s) == ~StrInLst(terminals, s)
IsTerm(s) == ~StrInLst(terminals, s) /\ ~StrInLst(non_terminals, s)

(***************************************************************************)
(* What reset_lst leads to: the loop over lst runs its body on a wild      *)
(* pointer when lst is empty.                                              *)
(***************************************************************************)
WildLoop(lst) == lst = <<>>

Start == [r |-> 1, p |-> 1, e |-> 1]

PreInit ==
  /\ terminals = <<>>
  /\ non_terminals = <<>>
  /\ phase = "non_terms"
  /\ cur = Start

Init ==
  /\ PreInit
  /\ rules \in InitialRules
  /\ errors = 0

-----------------------------------------------------------------------------
(* make_non_terms                                                          *)

NextRule ==
  IF cur.r < Len(rules)
  THEN cur' = [cur EXCEPT !.r = @ + 1] /\ UNCHANGED phase
  ELSE cur' = Start /\ phase' = "terms"

NoRules ==
  /\ phase = "non_terms"
  /\ WildLoop(rules)
  /\ phase' = "crash"
  /\ UNCHANGED <<rules, terminals, non_terminals, errors, cur>>

NamesWithFirst(s) == <<s>> \o non_terminals
NamesWith(s) == Append(non_terminals, s)

AddNonTerm ==
  /\ phase = "non_terms"
  /\ ~WildLoop(rules)
  /\ ~StrInLst(non_terminals, rules[cur.r].name)
  /\ non_terminals' = NamesWith(rules[cur.r].name)
  /\ NextRule
  /\ UNCHANGED <<rules, terminals, errors>>

ReportedSilently == errors
Reported == errors + 1

DuplicateRule ==
  /\ phase = "non_terms"
  /\ ~WildLoop(rules)
  /\ StrInLst(non_terminals, rules[cur.r].name)
  /\ errors' = Reported
  /\ NextRule
  /\ UNCHANGED <<rules, terminals, non_terminals>>

-----------------------------------------------------------------------------
(* make_terms: three nested loops, the cursor of each inner one reset when *)
(* the outer one moves on.                                                 *)

Patterns == rules[cur.r].patterns
Elems    == Patterns[cur.p].elems

MorePatternsButOne == cur.p + 1 < Len(Patterns)
MorePatterns == cur.p < Len(Patterns)

StartOfNextPattern == [cur EXCEPT !.p = @ + 1, !.e = 1]
StartOfNextRule == [r |-> cur.r + 1, p |-> 1, e |-> 1]

WalkAgain == cur' = Start /\ UNCHANGED phase
WalkEnds == phase' = "done" /\ UNCHANGED cur

NextElem ==
  IF cur.e < Len(Elems)
  THEN cur' = [cur EXCEPT !.e = @ + 1] /\ UNCHANGED phase
  ELSE IF MorePatterns THEN cur' = StartOfNextPattern /\ UNCHANGED phase
  ELSE IF cur.r < Len(rules) THEN cur' = StartOfNextRule /\ UNCHANGED phase
  ELSE WalkEnds

NothingToMatch == WildLoop(Patterns) \/ WildLoop(Elems)

EmptyPattern ==
  /\ phase = "terms"
  /\ NothingToMatch
  /\ phase' = "crash"
  /\ UNCHANGED <<rules, terminals, non_terminals, errors, cur>>

(* The flag is set through the cursor, on this occurrence only.            *)
FlaggedFirst == [rules EXCEPT ![cur.r].patterns[cur.p].elems[1].is_terminal = TRUE]
Flagged == [rules EXCEPT ![cur.r].patterns[cur.p].elems[cur.e].is_terminal = TRUE]

AddTerm ==
  /\ phase = "terms"
  /\ ~NothingToMatch
  /\ IsTerm(Elems[cur.e].str)
  /\ terminals' = Append(terminals, Elems[cur.e].str)
  /\ rules' = Flagged
  /\ NextElem
  /\ UNCHANGED <<non_terminals, errors>>

SkipTerm ==
  /\ phase = "terms"
  /\ ~NothingToMatch
  /\ ~IsTerm(Elems[cur.e].str)
  /\ NextElem
  /\ UNCHANGED <<rules, terminals, non_terminals, errors>>

PreProcess ==
  \/ NoRules \/ AddNonTerm \/ DuplicateRule
  \/ EmptyPattern \/ AddTerm \/ SkipTerm

Terminated == phase \in {"done", "crash"} /\ UNCHANGED preVars

Next == PreProcess \/ Terminated

Spec == Init /\ [][Next]_preVars

FairSpec == Spec /\ WF_preVars(PreProcess)
=============================================================================
