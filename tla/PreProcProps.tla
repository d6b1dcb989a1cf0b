---------------------------- MODULE PreProcProps ----------------------------
(* What the two symbol lists mean once pre_process has returned.           *)
EXTENDS PreProc, SequencesExt

RuleNames == {rules[r].name : r \in DOMAIN rules}

(* Every position of an element in the rules, and their order.             *)
Places ==
  UNION {UNION {{<<r, p, e>> : e \in DOMAIN rules[r].patterns[p].elems} :
                p \in DOMAIN rules[r].patterns} : r \in DOMAIN rules}

ElemAt(w) == rules[w[1]].patterns[w[2]].elems[w[3]]

Before(v, w) ==
  \/ v[1] < w[1]
  \/ v[1] = w[1] /\ v[2] < w[2]
  \/ v[1] = w[1] /\ v[2] = w[2] /\ v[3] < w[3]

FirstUse(w) == \A v \in Places : Before(v, w) => ElemAt(v).str # ElemAt(w).str

UsedSymbols == {ElemAt(w).str : w \in Places}

(***************************************************************************)
(* After both passes every symbol of the grammar is classified: the rule   *)
(* names are the non-terminals and all other symbols that a pattern uses   *)
(* are terminals, even when a rule is defined after it is used; each is    *)
(* listed once.                                                            *)
(***************************************************************************)
EverySymbolClassified ==
  phase = "done" =>
    /\ ToSet(non_terminals) = RuleNames
    /\ ToSet(terminals) = UsedSymbols \ RuleNames
    /\ IsInjective(terminals) /\ IsInjective(non_terminals)

(***************************************************************************)
(* is_terminal is set on exactly one occurrence of each terminal, its      *)
(* first, and on no occurrence of a non-terminal; the terminals are listed *)
(* in the order of those occurrences.                                      *)
(***************************************************************************)
FlagMarksFirstUse ==
  phase = "done" =>
    /\ \A w \in Places :
         ElemAt(w).is_terminal
           <=> FirstUse(w) /\ ElemAt(w).str \notin RuleNames
    /\ \A i, j \in DOMAIN terminals : i < j =>
         \E v, w \in Places :
           /\ Before(v, w) /\ FirstUse(v) /\ FirstUse(w)
           /\ ElemAt(v).str = terminals[i] /\ ElemAt(w).str = terminals[j]

(***************************************************************************)
(* One error for every rule beyond the first of its name, so the output    *)
(* that follows an error-free pass has one rule per non-terminal.          *)
(***************************************************************************)
EveryDuplicateReported ==
  phase \in {"terms", "done"} =>
    errors = Cardinality({r \in DOMAIN rules :
                            \E q \in 1 .. r - 1 : rules[q].name = rules[r].name})

(***************************************************************************)
(* The passes are killed only by an empty list, and never get past one.    *)
(***************************************************************************)
HasEmptyList ==
  \/ rules = <<>>
  \/ \E r \in DOMAIN rules :
       \/ rules[r].patterns = <<>>
       \/ \E p \in DOMAIN rules[r].patterns : rules[r].patterns[p].elems = <<>>

CrashIffEmptyList ==
  /\ phase = "crash" => HasEmptyList
  /\ phase = "done" => ~HasEmptyList

(* pre_process returns or is killed.                                       *)
Ends == <>(phase \in {"done", "crash"})
=============================================================================
