---------------------------- MODULE RdpgenProps -----------------------------
(* What rdpgen does with a file, stated on the tokens of the file.         *)
EXTENDS Rdpgen, Grammar

IsSymbolAt(i) == input[i].type = "SYMBOL"

(* In a grammar file a symbol is a rule name exactly when a colon follows. *)
NamePlaces ==
  {i \in 1 .. Len(input) - 1 : IsSymbolAt(i) /\ input[i + 1] = Colon}
ElemPlaces == {i \in DOMAIN input : IsSymbolAt(i)} \ NamePlaces

DefinedNames  == {input[i].str : i \in NamePlaces}
TerminalNames == {input[i].str : i \in ElemPlaces} \ DefinedNames

DistinctNames ==
  \A i, j \in NamePlaces : input[i].str = input[j].str => i = j

(***************************************************************************)
(* The lists that are empty: no rules, a pattern without elements, and,    *)
(* where they are printed, no terminals or no code.                        *)
(***************************************************************************)
NoRules == NamePlaces = {}
AnEmptyPattern ==
  \E i \in 1 .. Len(input) - 1 : input[i] = Colon /\ input[i + 1].type = "BLOCK"
NothingToPrint ==
  verbo > 5 /\ (TerminalNames = {} \/ ArgumentsOf(input, "CODE") = <<>>)

(***************************************************************************)
(* rdpgen is killed exactly by the grammar files that leave one of its     *)
(* lists empty: every other file it reads to the end gets a verdict.       *)
(***************************************************************************)
WalksAnEmptyList ==
  /\ Grammatical(input)
  /\ NoRules \/ AnEmptyPattern \/ (DistinctNames /\ NothingToPrint)

KilledOnlyByEmptyLists ==
  /\ status = "killed" => WalksAnEmptyList
  /\ status = "exit 0" => ~WalksAnEmptyList

(***************************************************************************)
(* The verdict that is printed last is right: no errors means a grammar    *)
(* file whose rules have distinct names.  It is printed whenever the       *)
(* program exits with 0, and never before an exit with 1, which follows an *)
(* error that was counted or, within the scanner, the lack of memory.      *)
(***************************************************************************)
ReportIsRight ==
  /\ status = "exit 0" =>
       /\ Last(out) = [title |-> "errors", body |-> <<errors>>]
       /\ errors = 0 <=> Grammatical(input) /\ DistinctNames
  /\ status = "exit 1" => out = <<>> /\ (errors > 0 \/ pc = "nomemory")

(***************************************************************************)
(* The state of a faulty grammar is never printed: whatever appears before *)
(* the verdict comes from a grammar file with distinct rule names, and is  *)
(* what its verbosity asks for, in order.                                  *)
(***************************************************************************)
Titles == [i \in DOMAIN out |-> out[i].title]

Expected ==
  IF verbo > 5 THEN <<"header", "rules", "terminals", "non terminals", "code">>
  ELSE IF verbo > 3 THEN <<"header", "rules">>
  ELSE IF verbo > 0 THEN <<"header">> ELSE <<>>

OnlyCleanStateIsPrinted ==
  /\ out # <<>> /\ out[1].title = "header" =>
       Grammatical(input) /\ DistinctNames
  /\ status = "exit 0" =>
       Titles = (IF errors = 0 THEN Expected ELSE <<>>) \o <<"errors">>

(***************************************************************************)
(* The printed symbol lists are those of the input: the non-terminals are  *)
(* the rule names in the order of their definitions, and the terminals are *)
(* all the other symbols, each once.                                       *)
(***************************************************************************)
PrintedListsAreComplete ==
  \A i \in DOMAIN out :
    /\ out[i].title = "non terminals" =>
         /\ Len(out[i].body) = Cardinality(NamePlaces)
         /\ \A k, l \in NamePlaces : k < l =>
              \E m, n \in DOMAIN out[i].body :
                m < n /\ out[i].body[m] = input[k].str
                      /\ out[i].body[n] = input[l].str
    /\ out[i].title = "terminals" =>
         IsInjective(out[i].body) /\ ToSet(out[i].body) = TerminalNames

(* The program always ends, unless the scanner never returns.              *)
AlwaysEnds == <>(status # "running")

(***************************************************************************)
(* README.md:6 "There are no basic restrictions on the grammar."  A file   *)
(* with rules, whose names are distinct, is processed to the end.          *)
(***************************************************************************)
NoRestrictionsOnTheGrammar ==
  Grammatical(input) /\ DistinctNames /\ ~NoRules => status # "killed"
=============================================================================
