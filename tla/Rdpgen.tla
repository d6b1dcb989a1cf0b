------------------------------- MODULE Rdpgen -------------------------------
(***************************************************************************)
(* The whole program (main of rdpgen.c): open and parse the input, run the *)
(* passes, print the state, report the number of errors.  Composes Parser  *)
(* and PreProc over the shared rules and error count, and models the       *)
(* output of dump.c section by section.                                    *)
(***************************************************************************)
EXTENDS Parser

VARIABLES
  terminals, non_terminals, phase, cur,  \* of PreProc
  stage,    \* "open", "parse", "process", "dump", "report" or "over"
  section,  \* the section of the dump that is printed next
  out,      \* what was printed to stdout
  status    \* "running", or how the program ended

preOnly  == <<terminals, non_terminals, phase, cur>>
mainVars == <<stage, section, out, status>>
vars == <<parserVars, preOnly, mainVars>>

PP == INSTANCE PreProc WITH InitialRules <- {}

MainInit ==
  /\ Init
  /\ PP!PreInit
  /\ stage = "open"
  /\ section = 1
  /\ out = <<>>
  /\ status = "running"

(* The program ends, and how.                                              *)
End(how) == stage' = "over" /\ status' = how

-----------------------------------------------------------------------------
(* parse_input *)

(* open_input_file: a file that cannot be opened is fatal.                 *)
OpenInput ==
  /\ stage = "open"
  /\ \/ stage' = "parse" /\ UNCHANGED <<errors, status>>
     \/ errors' = errors + 1 /\ End("exit 1")
  /\ UNCHANGED <<tok, pc, rule, elems, pstate, input, preOnly, section, out>>

Parse ==
  /\ stage = "parse"
  /\ ParseStep
  /\ UNCHANGED <<preOnly, mainVars>>

AfterParse == IF errors = 0 THEN "process" ELSE "report"

ParseOver ==
  /\ stage = "parse"
  /\ CASE pc = "done" -> stage' = AfterParse /\ UNCHANGED status
       [] Exited      -> End("exit 1")
       [] pc = "hung" -> End("hung")
       [] OTHER       -> FALSE
  /\ UNCHANGED <<parserVars, preOnly, section, out>>

-----------------------------------------------------------------------------
(* pre_process *)

PreProcess ==
  /\ stage = "process"
  /\ PP!PreProcess
  /\ UNCHANGED <<tok, pc, rule, elems, verbo, name, prefix, code, input,
                 mainVars>>

DumpAnyway == "dump"
AfterPasses == IF errors = 0 THEN "dump" ELSE "report"

PassesOver ==
  /\ stage = "process"
  /\ CASE phase = "done"  -> stage' = AfterPasses /\ UNCHANGED status
       [] phase = "crash" -> End("killed")
       [] OTHER           -> FALSE
  /\ UNCHANGED <<parserVars, preOnly, section, out>>

-----------------------------------------------------------------------------
(***************************************************************************)
(* dump_state: five sections, each printed above its own verbosity.  A     *)
(* section that walks a list is a FOR_LST loop: on an empty list the       *)
(* program is killed after it printed the section's heading.               *)
(***************************************************************************)
Sections == <<"header", "rules", "terminals", "non terminals", "code">>
Threshold == <<0, 3, 5, 5, 5>>

Contents(i) ==
  CASE Sections[i] = "header"        -> <<name, prefix, verbo>>
    [] Sections[i] = "rules"         -> rules
    [] Sections[i] = "terminals"     -> terminals
    [] Sections[i] = "non terminals" -> non_terminals
    [] Sections[i] = "code"          -> code

HasEmptyPattern ==
  \E r \in DOMAIN rules :
    \/ PP!WildLoop(rules[r].patterns)
    \/ \E p \in DOMAIN rules[r].patterns :
         PP!WildLoop(rules[r].patterns[p].elems)

WildSection(i) ==
  \/ PP!WildLoop(Contents(i))
  \/ Sections[i] = "rules" /\ HasEmptyPattern

Section(i) == [title |-> Sections[i], body |-> Contents(i)]

PrintedAtThreshold(i) == verbo >= Threshold[i]
Printed(i) == verbo > Threshold[i]

DumpSection ==
  /\ stage = "dump"
  /\ section \in DOMAIN Sections
  /\ IF ~Printed(section)
     THEN section' = section + 1 /\ UNCHANGED <<out, stage, status>>
     ELSE /\ out' = Append(out, Section(section))
          /\ IF WildSection(section)
             THEN End("killed") /\ UNCHANGED section
             ELSE section' = section + 1 /\ UNCHANGED <<stage, status>>
  /\ UNCHANGED <<parserVars, preOnly>>

DumpOver ==
  /\ stage = "dump"
  /\ section \notin DOMAIN Sections
  /\ stage' = "report"
  /\ UNCHANGED <<parserVars, preOnly, section, out, status>>

(* main's last line; the exit status is 0 even when there were errors.     *)
ReportErrors ==
  /\ stage = "report"
  /\ out' = Append(out, [title |-> "errors", body |-> <<errors>>])
  /\ End("exit 0")
  /\ UNCHANGED <<parserVars, preOnly, section>>

-----------------------------------------------------------------------------
MainStep ==
  \/ OpenInput \/ Parse \/ ParseOver
  \/ PreProcess \/ PassesOver
  \/ DumpSection \/ DumpOver \/ ReportErrors

MainTerminated == stage = "over" /\ UNCHANGED vars

MainNext == MainStep \/ MainTerminated

MainSpec == MainInit /\ [][MainNext]_vars

MainFairSpec == MainSpec /\ WF_vars(MainStep)
=============================================================================
