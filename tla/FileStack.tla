----------------------------- MODULE FileStack ------------------------------
(***************************************************************************)
(* The stack of input files (fileio.c).  Each open file has its text, the  *)
(* position of its current character, which is past the end when fgetc has *)
(* returned EOF, and its line and column counters.  The head of the        *)
(* sequence is the top of the stack.                                       *)
(***************************************************************************)
EXTENDS Integers, Sequences

CONSTANTS
  Texts,     \* the contents a file can have
  NL,        \* the newline character
  EOF,       \* what fgetc returns at the end of a file; not a character
  MaxOpens   \* bound: how many files are opened in all

ASSUME OpensAssumption == MaxOpens \in Nat

VARIABLES
  stack,  \* file_stack
  ret,    \* what get_char or consume_char returned last
  opens,  \* how many files were opened, for the bound
  alive   \* FALSE once fatal has ended the process

vars == <<stack, ret, opens, alive>>

(* The member ch of a file: the result of its last fgetc.                  *)
Ch(f) == IF f.pos <= Len(f.text) THEN f.text[f.pos] ELSE EOF

(* get_char                                                                *)
GetChar(s) == IF s = <<>> THEN EOF ELSE Ch(s[1])

NewFile(text) == [text |-> text, pos |-> 1, line |-> 1, col |-> 1]

(* fgetc on a file, and the counters that consume_char keeps.              *)
Advance(f) == [f EXCEPT !.pos = IF @ <= Len(f.text) THEN @ + 1 ELSE @]

CountedAfter(f) ==
  IF Ch(f) = NL THEN [Advance(f) EXCEPT !.line = @ + 1, !.col = 1]
                ELSE [Advance(f) EXCEPT !.col = @ + 1]
Counted(f) ==
  IF Ch(Advance(f)) = NL
  THEN [Advance(f) EXCEPT !.line = @ + 1, !.col = 1]
  ELSE [Advance(f) EXCEPT !.col = @ + 1]

(* consume_char: a file that ends is closed, even without being read.      *)
ConsumeKeepingFile(s) ==
  IF s = <<>> THEN s ELSE <<Counted(s[1])>> \o Tail(s)
Consume(s) ==
  IF s = <<>> THEN s
  ELSE IF Ch(Advance(s[1])) = EOF THEN Tail(s)
  ELSE <<Counted(s[1])>> \o Tail(s)

LineNo == IF stack = <<>> THEN -1 ELSE stack[1].line
ColNo  == IF stack = <<>> THEN -1 ELSE stack[1].col

-----------------------------------------------------------------------------
Init == stack = <<>> /\ ret = EOF /\ opens = 0 /\ alive = TRUE

OpenInputFile ==
  /\ alive /\ opens < MaxOpens
  /\ \E text \in Texts : stack' = <<NewFile(text)>> \o stack
  /\ opens' = opens + 1
  /\ UNCHANGED <<ret, alive>>

(* fopen failed: fatal.                                                    *)
OpenFails ==
  /\ alive /\ opens < MaxOpens
  /\ alive' = FALSE
  /\ UNCHANGED <<stack, ret, opens>>

Get ==
  /\ alive
  /\ ret' = GetChar(stack)
  /\ UNCHANGED <<stack, opens, alive>>

ConsumeChar ==
  /\ alive
  /\ stack' = Consume(stack)
  /\ ret' = GetChar(stack')
  /\ UNCHANGED <<opens, alive>>

Exited == ~alive /\ UNCHANGED vars

Next == OpenInputFile \/ OpenFails \/ Get \/ ConsumeChar \/ Exited

Spec == Init /\ [][Next]_vars
=============================================================================
