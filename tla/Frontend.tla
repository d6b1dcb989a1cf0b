------------------------------ MODULE Frontend ------------------------------
(***************************************************************************)
(* parse_input on a file of characters: the file stack, the scanner and    *)
(* the parser at work together.  A step of the scanner is a step of this   *)
(* module, and moves the file stack when it consumes a character; the step *)
(* in which consume_token returns is also the parser's step up to its next *)
(* call.  Adds what errors.c prints of the position.                       *)
(***************************************************************************)
EXTENDS Integers, SequencesExt

CONSTANTS
  Texts, Letters, Digits, Spaces, High, Others, NL, EOF, Keyword,
  Symbols, Strings, Numerals, Blocks,   \* the texts of the tokens
  NumeralValue, IntMax, LongMax,
  MaxTokens,  \* bound: more than any text has
  None        \* NULL, the name of no file

VARIABLES
  stack,                                     \* of FileStack
  text, stok, spc, count, tokens, scanErrors, alive,   \* of Scanner
  tok, errors, pc, rule, elems, rules, verbo, name, prefix, code, input,
                                             \* of Parser
  reports    \* what syntax() printed: which token was read last, and where

scanVars == <<text, stok, spc, count, tokens, scanErrors, alive>>
parserVars == <<tok, errors, pc, rule, elems, rules, verbo, name, prefix,
                code, input>>
vars == <<stack, scanVars, parserVars, reports>>

Files == INSTANCE FileStack WITH MaxOpens <- 1, ret <- EOF, opens <- 1

(* What the scanner finds in the one file that is open.                    *)
Rest == IF stack = <<>> THEN <<>>
        ELSE SubSeq(stack[1].text, stack[1].pos, Len(stack[1].text))

Scan == INSTANCE Scanner WITH
          MaxCalls <- MaxTokens, rest <- Rest, tok <- stok, pc <- spc,
          errors <- scanErrors

Parse == INSTANCE Parser WITH
           UnknownName <- Scan!UnknownDirective, NoText <- <<>>, NullText <- None

(* What the parts assume of the constants.  That the texts of the tokens   *)
(* are all there is not assumed: a token without its text is not read.     *)
ASSUME FrontendAssumption ==
  /\ Scan!ScannerAssumption
  /\ Parse!NumberAssumption /\ Parse!NullAssumption

-----------------------------------------------------------------------------
(* open_input_file of create_parser, and everything before the first call. *)
Init ==
  /\ text \in Texts
  /\ stack = <<Files!NewFile(text)>>
  /\ Scan!Init
  /\ Parse!Init
  /\ reports = <<>>

(* get_fname, get_line_no and get_col_no, after the step.                  *)
Position == [named |-> stack # <<>>, line |-> Files!LineNo, col |-> Files!ColNo]

(* syntax() says where the file stands, not where the token was.           *)
Printed == [last |-> Len(input), at |-> Position]

Reporting ==
  reports' = IF errors' > errors THEN Append(reports, Printed') ELSE reports

(* The scanner consumes a character of the file, or none.                  *)
Advance ==
  \/ UNCHANGED stack
  \/ Rest # <<>> /\ stack' = Files!Consume(stack)

-----------------------------------------------------------------------------
CallScanner ==
  /\ spc = "idle" /\ alive /\ Parse!Consuming
  /\ UNCHANGED <<stack, parserVars, reports>>
  /\ Scan!Call

ScanOn ==
  /\ spc # "idle"
  /\ Advance /\ Scan!ScanStep
  /\ spc' # "idle" /\ alive'
  /\ UNCHANGED <<parserVars, reports>>

(* consume_token returns, and the parser goes on to its next call.         *)
Deliver ==
  /\ spc # "idle"
  /\ Advance /\ Scan!ScanStep
  /\ spc' = "idle"
  /\ tok' = Scan!AsToken(Last(tokens'))
  /\ Parse!ReadStep
  /\ Reporting

(* check_eof ends the process.                                             *)
ScanFatal ==
  /\ spc # "idle"
  /\ Advance /\ Scan!ScanStep
  /\ ~alive'
  /\ Parse!ScannerStops /\ pc' = "fatal"
  /\ Reporting

(* mem_realloc ends it, in a string or block that is not closed.           *)
OutOfMemory ==
  /\ UNCHANGED stack
  /\ Scan!OutOfMemory
  /\ Parse!ScannerStops /\ pc' = "nomemory"
  /\ Reporting

(* What the parser does between two calls.                                 *)
ParseOn ==
  /\ spc = "idle" /\ alive
  /\ Parse!LocalStep
  /\ UNCHANGED <<stack, scanVars>>
  /\ Reporting

Step == CallScanner \/ ScanOn \/ Deliver \/ ScanFatal \/ OutOfMemory \/ ParseOn

Over == pc = "done" \/ ~alive

Next == Step \/ (Over /\ UNCHANGED vars)

Spec == Init /\ [][Next]_vars

FairSpec == Spec /\ WF_vars(Step)
=============================================================================
