------------------------------- MODULE Parser -------------------------------
(***************************************************************************)
(* The parser of rdpgen (parser.c): parse_input reads a grammar file token *)
(* by token into the Pstate.                                               *)
(*                                                                         *)
(* The scanner is abstract here: each call of consume_token delivers a     *)
(* token that the input may contain at that point, ends the process        *)
(* (fatal, scanner.c:33, or for lack of memory in an unclosed string or    *)
(* block) or never returns (an unclosed comment).  Module Scanner models   *)
(* it character by character.  A step is one call of consume_token with    *)
(* the code up to the next call.                                           *)
(***************************************************************************)
EXTENDS Tokens, Integers

CONSTANTS
  NumeralValue, \* the number that each numeral denotes
  IntMax,       \* INT_MAX, the largest int
  LongMax,      \* LONG_MAX, where strtol saturates
  MaxTokens     \* bound: the input has at most this many tokens before its end

ASSUME NumberAssumption ==
  /\ NumeralValue \in [Numerals -> Nat]
  /\ IntMax \in Nat
  /\ LongMax \in Nat
  /\ MaxTokens \in Nat

VARIABLES
  tok,      \* _tok, the scanner's current token (scanner.c)
  errors,   \* the count kept by errors.c
  pc,       \* where parse_input stands
  rule,     \* the rule being built by parse_rule
  elems,    \* the elements of the pattern being built by parse_pattern
  rules, verbo, name, prefix, code,   \* the fields of Pstate
  input     \* history: the distinct tokens read so far

pstate == <<rules, verbo, name, prefix, code>>
parserVars == <<tok, errors, pc, rule, elems, rules, verbo, name, prefix,
                code, input>>

NoRule == [name |-> NoText, patterns |-> <<>>]

(***************************************************************************)
(* (int)strtol(numeral): strtol saturates at LONG_MAX, the conversion to   *)
(* int keeps the low bits.                                                 *)
(***************************************************************************)
Strtol(n) == IF NumeralValue[n] > LongMax THEN LongMax ELSE NumeralValue[n]
ToIntSaturating(v) == IF v > IntMax THEN IntMax ELSE v
ToInt(v)  == ((v + IntMax + 1) % (2 * IntMax + 2)) - (IntMax + 1)

-----------------------------------------------------------------------------
(* The scanner, as TokenSource promises it to consume_token's callers.     *)

NextTokens ==
  IF Len(input) < MaxTokens \/ tok \in Sticky THEN Following(tok)
                                             ELSE {EndToken}

(* consume_token returns t.                                                *)
Read(t) ==
  /\ tok' = t
  /\ input' = IF tok \in Sticky THEN input ELSE Append(input, t)

(* What parse_pattern and parse_rule report of the part they have read.    *)
PatternErrors(last) == Report(last.type # "BLOCK")

RuleErrorsUnchecked(r) == 0
RuleErrors(r) == Report(r.patterns = <<>>)

-----------------------------------------------------------------------------
Init ==
  /\ tok = BadDirective   \* not read before create_parser primes it
  /\ errors = 0
  /\ pc = "create"
  /\ rule = NoRule
  /\ elems = <<>>
  /\ rules = <<>> /\ verbo = 0 /\ name = NoText /\ prefix = NoText
  /\ code = <<>>
  /\ input = <<>>

(* create_parser: prime the scanner, then set up the Pstate.               *)
CreateParser ==
  /\ pc = "create"
  /\ \E t \in NextTokens : Read(t) /\ errors' = errors + ScanErrors(t)
  /\ pc' = "top"
  /\ verbo' = 5
  /\ UNCHANGED <<rule, elems, rules, name, prefix, code>>

(* parse_input's loop runs while no error was reported.                    *)
AtTop(types) == pc = "top" /\ errors = 0 /\ tok.type \in types

(* parse_rule: capture the rule name.                                      *)
BeginRule ==
  /\ AtTop({"SYMBOL"})
  /\ rule' = [name |-> tok.str, patterns |-> <<>>]
  /\ pc' = "alternatives"
  /\ UNCHANGED <<tok, errors, elems, pstate, input>>

(* parse_rule: a colon begins one more pattern.                            *)
BeginPattern ==
  /\ pc = "alternatives"
  /\ Colon \in NextTokens
  /\ Read(Colon)
  /\ elems' = <<>>
  /\ pc' = "elems"
  /\ UNCHANGED <<errors, rule, pstate>>

NewElem(s) == [str |-> s, is_terminal |-> FALSE]

ElemsWithPrepended(s) == <<NewElem(s)>> \o elems
ElemsWith(s) == Append(elems, NewElem(s))

(* parse_pattern: one more element of the pattern.                         *)
AddElem ==
  /\ pc = "elems"
  /\ \E t \in NextTokens :
       /\ t.type = "SYMBOL"
       /\ Read(t)
       /\ elems' = ElemsWith(t.str)
  /\ UNCHANGED <<errors, pc, rule, pstate>>

CodeOfAny(t) == t.str
CodeOf(t) == IF t.type = "BLOCK" THEN t.str ELSE NullText

(* parse_pattern: anything else ends the pattern; it should be its code.   *)
EndPattern ==
  /\ pc = "elems"
  /\ \E t \in NextTokens :
       /\ t.type # "SYMBOL"
       /\ Read(t)
       /\ rule' = [rule EXCEPT !.patterns =
                     Append(@, [elems |-> elems, code |-> CodeOf(t)])]
       /\ errors' = errors + ScanErrors(t) + PatternErrors(t)
  /\ pc' = "alternatives"
  /\ elems' = <<>>
  /\ UNCHANGED pstate

(* parse_rule: anything but a colon ends the rule, which is kept even when *)
(* it has no pattern.                                                      *)
EndRule ==
  /\ pc = "alternatives"
  /\ \E t \in NextTokens :
       /\ t.type # "COLON"
       /\ Read(t)
       /\ errors' = errors + ScanErrors(t) + RuleErrors(rule)
  /\ rules' = Append(rules, rule)
  /\ rule' = NoRule
  /\ pc' = "top"
  /\ UNCHANGED <<elems, verbo, name, prefix, code>>

-----------------------------------------------------------------------------
(***************************************************************************)
(* parse_verbo, parse_prefix, parse_name and parse_code read the token     *)
(* after the directive.  Set(t) stores an argument of the right type;      *)
(* any other token is an error.  Either way that token is then skipped.    *)
(***************************************************************************)
ParseArgument(directive, arg, Set(_), setting) ==
  /\ AtTop({directive})
  /\ \E t \in NextTokens :
       /\ Read(t)
       /\ IF t.type = arg
          THEN Set(t) /\ UNCHANGED errors
          ELSE errors' = errors + ScanErrors(t) + 1 /\ UNCHANGED setting
  /\ pc' = "skip"
  /\ UNCHANGED <<rule, elems, rules>>

ParseVerbo ==
  /\ ParseArgument("VERBOSITY", "NUMBER",
                   LAMBDA t : verbo' = ToInt(Strtol(t.str)), verbo)
  /\ UNCHANGED <<name, prefix, code>>

ParsePrefix ==
  /\ ParseArgument("PREFIX", "STRG", LAMBDA t : prefix' = t.str, prefix)
  /\ UNCHANGED <<verbo, name, code>>

ParseName ==
  /\ ParseArgument("NAME", "STRG", LAMBDA t : name' = t.str, name)
  /\ UNCHANGED <<verbo, prefix, code>>

ParseCode ==
  /\ ParseArgument("CODE", "BLOCK", LAMBDA t : code' = Append(code, t.str),
                   code)
  /\ UNCHANGED <<verbo, name, prefix>>

(* The last consume_token of a directive: its argument is passed over.     *)
SkipArgument ==
  /\ pc = "skip"
  /\ \E t \in NextTokens : Read(t) /\ errors' = errors + ScanErrors(t)
  /\ pc' = "top"
  /\ UNCHANGED <<rule, elems, pstate>>

(* The default case of parse_input reports the token and consumes nothing. *)
Unexpected ==
  /\ AtTop({"ERROR", "BLOCK", "COLON", "STRG", "NUMBER"})
  /\ errors' = errors + 1
  /\ UNCHANGED <<tok, pc, rule, elems, pstate, input>>

FinishOnlyAtEnd ==
  /\ pc = "top"
  /\ tok.type = "END_OF_INPUT" \/ errors > 0
  /\ pc' = IF tok.type = "END_OF_INPUT" THEN "done" ELSE "top"
  /\ UNCHANGED <<tok, errors, rule, elems, pstate, input>>

(* parse_input returns: at the end of the input, or after an error.        *)
Finish ==
  /\ pc = "top"
  /\ tok.type = "END_OF_INPUT" \/ errors > 0
  /\ pc' = "done"
  /\ UNCHANGED <<tok, errors, rule, elems, pstate, input>>

(* The next step calls consume_token.                                      *)
Consuming ==
  \/ pc \in {"create", "alternatives", "elems", "skip"}
  \/ AtTop(DirectiveTypes)

(***************************************************************************)
(* Where there is input left, that call may end the process in check_eof,  *)
(* after two error reports, or in mem_realloc, without any; or it may      *)
(* never return.                                                           *)
(***************************************************************************)
ScannerStops ==
  /\ Consuming
  /\ tok \notin Sticky
  /\ \/ pc' = "fatal" /\ errors' = errors + 2
     \/ pc' \in {"nomemory", "hung"} /\ UNCHANGED errors
  /\ UNCHANGED <<tok, rule, elems, pstate, input>>

(* The steps that call consume_token, and those that do not.               *)
ReadStep ==
  \/ CreateParser
  \/ BeginPattern \/ AddElem \/ EndPattern \/ EndRule
  \/ ParseVerbo \/ ParsePrefix \/ ParseName \/ ParseCode \/ SkipArgument

LocalStep == BeginRule \/ Unexpected \/ Finish

ParseStep == ReadStep \/ LocalStep \/ ScannerStops

Exited == pc \in {"fatal", "nomemory"}
Stopped == pc \in {"done", "hung"} \/ Exited

Terminated == Stopped /\ UNCHANGED parserVars

Next == ParseStep \/ Terminated

Spec == Init /\ [][Next]_parserVars
=============================================================================
