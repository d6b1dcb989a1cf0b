-------------------------- MODULE Frontend_proofs ---------------------------
(***************************************************************************)
(* For every text, of any length and over any characters: what parse_input *)
(* makes of a file, as module FrontendProps states it on the characters of *)
(* the file.  The scanner and the parser behave in the composition as they *)
(* do alone, so all that is proved about each of them holds here; what is  *)
(* new is what they hand to one another.  The scanner's part is taken from *)
(* Scanner_proofs and the parser's from Rdpgen_proofs.                     *)
(***************************************************************************)
EXTENDS FrontendProps, FiniteSetTheorems, SequenceTheorems, TLAPS

SP == INSTANCE Scanner_proofs WITH
        MaxCalls <- MaxTokens, rest <- Rest, tok <- stok, pc <- spc,
        errors <- scanErrors

(* Of the program around the parser nothing is used: main stands in        *)
(* parse_input, and the passes have not begun.                             *)
PaP == INSTANCE Rdpgen_proofs WITH
         UnknownName <- Scan!UnknownDirective, NoText <- <<>>,
         NullText <- None,
         terminals <- <<>>, non_terminals <- <<>>, phase <- "idle", cur <- 1,
         stage <- "parse", section <- 1, out <- <<>>, status <- "running"

-----------------------------------------------------------------------------
(* A definition means the same by whichever instance it is named: the      *)
(* proofs of the parts name it by another one than this composition does.  *)

(* The characters that have a meaning of their own.                        *)
LEMMA SameMarks ==
  /\ Scan!FF = SP!FF /\ Scan!NUL = SP!NUL /\ Scan!Quote = SP!Quote
  /\ Scan!LBrace = SP!LBrace /\ Scan!RBrace = SP!RBrace
BY Zenon DEF Scan!FF, SP!FF, Scan!NUL, SP!NUL, Scan!Quote, SP!Quote,
   Scan!LBrace, SP!LBrace, Scan!RBrace, SP!RBrace

(* The helpers of the scanner, and what it does with one character.        *)
LEMMA SameParts ==
  /\ \A s : /\ Scan!Char(s) = SP!Char(s) /\ Scan!Drop(s) = SP!Drop(s)
            /\ Scan!CopyStr(s) = SP!CopyStr(s)
  /\ \A s : /\ Scan!CheckEof(s) <=> SP!CheckEof(s)
            /\ Scan!IsEnd(s) <=> SP!IsEnd(s)
  /\ Scan!Char(Rest') = SP!Char(Rest')
  /\ Scan!CheckEof(Rest') <=> SP!CheckEof(Rest')
  /\ \A s : Scan!Depth(s) = SP!Depth(s) /\ (Scan!Return(s) <=> SP!Return(s))
  /\ Scan!ch = SP!ch /\ (Scan!ConsumeChar <=> SP!ConsumeChar)
  /\ (Scan!LeaveChar <=> SP!LeaveChar) /\ (Scan!KeepChar <=> SP!KeepChar)
<1>1. \A s : Scan!Char(s) = SP!Char(s)
  BY DEF Scan!Char, SP!Char
<1>2. \A s : Scan!Drop(s) = SP!Drop(s)
  BY DEF Scan!Drop, SP!Drop
<1>3. \A s : Scan!CopyStr(s) = SP!CopyStr(s)
  BY SameMarks DEF Scan!CopyStr, SP!CopyStr, SelectInSeq, Scan!SelectInSeq,
     SP!SelectInSeq, SP!Min, Scan!Min
<1>4. \A s : Scan!CheckEof(s) <=> SP!CheckEof(s)
  BY SameMarks, <1>1 DEF Scan!CheckEof, SP!CheckEof
<1>4a. Scan!Char(Rest') = SP!Char(Rest')
  BY DEF Scan!Char, SP!Char
<1>4b. Scan!CheckEof(Rest') <=> SP!CheckEof(Rest')
  BY SameMarks, <1>4a DEF Scan!CheckEof, SP!CheckEof
<1>5. \A s : Scan!IsEnd(s) <=> SP!IsEnd(s)
  BY SameMarks DEF Scan!IsEnd, SP!IsEnd
<1>6. \A s : Scan!Depth(s) = SP!Depth(s)
  BY SameMarks DEF Scan!Depth, SP!Depth
<1>7. \A s : Scan!Return(s) <=> SP!Return(s)
  BY <1>3 DEF Scan!Return, SP!Return
<1>8. Scan!ch = SP!ch
  BY <1>1 DEF Scan!ch, SP!ch
<1>9. Scan!ConsumeChar <=> SP!ConsumeChar
  BY <1>2 DEF Scan!ConsumeChar, SP!ConsumeChar
<1>10. (Scan!LeaveChar <=> SP!LeaveChar) /\ (Scan!KeepChar <=> SP!KeepChar)
  BY <1>8 DEF Scan!LeaveChar, SP!LeaveChar, Scan!KeepChar, SP!KeepChar
<1> QED BY <1>1, <1>2, <1>3, <1>4, <1>4a, <1>4b, <1>5, <1>6, <1>7, <1>8, <1>9,
           <1>10

(* A step of the scanner.                                                  *)
LEMMA SameScan == Scan!ScanStep <=> SP!ScanStep
<1>1. Scan!Starters = SP!Starters
  BY SameMarks DEF Scan!Starters, SP!Starters
<1>2. /\ Scan!SkipSpace <=> SP!SkipSpace
      /\ Scan!BeginComment <=> SP!BeginComment
      /\ Scan!SkipComment <=> SP!SkipComment
  BY SameMarks, SameParts DEF Scan!SkipSpace, SP!SkipSpace, Scan!BeginComment,
     SP!BeginComment, Scan!SkipComment, SP!SkipComment, Scan!Working,
     SP!Working
<1>3. /\ Scan!EndOfInput <=> SP!EndOfInput
      /\ Scan!GetColon <=> SP!GetColon
      /\ Scan!BadChar <=> SP!BadChar
  BY <1>1, SameMarks, SameParts DEF Scan!EndOfInput, SP!EndOfInput,
     Scan!GetColon, SP!GetColon, Scan!BadChar, SP!BadChar, Scan!Working,
     SP!Working
<1>4. /\ Scan!BeginString <=> SP!BeginString
      /\ Scan!BeginBlock <=> SP!BeginBlock
      /\ Scan!BeginWord <=> SP!BeginWord
  BY SameMarks, SameParts DEF Scan!BeginString, SP!BeginString,
     Scan!BeginBlock, SP!BeginBlock, Scan!BeginWord, SP!BeginWord,
     Scan!Working, SP!Working
<1>5. /\ Scan!ReadDirective <=> SP!ReadDirective
      /\ Scan!EndDirective <=> SP!EndDirective
  BY SameMarks, SameParts DEF Scan!ReadDirective, SP!ReadDirective,
     Scan!EndDirective, SP!EndDirective, Scan!Working, SP!Working
<1>6. /\ Scan!ReadString <=> SP!ReadString
      /\ Scan!EndString <=> SP!EndString
      /\ Scan!ReadNumber <=> SP!ReadNumber
  BY SameMarks, SameParts DEF Scan!ReadString, SP!ReadString, Scan!EndString,
     SP!EndString, Scan!ReadNumber, SP!ReadNumber, Scan!Working, SP!Working
<1>7. /\ Scan!ReadSymbol <=> SP!ReadSymbol
      /\ Scan!ReadBlock <=> SP!ReadBlock
  BY SameMarks, SameParts DEF Scan!ReadSymbol, SP!ReadSymbol, Scan!ReadBlock,
     SP!ReadBlock, Scan!IsSymbol1, SP!IsSymbol1, Scan!Working, SP!Working
<1>8. Scan!Spin <=> SP!Spin
  BY DEF Scan!Spin, SP!Spin, Scan!Spinning, SP!Spinning, Scan!vars, SP!vars
<1> QED BY <1>2, <1>3, <1>4, <1>5, <1>6, <1>7, <1>8 DEF Scan!ScanStep,
           SP!ScanStep

(* The tokens of a text.                                                   *)
LEMMA SameCuts == \A s, n : Lex!Cuts(s, n) = SP!Lex!Cuts(s, n)
<1>1. \A s, i, c : Lex!Find(s, i, c) = SP!Lex!Find(s, i, c)
  BY DEF Lex!Find, SP!Lex!Find, Lex!Min, SP!Lex!Min
<1>2. \A s, i, c : Lex!RunEnd(s, i, c) = SP!Lex!RunEnd(s, i, c)
  BY DEF Lex!RunEnd, SP!Lex!RunEnd, Lex!Max, SP!Lex!Max
<1>3. \A s, i, j, c : Lex!Braces(s, i, j, c) = SP!Lex!Braces(s, i, j, c)
  BY Zenon DEF Lex!Braces, SP!Lex!Braces, Lex!Cardinality, SP!Lex!Cardinality
<1>4. \A s, i : Lex!Closing(s, i) = SP!Lex!Closing(s, i)
  <2> SUFFICES ASSUME NEW s, NEW i
               PROVE  Lex!Closing(s, i) = SP!Lex!Closing(s, i)
    OBVIOUS
  <2>1. \A j : Lex!Braces(s, i, j, Scan!LBrace) = Lex!Braces(s, i, j, Scan!RBrace)
               <=> SP!Lex!Braces(s, i, j, SP!LBrace)
                     = SP!Lex!Braces(s, i, j, SP!RBrace)
    BY <1>3, SameMarks
  <2> DEFINE at == {j \in i .. Len(s) :
                      Lex!Braces(s, i, j, Scan!LBrace) = Lex!Braces(s, i, j, Scan!RBrace)}
             bt == {j \in i .. Len(s) : SP!Lex!Braces(s, i, j, SP!LBrace)
                                          = SP!Lex!Braces(s, i, j, SP!RBrace)}
  <2>2. at = bt
    BY <2>1
  <2>3. Lex!Closing(s, i) = IF at = {} THEN 0 ELSE Lex!Min(at)
    BY DEF Lex!Closing
  <2>4. SP!Lex!Closing(s, i) = IF bt = {} THEN 0 ELSE SP!Lex!Min(bt)
    BY DEF SP!Lex!Closing
  <2>5. Lex!Min(at) = SP!Lex!Min(at)
    BY DEF Lex!Min, SP!Lex!Min
  <2> HIDE DEF at, bt
  <2> QED BY <2>2, <2>3, <2>4, <2>5
<1>5. \A s, i, j : Lex!Refused(s, i, j) <=> SP!Lex!Refused(s, i, j)
  BY SameMarks DEF Lex!Refused, SP!Lex!Refused
<1>6. \A s, i : Lex!Start(s, i) = SP!Lex!Start(s, i)
  BY DEF Lex!Start, SP!Lex!Start, Lex!Min, SP!Lex!Min
<1>7. \A type, s, i, j, next :
        Lex!Tok(type, s, i, j, next) = SP!Lex!Tok(type, s, i, j, next)
  BY <1>1, SameMarks DEF Lex!Tok, SP!Lex!Tok
<1>8. /\ \A m : Lex!Stop(m) = SP!Lex!Stop(m)
      /\ Lex!Hang = SP!Lex!Hang /\ Lex!Fatal = SP!Lex!Fatal
      /\ Lex!Outset = SP!Lex!Outset
  BY DEF Lex!Stop, SP!Lex!Stop, Lex!Hang, SP!Lex!Hang, Lex!Fatal, SP!Lex!Fatal,
     Lex!Outset, SP!Lex!Outset
<1>9. \A s, i : Lex!DirectiveAt(s, i) = SP!Lex!DirectiveAt(s, i)
  BY <1>2, <1>5, <1>7, <1>8 DEF Lex!DirectiveAt, SP!Lex!DirectiveAt
<1>10. \A s, i : Lex!StringAt(s, i) = SP!Lex!StringAt(s, i)
  BY <1>1, <1>5, <1>7, <1>8, SameMarks DEF Lex!StringAt, SP!Lex!StringAt
<1>11. \A s, i : Lex!BlockAt(s, i) = SP!Lex!BlockAt(s, i)
  BY <1>4, <1>7, <1>8 DEF Lex!BlockAt, SP!Lex!BlockAt
<1>12. \A type, s, i, S :
         Lex!RunAt(type, s, i, S) = SP!Lex!RunAt(type, s, i, S)
  BY <1>2, <1>7 DEF Lex!RunAt, SP!Lex!RunAt
<1>13. \A s, i : Lex!TokenAt(s, i) = SP!Lex!TokenAt(s, i)
  BY <1>7, <1>9, <1>10, <1>11, <1>12, SameMarks DEF Lex!TokenAt, SP!Lex!TokenAt
<1>14. \A s, c : Lex!After(s, c) = SP!Lex!After(s, c)
  BY <1>6, <1>8, <1>13 DEF Lex!After, SP!Lex!After
<1> QED BY <1>8, <1>14 DEF Lex!Cuts, SP!Lex!Cuts

(* A step of the parser, and how it begins.                                *)
LEMMA SameParse == 
  /\ Parse!ReadStep => PaP!ReadStep
  /\ Parse!LocalStep => PaP!LocalStep
  /\ Parse!ScannerStops => PaP!ScannerStops
  /\ Parse!Init => PaP!Init
BY Zenon DEF Parse!ReadStep, PaP!ReadStep, Parse!LocalStep, PaP!LocalStep,
   Parse!ScannerStops, PaP!ScannerStops, Parse!Init, PaP!Init,
   Parse!CreateParser, PaP!CreateParser, Parse!BeginPattern, PaP!BeginPattern,
   Parse!AddElem, PaP!AddElem, Parse!EndPattern, PaP!EndPattern, Parse!EndRule,
   PaP!EndRule, Parse!ParseVerbo, PaP!ParseVerbo, Parse!ParsePrefix,
   PaP!ParsePrefix, Parse!ParseName, PaP!ParseName, Parse!ParseCode,
   PaP!ParseCode, Parse!SkipArgument, PaP!SkipArgument, Parse!ParseArgument,
   PaP!ParseArgument, Parse!BeginRule, PaP!BeginRule, Parse!Unexpected,
   PaP!Unexpected, Parse!Finish, PaP!Finish, Parse!Consuming, PaP!Consuming,
   Parse!AtTop, PaP!AtTop, Parse!NextTokens, PaP!NextTokens, Parse!Read,
   PaP!Read, Parse!PatternErrors, PaP!PatternErrors, Parse!RuleErrors,
   PaP!RuleErrors, Parse!ScanErrors, PaP!ScanErrors, Parse!Report, PaP!Report,
   Parse!Following, PaP!Following, Parse!Token, PaP!Token, Parse!Sticky,
   PaP!Sticky, Parse!BadChar, PaP!BadChar, Parse!BadDirective,
   PaP!BadDirective, Parse!EndToken, PaP!EndToken, Parse!Colon, PaP!Colon,
   Parse!DirectiveTypes, PaP!DirectiveTypes, Parse!pstate, PaP!pstate,
   Parse!NoRule, PaP!NoRule, Parse!NewElem, PaP!NewElem, Parse!ElemsWith,
   PaP!ElemsWith, Parse!CodeOf, PaP!CodeOf, Parse!ToInt, PaP!ToInt,
   Parse!Strtol, PaP!Strtol

(* The grammar files.                                                      *)
LEMMA SameGrammar == \A s : Language!Grammatical(s) <=> PaP!Grammatical(s)
BY DEF Language!Grammatical, PaP!Grammatical, Language!SplitsInto,
   PaP!SplitsInto, Language!IsRuleOrDirective, PaP!IsRuleOrDirective,
   Language!IsRule, PaP!IsRule, Language!IsDirective, PaP!IsDirective,
   Language!IsPattern, PaP!IsPattern, Language!Argument, PaP!Argument,
   Language!Colon, PaP!Colon, Language!EndToken, PaP!EndToken,
   Language!DirectiveTypes, PaP!DirectiveTypes, Language!Last, PaP!Last,
   Language!Front, PaP!Front

-----------------------------------------------------------------------------
(* The tokens, and what the parser is handed of one.                       *)
LEMMA SameTokens ==
  /\ \A t : Scan!AsToken(t) = SP!AsToken(t)
  /\ Scan!UnknownDirective = SP!UnknownDirective
  /\ Parse!Sticky = SP!Source!Sticky
  /\ PaP!Sticky = Parse!Sticky /\ PaP!Token = Parse!Token
  /\ Parse!EndToken \in Parse!Sticky /\ Parse!BadDirective \notin Parse!Sticky
<1>1. Scan!UnknownDirective = SP!UnknownDirective
  BY DEF Scan!UnknownDirective, SP!UnknownDirective
<1>2. \A t : Scan!AsToken(t) = SP!AsToken(t)
  BY <1>1 DEF Scan!AsToken, SP!AsToken
<1>3. Parse!Sticky = SP!Source!Sticky
  BY DEF Parse!Sticky, Parse!BadChar, Parse!EndToken, SP!Source!Sticky,
     SP!Source!BadChar, SP!Source!EndToken
<1>4. PaP!Sticky = Parse!Sticky /\ PaP!Token = Parse!Token
  BY DEF Parse!Token, PaP!Token, Parse!Sticky, PaP!Sticky, Parse!BadChar,
     PaP!BadChar, Parse!BadDirective, PaP!BadDirective, Parse!EndToken,
     PaP!EndToken, Parse!Colon, PaP!Colon, Parse!DirectiveTypes,
     PaP!DirectiveTypes
<1>5. Parse!EndToken \in Parse!Sticky /\ Parse!BadDirective \notin Parse!Sticky
  BY DEF Parse!Sticky, Parse!BadChar, Parse!EndToken, Parse!BadDirective,
     Scan!UnknownDirective
<1> QED BY <1>1, <1>2, <1>3, <1>4, <1>5

(* What the parts assume of the constants.                                 *)
LEMMA Assumptions ==
  /\ SP!ScannerAssumption
  /\ PaP!NumberAssumption /\ PaP!NullAssumption /\ PaP!TextAssumption
<1>1. SP!ScannerAssumption
  <2>1. Scan!Bytes = SP!Bytes
    BY SameMarks DEF Scan!Bytes, SP!Bytes
  <2> QED BY <2>1, FrontendAssumption, SameMarks DEF Scan!ScannerAssumption,
             SP!ScannerAssumption
<1>2. PaP!NumberAssumption /\ PaP!NullAssumption
  BY FrontendAssumption DEF Parse!NumberAssumption, PaP!NumberAssumption, Parse!NullAssumption,
     PaP!NullAssumption
<1>3. PaP!TextAssumption
  BY DEF PaP!TextAssumption, Scan!UnknownDirective
<1> QED BY <1>1, <1>2, <1>3

(* What happens here to the scanner happens to a scanner that works alone. *)
LEMMA ScannerSteps == [Next]_vars => [Scan!Next]_(Scan!vars)
<1>1. UNCHANGED <<stack, text>> => Rest' = Rest
  BY DEF Rest
<1>2. CASE CallScanner \/ ScanOn \/ Deliver \/ ScanFatal \/ OutOfMemory
  BY <1>2 DEF CallScanner, ScanOn, Deliver, ScanFatal, OutOfMemory, Scan!Next
<1>3. CASE ParseOn \/ UNCHANGED vars
  BY <1>1, <1>3 DEF ParseOn, vars, scanVars, Scan!vars
<1> QED BY <1>2, <1>3 DEF Next, Step

(* What happens here to the parser happens to a parser that works alone.   *)
LEMMA ParserSteps == [Next]_vars => [Parse!Next]_(Parse!parserVars)
<1>1. CASE CallScanner \/ ScanOn \/ UNCHANGED vars
  BY <1>1 DEF CallScanner, ScanOn, vars, parserVars, Parse!parserVars
<1>2. CASE Deliver \/ ScanFatal \/ OutOfMemory \/ ParseOn
  BY <1>2 DEF Deliver, ScanFatal, OutOfMemory, ParseOn, Parse!Next,
     Parse!ParseStep
<1> QED BY <1>1, <1>2 DEF Next, Step

(***************************************************************************)
(* Reading the file through the file stack, and only when the parser asks  *)
(* for a token, the scanner behaves as module Scanner says of a scanner    *)
(* that has the text at hand and is called at any time.                    *)
(***************************************************************************)
THEOREM TheScannerIsAtWork == Spec => Scan!Spec
<1>1. Init => Scan!Init
  BY DEF Init
<1> QED BY <1>1, ScannerSteps, PTL DEF Spec, Scan!Spec

(***************************************************************************)
(* Handed the tokens that the scanner makes of a file, the parser behaves  *)
(* as module Parser says of a parser that is handed any tokens.            *)
(***************************************************************************)
THEOREM TheParserIsAtWork == Spec => Parse!Spec
<1>1. Init => Parse!Init
  BY DEF Init
<1> QED BY <1>1, ParserSteps, PTL DEF Spec, Parse!Spec

(* What is proved of the scanner alone and of the parser alone.            *)
PartsInv == SP!IInv /\ SP!LexInv /\ PaP!FullInv

(* The parts begin here as they begin alone.                               *)
LEMMA SameInit == (Scan!Init => SP!Init) /\ (Parse!Init => PaP!Init)
<1>1. Scan!Init => SP!Init
  BY DEF Scan!Init, SP!Init, Scan!NoToken, SP!NoToken
<1>2. Parse!Init => PaP!Init
  BY SameParse
<1> QED BY <1>1, <1>2

(* A step of the parts, by either instance.                                *)
LEMMA SameNext ==
  /\ [Scan!Next]_(Scan!vars) => [SP!Next]_(SP!vars)
  /\ [Parse!Next]_(Parse!parserVars) => [PaP!Next]_(PaP!parserVars)
<1>1. (Scan!Call => SP!Call) /\ (Scan!OutOfMemory => SP!OutOfMemory)
      /\ (Scan!Rest => SP!Rest) /\ Scan!vars = SP!vars
  BY DEF Scan!Call, SP!Call, Scan!OutOfMemory, SP!OutOfMemory, Scan!Working,
     SP!Working, Scan!NoToken, SP!NoToken, Scan!Spinning, SP!Spinning,
     Scan!Rest, SP!Rest, Scan!vars, SP!vars
<1>2. Parse!parserVars = PaP!parserVars /\ (Parse!Terminated => PaP!Terminated)
  BY DEF Parse!parserVars, PaP!parserVars, Parse!Terminated, PaP!Terminated,
     Parse!Stopped, PaP!Stopped, Parse!Exited, PaP!Exited
<1>3. [Scan!Next]_(Scan!vars) => [SP!Next]_(SP!vars)
  BY <1>1, SameScan DEF Scan!Next, SP!Next, Scan!vars, SP!vars
<1>4. [Parse!Next]_(Parse!parserVars) => [PaP!Next]_(PaP!parserVars)
  BY <1>2, SameParse DEF Parse!Next, PaP!Next, Parse!ParseStep, PaP!ParseStep,
     Parse!parserVars, PaP!parserVars
<1> QED BY <1>3, <1>4

(* What is proved of the parts holds of them here.                         *)
LEMMA PartsBegin == Init => PartsInv
<1> SUFFICES ASSUME Init PROVE PartsInv
  OBVIOUS
<1>1. SP!Init /\ PaP!Init
  BY SameInit DEF Init
<1>2. SP!IInv
  BY <1>1, Assumptions, SP!InitIInv
<1>3. SP!LexInv
  BY <1>1, Assumptions, SP!InitLexInv
<1>4. PaP!FullInv
  BY <1>1, Assumptions, PaP!InitFull
<1> QED BY <1>2, <1>3, <1>4 DEF PartsInv

(* It goes on holding.                                                     *)
LEMMA PartsStep == PartsInv /\ [Next]_vars => PartsInv'
<1> SUFFICES ASSUME PartsInv, [Next]_vars PROVE PartsInv'
  OBVIOUS
<1>1. [SP!Next]_(SP!vars) /\ [PaP!Next]_(PaP!parserVars)
  BY SameNext, ScannerSteps, ParserSteps
<1>2. SP!IInv /\ SP!LexInv /\ PaP!FullInv
  BY DEF PartsInv
<1>3. SP!IInv'
  BY <1>1, <1>2, Assumptions, SP!ScannerStep
<1>4. SP!LexInv'
  BY <1>1, <1>2, Assumptions, SP!LexStep
<1>5. PaP!FullInv'
  BY <1>1, <1>2, Assumptions, PaP!StepFull
<1> QED BY <1>3, <1>4, <1>5 DEF PartsInv
-----------------------------------------------------------------------------
(* The greatest of some numbers.                                           *)
LEMMA MaxIs ==
  ASSUME NEW T, T \subseteq Nat, NEW j \in T, \A k \in T : k <= j
  PROVE  Max(T) = j
<1> DEFINE x == Max(T)
<1>1. x \in T /\ \A y \in T : x >= y
  BY DEF Max
<1> HIDE DEF x
<1>2. x >= j /\ x <= j /\ x \in Nat /\ j \in Nat
  BY <1>1
<1> QED BY <1>2 DEF x

(* Of the newlines up to a place, one is the last.                         *)
LEMMA LastNewline ==
  ASSUME NEW i \in Nat, NewlinesIn(i) # {}
  PROVE  Max(NewlinesIn(i)) \in 2 .. i
<1> DEFINE N == NewlinesIn(i)
           D == {i - k : k \in N}
<1>1. N \subseteq 2 .. i
  BY DEF NewlinesIn
<1> HIDE DEF N
<1>2. D \subseteq Nat /\ D # {}
  BY <1>1 DEF N
<1>3. PICK d \in D : \A y \in D : d <= y
  BY <1>2, Assumptions, SP!LeastNumber
<1>4. PICK j \in N : d = i - j
  OBVIOUS
<1>5. \A k \in N : k <= j
  BY <1>1, <1>3, <1>4
<1>6. Max(N) = j
  <2>1. N \subseteq Nat
    BY <1>1
  <2> QED BY <1>5, <2>1, MaxIs
<1> QED BY <1>1, <1>6 DEF N

(* The newlines up to the next place.                                      *)
LEMMA NextNewlines ==
  ASSUME NEW i \in Nat \ {0}
  PROVE  /\ NewlinesIn(i + 1) =
              IF text[i + 1] = NL THEN NewlinesIn(i) \cup {i + 1} ELSE NewlinesIn(i)
         /\ IsFiniteSet(NewlinesIn(i)) /\ i + 1 \notin NewlinesIn(i)
         /\ NewlinesIn(i) \subseteq 2 .. i
<1>1. NewlinesIn(i) \subseteq 2 .. i
  BY DEF NewlinesIn
<1>2. 2 .. i + 1 = (2 .. i) \cup {i + 1}
  OBVIOUS
<1>3. NewlinesIn(i + 1) = IF text[i + 1] = NL THEN NewlinesIn(i) \cup {i + 1}
                                ELSE NewlinesIn(i)
  BY <1>2 DEF NewlinesIn
<1>4. IsFiniteSet(2 .. i)
  BY FS_Interval
<1>5. IsFiniteSet(NewlinesIn(i))
  BY <1>1, <1>4, FS_Subset
<1> QED BY <1>1, <1>3, <1>5

(* How the counters of a position follow those of the one before it.       *)
LEMMA NextPosition ==
  ASSUME NEW i \in Nat \ {0}, i + 1 <= Len(text), Len(text) \in Nat
  PROVE  /\ PositionOf(i).line \in Int /\ PositionOf(i).col \in Int
         /\ PositionOf(i + 1).line =
              IF text[i + 1] = NL THEN PositionOf(i).line + 1 ELSE PositionOf(i).line
         /\ PositionOf(i + 1).col =
              IF text[i + 1] = NL THEN 1 ELSE PositionOf(i).col + 1
<1> DEFINE N == NewlinesIn(i)
           M == NewlinesIn(i + 1)
<1>1. /\ PositionOf(i).line = 1 + Cardinality(N)
      /\ PositionOf(i).col = IF N = {} THEN i ELSE i - Max(N) + 1
      /\ PositionOf(i + 1).line = 1 + Cardinality(M)
      /\ PositionOf(i + 1).col = IF M = {} THEN i + 1 ELSE (i + 1) - Max(M) + 1
  BY DEF PositionOf
<1>2. /\ M = IF text[i + 1] = NL THEN N \cup {i + 1} ELSE N
      /\ IsFiniteSet(N) /\ i + 1 \notin N /\ N \subseteq 2 .. i
  BY NextNewlines
<1>3. N # {} => Max(N) \in 2 .. i
  BY LastNewline
<1>4. /\ Cardinality(N) \in Nat
      /\ Cardinality(N \cup {i + 1}) = Cardinality(N) + 1
  BY <1>2, FS_CardinalityType, FS_AddElement
<1> HIDE DEF N, M
<1>5. Max(N \cup {i + 1}) = i + 1
  <2> DEFINE T == N \cup {i + 1}
             j == i + 1
  <2>1. T \subseteq Nat /\ j \in T /\ \A k \in T : k <= j
    BY <1>2
  <2> HIDE DEF T, j
  <2>2. Max(T) = j
    BY <2>1, MaxIs
  <2> QED BY <2>2 DEF T, j
<1>6. PositionOf(i).line \in Int /\ PositionOf(i).col \in Int
  BY <1>1, <1>3, <1>4
<1>7. CASE text[i + 1] = NL
  <2>1. M = N \cup {i + 1} /\ M # {}
    BY <1>2, <1>7
  <2> QED BY <1>1, <1>4, <1>5, <1>6, <1>7, <2>1
<1>8. CASE text[i + 1] # NL
  <2>1. M = N
    BY <1>2, <1>8
  <2> QED BY <1>1, <1>3, <1>6, <1>8, <2>1
<1> QED BY <1>7, <1>8

-----------------------------------------------------------------------------
(* The open file, and the stack with it, at a place of the text. At the    *)
(* end of a text that is not empty the stack is.                           *)
FileAt(i) ==
  [text |-> text, pos |-> i,
   line |-> PositionOf(i).line, col |-> PositionOf(i).col]

StackAt(i) ==
  IF text = <<>> THEN <<Files!NewFile(text)>>
  ELSE IF i > Len(text) THEN <<>> ELSE <<FileAt(i)>>

(* What is left of the file at a place.                                    *)
RestOf(s) ==
  IF s = <<>> THEN <<>> ELSE SubSeq(s[1].text, s[1].pos, Len(s[1].text))

(* The file has what is left of the text from the place on.                *)
LEMMA RestAt ==
  ASSUME NEW i \in 1 .. Len(text) + 1, text \in Seq(SP!Bytes)
  PROVE  RestOf(StackAt(i)) = SubSeq(text, i, Len(text))
         /\ Len(text) - Len(RestOf(StackAt(i))) + 1 = i
<1> DEFINE s == StackAt(i)
<1>1. RestOf(s) = SubSeq(text, i, Len(text))
  <2>1. CASE text = <<>>
    <3>1. i = 1 /\ s # <<>> /\ s[1].text = text /\ s[1].pos = 1
      BY <2>1 DEF StackAt, Files!NewFile
    <3> QED BY <3>1 DEF RestOf
  <2>2. CASE text # <<>> /\ i > Len(text)
    <3>1. s = <<>> /\ i = Len(text) + 1 /\ Len(text) \in Nat
      BY <2>2 DEF StackAt
    <3>2. SubSeq(text, i, Len(text)) = <<>>
      BY <3>1
    <3> QED BY <3>1, <3>2 DEF RestOf
  <2>3. CASE text # <<>> /\ ~(i > Len(text))
    <3>1. s = <<FileAt(i)>>
      BY <2>3 DEF StackAt
    <3>2. s # <<>> /\ s[1].text = text /\ s[1].pos = i
      BY <3>1 DEF FileAt
    <3> QED BY <3>2 DEF RestOf
  <2> QED BY <2>1, <2>2, <2>3
<1>2. Len(SubSeq(text, i, Len(text))) = Len(text) - i + 1
  BY Assumptions, SP!LeftOver
<1>3. Len(text) \in Nat
  OBVIOUS
<1> QED BY <1>1, <1>2, <1>3

(* consume_char, at a character of the file.                               *)
LEMMA Consumed ==
  ASSUME NEW i \in 1 .. Len(text), text \in Seq(SP!Bytes)
  PROVE  Files!Consume(StackAt(i)) = StackAt(i + 1)
<1>1. text # <<>> /\ Len(text) \in Nat /\ i \in Nat \ {0} /\ i <= Len(text)
  OBVIOUS
<1> DEFINE f == FileAt(i)
           g == Files!Advance(f)
<1>2. StackAt(i) = <<f>>
  BY <1>1 DEF StackAt
<1>3. /\ f = [text |-> text, pos |-> i,
              line |-> PositionOf(i).line, col |-> PositionOf(i).col]
      /\ g = [text |-> text, pos |-> i + 1,
              line |-> PositionOf(i).line, col |-> PositionOf(i).col]
  BY <1>1 DEF FileAt, Files!Advance
<1>4. Files!Ch(g) = IF i + 1 <= Len(text) THEN text[i + 1] ELSE EOF
  BY <1>3 DEF Files!Ch
<1>5. EOF \notin SP!Bytes
  BY Assumptions DEF SP!ScannerAssumption
<1>6. /\ <<f>> # <<>> /\ <<f>>[1] = f /\ Tail(<<f>>) = <<>>
  OBVIOUS
<1>7. CASE i = Len(text)
  <2>1. Files!Ch(g) = EOF
    BY <1>1, <1>4, <1>7
  <2>2. StackAt(i + 1) = <<>>
    BY <1>1, <1>7 DEF StackAt
  <2> HIDE DEF f
  <2>3. Files!Consume(<<f>>) = <<>>
    BY <1>6, <2>1 DEF Files!Consume
  <2> QED BY <1>2, <2>2, <2>3 DEF f
<1>8. CASE i # Len(text)
  <2>1. i + 1 <= Len(text) /\ i + 1 \in 1 .. Len(text)
    BY <1>1, <1>8
  <2>2. Files!Ch(g) = text[i + 1] /\ text[i + 1] \in SP!Bytes
    BY <1>4, <2>1
  <2>3. Files!Counted(f) = FileAt(i + 1)
    <3>1. /\ PositionOf(i + 1).line =
               IF text[i + 1] = NL THEN PositionOf(i).line + 1 ELSE PositionOf(i).line
          /\ PositionOf(i + 1).col =
               IF text[i + 1] = NL THEN 1 ELSE PositionOf(i).col + 1
      BY <1>1, <2>1, NextPosition
    <3>2. Files!Counted(f) =
            IF text[i + 1] = NL THEN [g EXCEPT !.line = @ + 1, !.col = 1]
                                ELSE [g EXCEPT !.col = @ + 1]
      BY <2>2 DEF Files!Counted
    <3> HIDE DEF f, g
    <3> QED BY <1>3, <3>1, <3>2 DEF FileAt
  <2>4. StackAt(i + 1) = <<FileAt(i + 1)>>
    BY <1>1, <2>1 DEF StackAt
  <2> HIDE DEF f
  <2>5. Files!Consume(<<f>>) = <<Files!Counted(f)>> \o Tail(<<f>>)
    BY <1>5, <1>6, <2>2 DEF Files!Consume
  <2>6. <<Files!Counted(f)>> \o Tail(<<f>>) = <<Files!Counted(f)>>
    BY <1>6
  <2> QED BY <1>2, <2>3, <2>4, <2>5, <2>6 DEF f
<1> QED BY <1>7, <1>8

(* The open file stands at the character that the scanner stands at.       *)
FileStands == stack = StackAt(SP!Pos)

(* The first character is the one that open_input_file has read.           *)
LEMMA FileBegins == Init => FileStands
<1> SUFFICES ASSUME Init PROVE FileStands
  OBVIOUS
<1>1. text \in Seq(SP!Bytes) /\ stack = <<Files!NewFile(text)>>
  BY SameInit, Assumptions DEF Init, SP!ScannerAssumption
<1>2. stack = StackAt(1)
  <2>1. CASE text = <<>>
    BY <1>1, <2>1 DEF StackAt
  <2>2. CASE text # <<>>
    <3>1. Len(text) \in Nat /\ ~(1 > Len(text))
      BY <1>1, <2>2
    <3>2. PositionOf(1).line = 1 /\ PositionOf(1).col = 1
      <4>1. NewlinesIn(1) = {}
        BY DEF NewlinesIn
      <4>2. Cardinality(NewlinesIn(1)) = 0
        BY <4>1, FS_EmptySet
      <4> QED BY <3>1, <4>1, <4>2 DEF PositionOf
    <3> QED BY <1>1, <2>2, <3>1, <3>2 DEF StackAt, FileAt, Files!NewFile
  <2> QED BY <2>1, <2>2
<1>3. SP!Pos = 1
  <2>1. 1 \in 1 .. Len(text) + 1
    BY <1>1
  <2> QED BY <1>1, <1>2, <2>1, RestAt DEF SP!Pos, Rest, RestOf
<1> QED BY <1>2, <1>3 DEF FileStands

(* A step of the scanner that consumes a character consumes it of the      *)
(* file, and no other step moves the file.                                 *)
LEMMA FileStep ==
  ASSUME PartsInv, FileStands, [Next]_vars
  PROVE  FileStands' /\ UNCHANGED text
<1>1. text \in Seq(SP!Bytes) /\ SP!Pos \in 1 .. Len(text) + 1
  BY DEF PartsInv, SP!LexInv, SP!Placed
<1>2. text' = text
  <2>1. Scan!ScanStep => UNCHANGED text
    BY SameScan, Assumptions, SP!ScannerMoves DEF PartsInv, SP!Moved
  <2> QED BY <2>1 DEF Next, Step, CallScanner, ScanOn, Deliver, ScanFatal,
             OutOfMemory, ParseOn, vars, scanVars, Scan!Call, Scan!OutOfMemory
<1>3. UNCHANGED stack \/ (Rest # <<>> /\ stack' = Files!Consume(stack))
  BY DEF Next, Step, CallScanner, ScanOn, Deliver, ScanFatal, OutOfMemory,
     ParseOn, vars, Advance
<1>4. CASE UNCHANGED stack
  <2>1. SP!Pos' = SP!Pos
    BY <1>2, <1>4 DEF SP!Pos, Rest
  <2> QED BY <1>2, <1>4, <2>1 DEF FileStands, StackAt, FileAt, PositionOf,
             NewlinesIn, Files!NewFile
<1>5. CASE Rest # <<>> /\ stack' = Files!Consume(stack)
  <2> DEFINE i == SP!Pos
  <2>1. i \in 1 .. Len(text)
    <3>1. i # Len(text) + 1
      BY <1>5, Assumptions, SP!Standing DEF PartsInv, SP!LexInv
    <3>2. Len(text) \in Nat
      BY <1>1
    <3> QED BY <1>1, <3>1, <3>2
  <2>2. stack' = StackAt(i + 1)
    BY <1>1, <1>5, <2>1, Consumed DEF FileStands
  <2> HIDE DEF i
  <2>3. i + 1 \in 1 .. Len(text) + 1
    BY <1>1, <2>1
  <2>4. Len(text) - Len(RestOf(stack')) + 1 = i + 1
    BY <1>1, <2>2, <2>3, RestAt
  <2>5. SP!Pos' = i + 1
    BY <1>2, <2>4 DEF SP!Pos, Rest, RestOf
  <2>6. StackAt(SP!Pos)' = StackAt(i + 1)
    BY <1>2, <2>5 DEF StackAt, FileAt, PositionOf, NewlinesIn, Files!NewFile
  <2> QED BY <1>2, <2>2, <2>6 DEF FileStands
<1> QED BY <1>2, <1>3, <1>4, <1>5
-----------------------------------------------------------------------------
(***************************************************************************)
(* What the scanner returned and what the parser read. They agree token by *)
(* token; the scanner may have returned more only while a token comes      *)
(* again and again, which the parser keeps but once. Between two calls the *)
(* character behind the last token is the current one.                     *)
(***************************************************************************)
Handed ==
  /\ tok = SP!Delivered
  /\ Len(input) <= Len(tokens)
  /\ \A k \in 1 .. Len(input) : input[k] = Scan!AsToken(tokens[k])
  /\ \A k \in 1 .. Len(input) - 1 : input[k] \notin Parse!Sticky
  /\ IF tok \in Parse!Sticky THEN input # <<>> ELSE Len(input) = Len(tokens)
  /\ spc = "idle" \/ tok \in Parse!Sticky => Behind(Len(input)) = SP!Pos

(* No more tokens than characters: each is made of one at least, but for   *)
(* the last, which may come again without end.                             *)
Paced ==
  /\ Len(input) <= SP!Pos
  /\ tok \notin Parse!Sticky =>
       Len(input) + (IF SP!Outside THEN 1 ELSE 2) <= SP!Pos

(* The parts, the file, and what goes from one to the other.               *)
WorkInv == PartsInv /\ FileStands /\ Handed /\ Paced

(* The types of the state that the proofs below speak of.                  *)
LEMMA Types ==
  ASSUME PartsInv
  PROVE  /\ tok \in Parse!Token /\ input \in Seq(Parse!Token) /\ errors \in Nat
         /\ tokens \in Seq(SP!Cell) /\ text \in Seq(SP!Bytes)
         /\ SP!Pos \in 1 .. Len(text) + 1
<1>1. PaP!TypeOK
  BY DEF PartsInv, PaP!FullInv, PaP!MeaningInv, PaP!IInv
<1>2. tok \in Parse!Token /\ input \in Seq(Parse!Token) /\ errors \in Nat
  BY <1>1, SameTokens DEF PaP!TypeOK
<1> QED BY <1>2 DEF PartsInv, SP!LexInv, SP!Delivering, SP!Placed

(* A step of the parser that calls consume_token.                          *)
LEMMA ReadsOne ==
  ASSUME Parse!ReadStep
  PROVE  /\ input' = IF tok \in Parse!Sticky THEN input
                     ELSE Append(input, tok')
         /\ tok \in Parse!Sticky => tok' = tok
         /\ pc' \notin {"fatal", "nomemory", "hung"}
<1>1. \E t \in Parse!NextTokens : Parse!Read(t)
  BY DEF Parse!ReadStep, Parse!CreateParser, Parse!BeginPattern, Parse!AddElem,
     Parse!EndPattern, Parse!EndRule, Parse!ParseVerbo, Parse!ParsePrefix,
     Parse!ParseName, Parse!ParseCode, Parse!ParseArgument, Parse!SkipArgument
<1>2. pc' \in {"top", "elems", "alternatives", "skip"}
  BY DEF Parse!ReadStep, Parse!CreateParser, Parse!BeginPattern, Parse!AddElem,
     Parse!EndPattern, Parse!EndRule, Parse!ParseVerbo, Parse!ParsePrefix,
     Parse!ParseName, Parse!ParseCode, Parse!ParseArgument, Parse!SkipArgument
<1> QED BY <1>1, <1>2 DEF Parse!Read, Parse!NextTokens, Parse!Following

(* A step of the parser that does not, or in which the scanner exits.      *)
LEMMA ReadsNone ==
  ASSUME Parse!LocalStep \/ Parse!ScannerStops
  PROVE  UNCHANGED <<tok, input>>
BY DEF Parse!LocalStep, Parse!ScannerStops, Parse!BeginRule, Parse!Unexpected,
   Parse!Finish

(* Before the first call nothing was handed over.                          *)
LEMMA HandedBegins == Init => Handed /\ Paced
<1> SUFFICES ASSUME Init PROVE Handed /\ Paced
  OBVIOUS
<1>1. /\ tokens = <<>> /\ input = <<>> /\ spc = "idle" /\ tok = Parse!BadDirective
      /\ text \in Seq(SP!Bytes) /\ Rest = text
  BY Assumptions DEF Init, Scan!Init, Parse!Init, SP!ScannerAssumption
<1>2. tok = SP!Delivered
  BY <1>1 DEF SP!Delivered, SP!AsToken, SP!UnknownDirective,
     Parse!BadDirective, Scan!UnknownDirective
<1>3. tok \notin Parse!Sticky
  BY <1>1, SameTokens
<1>4. SP!Pos = 1
  BY <1>1 DEF SP!Pos
<1>5. Behind(0) = 1
  <2>1. SP!Lex!Cuts(text, 0)[0] = SP!Lex!Outset
    BY Assumptions, SP!CutsLaw
  <2> QED BY <2>1, SameCuts DEF Behind, SP!Lex!Outset
<1>6. Len(input) = 0 /\ Len(tokens) = 0
  BY <1>1
<1>7. Handed
  BY <1>1, <1>2, <1>3, <1>4, <1>5, <1>6 DEF Handed
<1>8. Paced
  BY <1>1, <1>3, <1>4, <1>6 DEF Paced, SP!Outside
<1> QED BY <1>7, <1>8

(* consume_token returns: one more token is handed over.                   *)
LEMMA DeliverHands ==
  ASSUME WorkInv, Deliver, PartsInv', UNCHANGED text
  PROVE  Handed' /\ Paced'
<1>1. PartsInv /\ Handed /\ Paced
  BY DEF WorkInv
<1>2. /\ Scan!ScanStep /\ spc' = "idle" /\ tok' = Scan!AsToken(Last(tokens'))
      /\ Parse!ReadStep
  BY DEF Deliver
<1>3. SP!Moved
  BY <1>1, <1>2, SameScan, Assumptions, SP!ScannerMoves DEF PartsInv
<1> DEFINE n == Len(input)
           m == Len(tokens)
<1>4. /\ tokens \in Seq(SP!Cell) /\ input \in Seq(Parse!Token) /\ n \in Nat /\ m \in Nat
      /\ SP!Pos \in 1 .. Len(text) + 1 /\ Len(text) \in Nat
  BY <1>1, Types
<1>5. PICK t \in SP!Cell : tokens' = Append(tokens, t)
  BY <1>2, <1>3 DEF SP!Moved
<1>6. /\ Len(tokens') = m + 1 /\ tokens'[m + 1] = t /\ Last(tokens') = t /\ tokens' # <<>>
      /\ \A k \in 1 .. m : tokens'[k] = tokens[k]
  <2> DEFINE C == SP!Cell
             q == Append(tokens, t)
  <2>1. tokens \in Seq(C) /\ t \in C
    BY <1>4
  <2> HIDE DEF C
  <2>2. /\ Len(q) = m + 1 /\ q[m + 1] = t /\ q # <<>>
        /\ \A k \in 1 .. m : q[k] = tokens[k]
    BY <2>1
  <2> HIDE DEF q
  <2>3. Last(q) = t
    BY <2>2 DEF Last
  <2> QED BY <1>5, <2>2, <2>3 DEF q
<1>7. tok' = SP!Delivered'
  <2>1. SP!Last(tokens') = t
    BY <1>6 DEF SP!Last
  <2>2. SP!Delivered' = SP!AsToken(t)
    BY <1>6, <2>1 DEF SP!Delivered
  <2> QED BY <1>2, <1>6, <2>2, SameTokens
<1>8. SP!Pos' \in 1 .. Len(text) + 1 /\ SP!Pos' \in {SP!Pos, SP!Pos + 1}
  <2>1. SP!Pos' \in 1 .. Len(text') + 1
    BY DEF PartsInv, SP!LexInv, SP!Placed
  <2> QED BY <1>3, <2>1 DEF SP!Moved
<1>9. tok' \in Parse!Sticky <=> SP!Delivered' \in SP!Source!Sticky
  BY <1>7, SameTokens
<1>10. CASE tok \in Parse!Sticky
  <2>1. input' = input /\ tok' = tok
    BY <1>2, <1>10, ReadsOne
  <2>2. Rest' = Rest /\ SP!Pos' = SP!Pos
    <3>1. SP!Delivered \in SP!Source!Sticky
      BY <1>1, <1>10, SameTokens DEF Handed
    <3>2. Rest' = Rest
      BY <1>3, <3>1 DEF SP!Moved
    <3> QED BY <3>2 DEF SP!Pos
  <2>3. /\ n <= m /\ input # <<>> /\ Behind(n) = SP!Pos /\ n <= SP!Pos
        /\ \A k \in 1 .. n : input[k] = Scan!AsToken(tokens[k])
        /\ \A k \in 1 .. n - 1 : input[k] \notin Parse!Sticky
    BY <1>1, <1>10 DEF Handed, Paced
  <2>4. Behind(n)' = Behind(n)
    BY <2>1 DEF Behind
  <2>5. \A k \in 1 .. n : input[k] = Scan!AsToken(tokens'[k])
    BY <1>4, <1>6, <2>3
  <2>6. Len(input') <= Len(tokens')
    BY <1>4, <1>6, <2>1, <2>3
  <2>7. Handed'
    BY <1>7, <1>10, <2>1, <2>2, <2>3, <2>4, <2>5, <2>6, SameTokens DEF Handed,
       Parse!Sticky, Parse!BadChar, Parse!EndToken, Scan!AsToken,
       Scan!UnknownDirective
  <2>8. Paced'
    BY <1>10, <2>1, <2>2, <2>3 DEF Paced, Parse!Sticky, Parse!BadChar,
       Parse!EndToken
  <2> QED BY <2>7, <2>8
<1>11. CASE tok \notin Parse!Sticky
  <2>1. input' = Append(input, tok') /\ n = m
    BY <1>1, <1>2, <1>11, ReadsOne DEF Handed
  <2>2. tok' \in Parse!Token
    <3>1. PaP!TypeOK'
      BY DEF PartsInv, PaP!FullInv, PaP!MeaningInv, PaP!IInv
    <3>2. tok' \in PaP!Token
      BY <3>1 DEF PaP!TypeOK
    <3> QED BY <3>2, SameTokens
  <2>3. /\ Len(input') = n + 1 /\ input'[n + 1] = tok' /\ input' # <<>>
        /\ \A k \in 1 .. n : input'[k] = input[k]
    <3> DEFINE C == Parse!Token
               q == Append(input, tok')
    <3>1. input \in Seq(C) /\ tok' \in C
      BY <1>4, <2>2
    <3> HIDE DEF C
    <3>2. /\ Len(q) = n + 1 /\ q[n + 1] = tok' /\ q # <<>>
          /\ \A k \in 1 .. n : q[k] = input[k]
      BY <3>1
    <3> QED BY <2>1, <3>2
  <2>4. \A k \in 1 .. n + 1 : input'[k] = Scan!AsToken(tokens'[k])
    <3>1. \A k \in 1 .. n : input'[k] = Scan!AsToken(tokens'[k])
      BY <1>1, <1>6, <2>1, <2>3 DEF Handed
    <3>2. input'[n + 1] = Scan!AsToken(tokens'[n + 1])
      BY <1>2, <1>6, <2>1, <2>3
    <3>3. \A k \in 1 .. n + 1 : k \in 1 .. n \/ k = n + 1
      BY <1>4
    <3> QED BY <3>1, <3>2, <3>3
  <2>5. \A k \in 1 .. n : input'[k] \notin Parse!Sticky
    <3>1. \A k \in 1 .. n - 1 : input'[k] \notin Parse!Sticky
      BY <1>1, <1>4, <2>3 DEF Handed
    <3>2. n # 0 => input[n] = tok
      <4> SUFFICES ASSUME n # 0 PROVE input[n] = tok
        OBVIOUS
      <4>1. n \in 1 .. n /\ n \in 1 .. m /\ m # 0
        BY <1>4, <2>1
      <4>2. input[n] = Scan!AsToken(tokens[n])
        BY <1>1, <4>1 DEF Handed
      <4>3. tokens # <<>> /\ SP!Last(tokens) = tokens[n]
        BY <2>1, <4>1 DEF SP!Last
      <4>4. SP!Delivered = SP!AsToken(tokens[n])
        BY <4>3 DEF SP!Delivered
      <4> QED BY <1>1, <4>2, <4>4, SameTokens DEF Handed
    <3>3. \A k \in 1 .. n : k \in 1 .. n - 1 \/ (k = n /\ n # 0)
      BY <1>4
    <3>4. n # 0 => input'[n] = tok
      <4>1. n # 0 => n \in 1 .. n
        BY <1>4
      <4> QED BY <2>3, <3>2, <4>1
    <3> QED BY <1>11, <3>1, <3>3, <3>4
  <2>6. Behind(Len(input))' = SP!Pos'
    <3>1. Behind(Len(tokens))' = SP!Here'.next
      BY SameCuts DEF Behind, SP!Here
    <3>2. SP!Here'.next = SP!Pos'
      BY <1>2 DEF PartsInv, SP!LexInv, SP!Skipping
    <3>3. Len(input') = Len(tokens')
      BY <1>6, <2>1, <2>3
    <3> QED BY <3>1, <3>2, <3>3 DEF Behind
  <2>7. Handed'
    <3>1. Len(input') = Len(tokens') /\ Len(input') = n + 1 /\ (n + 1) - 1 = n
      BY <1>4, <1>6, <2>1, <2>3
    <3>2. Len(input') <= Len(tokens')
      BY <1>4, <3>1
    <3> HIDE DEF n, m
    <3> QED BY <1>7, <2>3, <2>4, <2>5, <2>6, <3>1, <3>2 DEF Handed
  <2>8. Paced'
    <3>1. n + (IF SP!Outside THEN 1 ELSE 2) <= SP!Pos
      BY <1>1, <1>11 DEF Paced
    <3>2. SP!Outside'
      BY <1>2 DEF SP!Outside
    <3>3. SP!Outside => SP!Pos' = SP!Pos + 1 \/ tok' \in Parse!Sticky
      BY <1>2, <1>3, <1>9 DEF SP!Moved
    <3>4. n + 1 <= SP!Pos' /\ (tok' \notin Parse!Sticky => n + 2 <= SP!Pos')
      <4>1. CASE SP!Outside
        <5>1. n + 1 <= SP!Pos
          BY <3>1, <4>1
        <5> QED BY <1>4, <1>8, <3>3, <4>1, <5>1
      <4>2. CASE ~SP!Outside
        <5>1. n + 2 <= SP!Pos
          BY <3>1, <4>2
        <5> QED BY <1>4, <1>8, <5>1
      <4> QED BY <4>1, <4>2
    <3>5. n + 2 = (n + 1) + 1
      BY <1>4
    <3> HIDE DEF n, m
    <3> QED BY <2>3, <3>2, <3>4, <3>5 DEF Paced
  <2> QED BY <2>7, <2>8
<1> QED BY <1>10, <1>11

(* No other step hands anything over.                                      *)
LEMMA OthersHand ==
  ASSUME WorkInv, [Next]_vars, ~Deliver, PartsInv', UNCHANGED text
  PROVE  Handed' /\ Paced'
<1>1. PartsInv /\ Handed /\ Paced
  BY DEF WorkInv
<1>2. UNCHANGED <<tok, input>>
  BY ReadsNone DEF Next, Step, CallScanner, ScanOn, Deliver, ScanFatal,
     OutOfMemory, ParseOn, vars, parserVars
<1>3. \/ Scan!ScanStep /\ spc' # "idle" /\ (tok \in Parse!Sticky => alive')
      \/ /\ UNCHANGED <<Rest, tokens>>
         /\ SP!Outside <=> SP!Outside'
         /\ spc' = "idle" => spc = "idle"
  <2>1. CASE ScanOn
    BY <2>1 DEF ScanOn
  <2>2. CASE ScanFatal
    <3>1. Scan!ScanStep /\ ~alive' /\ tok \notin Parse!Sticky
      BY <2>2 DEF ScanFatal, Parse!ScannerStops
    <3>2. spc' # "idle"
      BY <1>1, <3>1, SameScan, Assumptions, SP!ScannerMoves DEF PartsInv,
         SP!Moved
    <3> QED BY <3>1, <3>2
  <2>3. CASE CallScanner \/ OutOfMemory
    BY <2>3 DEF CallScanner, OutOfMemory, Scan!Call, Scan!OutOfMemory,
       SP!Outside
  <2>4. CASE ParseOn \/ UNCHANGED vars
    BY <2>4 DEF ParseOn, vars, scanVars, Rest, SP!Outside
  <2> QED BY <2>1, <2>2, <2>3, <2>4 DEF Next, Step
<1>4. SP!Pos \in 1 .. Len(text) + 1 /\ Len(input) \in Nat /\ Len(text) \in Nat
  BY <1>1, Types
<1>5. CASE Scan!ScanStep /\ spc' # "idle" /\ (tok \in Parse!Sticky => alive')
  <2>1. SP!Moved
    BY <1>1, <1>5, SameScan, Assumptions, SP!ScannerMoves DEF PartsInv
  <2>2. tokens' = tokens /\ tok \notin Parse!Sticky
    <3>1. SP!Delivered \notin SP!Source!Sticky
      BY <1>5, <2>1 DEF SP!Moved
    <3> QED BY <1>1, <1>5, <2>1, <3>1, SameTokens DEF SP!Moved, Handed
  <2>3. /\ SP!Pos' \in {SP!Pos, SP!Pos + 1}
        /\ SP!Outside /\ ~SP!Outside' => SP!Pos' = SP!Pos + 1
        /\ ~SP!Outside => ~SP!Outside'
    BY <1>5, <2>1 DEF SP!Moved
  <2>4. SP!Delivered' = SP!Delivered
    BY <2>2 DEF SP!Delivered
  <2>5. Handed'
    BY <1>1, <1>2, <1>5, <2>2, <2>4, SameTokens DEF Handed, Parse!Sticky,
       Parse!BadChar, Parse!EndToken, Scan!AsToken, Scan!UnknownDirective
  <2>6. Paced'
    <3>1. /\ Len(input) <= SP!Pos
          /\ Len(input) + (IF SP!Outside THEN 1 ELSE 2) <= SP!Pos
      BY <1>1, <2>2 DEF Paced
    <3>2. /\ Len(input) <= SP!Pos'
          /\ Len(input) + (IF SP!Outside' THEN 1 ELSE 2) <= SP!Pos'
      BY <1>4, <2>3, <3>1
    <3> QED BY <1>2, <3>2 DEF Paced
  <2> QED BY <2>5, <2>6
<1>6. CASE /\ UNCHANGED <<Rest, tokens>>
           /\ SP!Outside <=> SP!Outside'
           /\ spc' = "idle" => spc = "idle"
  <2>1. SP!Pos' = SP!Pos /\ SP!Delivered' = SP!Delivered
    BY <1>6 DEF SP!Pos, SP!Delivered
  <2>2. Behind(Len(input))' = Behind(Len(input))
    BY <1>2 DEF Behind
  <2>3. Handed'
    BY <1>1, <1>2, <1>6, <2>1, <2>2 DEF Handed, Parse!Sticky, Parse!BadChar,
       Parse!EndToken, Scan!AsToken, Scan!UnknownDirective
  <2>4. Paced'
    BY <1>1, <1>2, <1>6, <2>1 DEF Paced, Parse!Sticky, Parse!BadChar,
       Parse!EndToken
  <2> QED BY <2>3, <2>4
<1> QED BY <1>3, <1>5, <1>6

(* All of it holds before the first call.                                  *)
LEMMA WorkBegins == Init => WorkInv
BY PartsBegin, FileBegins, HandedBegins DEF WorkInv

(* It holds after every step.                                              *)
LEMMA WorkStep == WorkInv /\ [Next]_vars => WorkInv' /\ UNCHANGED text
<1> SUFFICES ASSUME WorkInv, [Next]_vars PROVE WorkInv' /\ UNCHANGED text
  OBVIOUS
<1>1. PartsInv'
  BY PartsStep DEF WorkInv
<1>2. FileStands' /\ UNCHANGED text
  BY FileStep DEF WorkInv
<1>3. Handed' /\ Paced'
  BY <1>1, <1>2, DeliverHands, OthersHand
<1> QED BY <1>1, <1>2, <1>3 DEF WorkInv
-----------------------------------------------------------------------------
(***************************************************************************)
(* A file without a character is open with its counters at their start and *)
(* is never closed, which is not how another file ends. No error is        *)
(* reported of it: its only token is the end of the input.                 *)
(***************************************************************************)
Blank ==
  text = <<>> =>
    /\ errors = 0 /\ reports = <<>> /\ spc \in {"idle", "start"}
    /\ IF pc = "create" THEN tok = Parse!BadDirective
       ELSE pc \in {"top", "done"} /\ tok = Parse!EndToken

(* The scanner finds the end of a file that is empty.                      *)
LEMMA BlankScan ==
  ASSUME PartsInv, text = <<>>, Scan!ScanStep, spc \in {"idle", "start"}
  PROVE  SP!EndOfInput /\ SP!Delivered' \in SP!Source!Sticky
<1>1. SP!ScanStep /\ SP!Moved
  BY SameScan, Assumptions, SP!ScannerMoves DEF PartsInv
<1>2. spc = "start" /\ SP!ch = EOF /\ Rest = <<>>
  <2>1. SP!Pos = Len(text) + 1
    <3>1. Len(text) = 0
      OBVIOUS
    <3>2. SP!Pos \in 1 .. 0 + 1
      BY <3>1, Types
    <3> QED BY <3>1, <3>2
  <2> QED BY <1>1, <2>1, Assumptions, SP!Standing DEF PartsInv, SP!LexInv,
             SP!Moved
<1>3. /\ EOF \notin Letters \cup Digits \cup Spaces
                      \cup {"#", ":", "%", SP!Quote, SP!LBrace}
      /\ SP!IsEnd(EOF)
  BY Assumptions, SP!Standing DEF PartsInv, SP!LexInv, SP!IsEnd
<1>4. SP!EndOfInput
  BY <1>1, <1>2, <1>3 DEF SP!ScanStep, SP!SkipSpace, SP!BeginComment,
     SP!SkipComment, SP!GetColon, SP!BadChar, SP!BeginString, SP!BeginBlock,
     SP!BeginWord, SP!ReadDirective, SP!EndDirective, SP!ReadString,
     SP!EndString, SP!ReadNumber, SP!ReadSymbol, SP!ReadBlock, SP!Spin,
     SP!Spinning, SP!Working
<1>5. SP!Delivered' \in SP!Source!Sticky
  BY <1>4, Assumptions, SP!EndStep DEF PartsInv
<1> QED BY <1>4, <1>5

(* The parser is content with such a file.                                 *)
LEMMA BlankStep ==
  ASSUME WorkInv, Blank, [Next]_vars, WorkInv', UNCHANGED text
  PROVE  Blank'
<1> SUFFICES ASSUME text = <<>> PROVE Blank'
  BY DEF Blank
<1>1. /\ errors = 0 /\ reports = <<>> /\ spc \in {"idle", "start"}
      /\ IF pc = "create" THEN tok = Parse!BadDirective
         ELSE pc \in {"top", "done"} /\ tok = Parse!EndToken
  BY DEF Blank
<1>2. PartsInv /\ PartsInv' /\ Handed'
  BY DEF WorkInv
<1>3. Scan!ScanStep => SP!EndOfInput /\ SP!Delivered' \in SP!Source!Sticky
  BY <1>1, <1>2, BlankScan
<1>4. Scan!ScanStep => spc' = "idle" /\ alive' = alive /\ alive
  BY <1>3 DEF SP!EndOfInput, SP!Return, SP!Working
<1>5. CASE Deliver
  <2>1. tok' = Parse!EndToken
    <3>1. SP!EndOfInput /\ tok' \in {SP!Source!EndToken, SP!Source!BadChar}
      BY <1>2, <1>3, <1>5 DEF Deliver, Handed, SP!Source!Sticky
    <3>2. tok' # SP!Source!BadChar
      <4>1. SP!ch' = SP!ch /\ SP!IsEnd(SP!ch)
        BY <3>1 DEF SP!EndOfInput, SP!ch
      <4>2. SP!Delivered' = SP!Source!BadChar => ~SP!IsEnd(SP!ch')
        BY <1>2 DEF PartsInv, SP!IInv, SP!Stays
      <4> QED BY <1>2, <4>1, <4>2 DEF Handed
    <3>3. SP!Source!EndToken = Parse!EndToken
      BY DEF SP!Source!EndToken, Parse!EndToken
    <3> QED BY <3>1, <3>2, <3>3
  <2>2. Parse!CreateParser
    BY <1>1, <1>5 DEF Deliver, Parse!ReadStep, Parse!BeginPattern,
       Parse!AddElem, Parse!EndPattern, Parse!EndRule, Parse!ParseVerbo,
       Parse!ParsePrefix, Parse!ParseName, Parse!ParseCode,
       Parse!ParseArgument, Parse!SkipArgument, Parse!AtTop, Parse!EndToken
  <2>3. pc' = "top" /\ errors' = 0
    <3>1. \E t : Parse!Read(t) /\ errors' = errors + Parse!ScanErrors(t) /\ pc' = "top"
      BY <2>2 DEF Parse!CreateParser
    <3>2. errors' = errors + Parse!ScanErrors(Parse!EndToken) /\ pc' = "top"
      BY <2>1, <3>1 DEF Parse!Read
    <3> QED BY <1>1, <3>2 DEF Parse!ScanErrors, Parse!Report, Parse!EndToken
  <2>4. reports' = <<>> /\ spc' = "idle"
    BY <1>1, <1>5, <2>3 DEF Deliver, Reporting
  <2> QED BY <2>1, <2>3, <2>4 DEF Blank, Parse!EndToken
<1>6. CASE ParseOn
  <2>1. Parse!Finish
    BY <1>1, <1>6 DEF ParseOn, Parse!LocalStep, Parse!BeginRule,
       Parse!Unexpected, Parse!AtTop, Parse!EndToken
  <2>2. errors' = 0 /\ pc' = "done" /\ tok' = tok /\ tok = Parse!EndToken
    BY <1>1, <2>1 DEF Parse!Finish
  <2>3. reports' = <<>> /\ spc' = spc
    BY <1>1, <1>6, <2>2 DEF ParseOn, Reporting, scanVars
  <2> QED BY <1>1, <2>2, <2>3 DEF Blank, Parse!EndToken
<1>7. CASE CallScanner \/ UNCHANGED vars
  <2>1. UNCHANGED <<tok, pc, errors, reports>> /\ spc' \in {"idle", "start"}
    BY <1>1, <1>7 DEF CallScanner, vars, scanVars, parserVars, Scan!Call
  <2> QED BY <1>1, <2>1 DEF Blank, Parse!EndToken, Parse!BadDirective,
             Scan!UnknownDirective
<1>8. ~ScanOn /\ ~ScanFatal /\ ~OutOfMemory
  BY <1>1, <1>4 DEF ScanOn, ScanFatal, OutOfMemory, Scan!OutOfMemory,
     Scan!Spinning
<1> QED BY <1>5, <1>6, <1>7, <1>8 DEF Next, Step

-----------------------------------------------------------------------------
(* What is printed of an error.                                            *)
Message == [last : Nat, at : {PositionOf(i) : i \in Nat}]

(***************************************************************************)
(* What was printed gives the position behind the token that was read      *)
(* last, for every error but that with which the scanner exits; that one   *)
(* gives the position of a byte that it refuses.                           *)
(***************************************************************************)
Pointing ==
  /\ pc = "fatal" => ~alive
  /\ reports \in Seq(Message)
  /\ \A k \in 1 .. Len(reports) :
       IF pc = "fatal" /\ k = Len(reports)
       THEN \E i \in DOMAIN text : Refuses(i) /\ reports[k].at = PositionOf(i)
       ELSE reports[k].at = PositionOf(Behind(reports[k].last))

(* What get_fname, get_line_no and get_col_no return of a file at a place. *)
LEMMA PositionAt ==
  ASSUME NEW i \in 1 .. Len(text) + 1, text # <<>>, Len(text) \in Nat,
         NEW s, s = StackAt(i)
  PROVE  [named |-> s # <<>>, line |-> IF s = <<>> THEN -1 ELSE s[1].line,
          col |-> IF s = <<>> THEN -1 ELSE s[1].col] = PositionOf(i)
<1>1. CASE i > Len(text)
  BY <1>1 DEF StackAt, PositionOf
<1>2. CASE ~(i > Len(text))
  <2>1. s = <<FileAt(i)>>
    BY <1>2 DEF StackAt
  <2>2. s # <<>> /\ s[1] = FileAt(i)
    BY <2>1
  <2>3. s # <<>> /\ s[1].line = PositionOf(i).line /\ s[1].col = PositionOf(i).col
    BY <2>2 DEF FileAt
  <2>4. PositionOf(i) =
          [named |-> TRUE, line |-> PositionOf(i).line, col |-> PositionOf(i).col]
    BY <1>2 DEF PositionOf
  <2> QED BY <2>3, <2>4
<1> QED BY <1>1, <1>2

(* What a step that reports an error prints.                               *)
LEMMA NowPrinted ==
  ASSUME WorkInv', UNCHANGED text, text # <<>>
  PROVE  /\ SP!Pos' \in 1 .. Len(text) + 1 /\ SP!Pos' \in Nat
         /\ Printed' = [last |-> Len(input'), at |-> PositionOf(SP!Pos')]
         /\ Printed' \in Message
<1> DEFINE i == SP!Pos'
<1>1. text \in Seq(SP!Bytes) /\ i \in 1 .. Len(text) + 1 /\ Len(input') \in Nat
  <2>1. PaP!TypeOK' /\ SP!Placed'
    BY DEF WorkInv, PartsInv, PaP!FullInv, PaP!MeaningInv, PaP!IInv, SP!LexInv
  <2>2. input' \in Seq(PaP!Token)
    BY <2>1 DEF PaP!TypeOK
  <2> QED BY <2>1, <2>2 DEF SP!Placed
<1>2. stack' = StackAt(SP!Pos)'
  BY DEF WorkInv, FileStands
<1>3. StackAt(SP!Pos)' = StackAt(i)
  BY DEF StackAt, FileAt, PositionOf, NewlinesIn, Files!NewFile
<1> HIDE DEF i
<1>4. Len(text) \in Nat
  BY <1>1
<1>5. Position' = PositionOf(i)
  BY <1>1, <1>2, <1>3, <1>4, PositionAt DEF Position, Files!LineNo, Files!ColNo
<1>6. Printed' = [last |-> Len(input'), at |-> PositionOf(i)]
  BY <1>5 DEF Printed
<1>7. i \in Nat
  BY <1>1
<1>8. Printed' \in Message
  BY <1>1, <1>6, <1>7 DEF Message
<1> QED BY <1>1, <1>6, <1>7, <1>8 DEF i

(* The positions of a text stay while the text does.                       *)
LEMMA SamePositions ==
  ASSUME UNCHANGED text
  PROVE  /\ Message' = Message
         /\ \A i : PositionOf(i)' = PositionOf(i)
         /\ \A k : Behind(k)' = Behind(k)
         /\ \A i : Refuses(i)' <=> Refuses(i)
<1>1. \A i : NewlinesIn(i)' = NewlinesIn(i)
  BY DEF NewlinesIn
<1>2. \A i : PositionOf(i)' = PositionOf(i)
  <2> TAKE i
  <2>1. NewlinesIn(i)' = NewlinesIn(i)
    BY <1>1
  <2> QED BY <2>1 DEF PositionOf
<1>3. Message' = Message
  BY <1>2 DEF Message
<1>4. \A k : Behind(k)' = Behind(k)
  BY DEF Behind
<1>5. \A i : Refuses(i)' <=> Refuses(i)
  BY DEF Refuses
<1> QED BY <1>2, <1>3, <1>4, <1>5

(* What is right of one report, as long as it is not the scanner's.        *)
Right(r) == r.at = PositionOf(Behind(r.last))

(* A report more, or none, that is right as those before it are.           *)
LEMMA StillRight ==
  ASSUME Pointing, pc # "fatal", pc' # "fatal", UNCHANGED text,
         \/ reports' = reports
         \/ \E r \in Message : reports' = Append(reports, r) /\ Right(r)
  PROVE  Pointing'
<1> DEFINE C == Message
<1>1. reports \in Seq(C) /\ Len(reports) \in Nat
  BY DEF Pointing
<1>2. \A k \in 1 .. Len(reports) : Right(reports[k])
  BY DEF Pointing, Right
<1>3. reports' \in Seq(C) /\ \A k \in 1 .. Len(reports') : Right(reports'[k])
  <2>1. CASE reports' = reports
    BY <1>1, <1>2, <2>1
  <2>2. CASE \E r \in C : reports' = Append(reports, r) /\ Right(r)
    <3>1. PICK r \in C : reports' = Append(reports, r) /\ Right(r)
      BY <2>2
    <3> DEFINE q == Append(reports, r)
    <3> HIDE DEF C
    <3>2. /\ q \in Seq(C) /\ Len(q) = Len(reports) + 1 /\ q[Len(reports) + 1] = r
          /\ \A k \in 1 .. Len(reports) : q[k] = reports[k]
      BY <1>1
    <3>3. \A k \in 1 .. Len(reports) + 1 :
            k \in 1 .. Len(reports) \/ k = Len(reports) + 1
      BY <1>1
    <3> HIDE DEF q
    <3>4. \A k \in 1 .. Len(q) : Right(q[k])
      BY <1>2, <3>1, <3>2, <3>3
    <3> QED BY <3>1, <3>2, <3>4 DEF q
  <2> QED BY <2>1, <2>2
<1>4. \A k : Right(reports'[k]) =>
              reports'[k].at = (PositionOf(Behind(reports[k].last)))'
  BY SamePositions DEF Right
<1> QED BY <1>3, <1>4, SamePositions DEF Pointing

(* Nothing happens once the scanner has exited.                            *)
LEMMA FatalStays ==
  ASSUME WorkInv, Pointing, [Next]_vars, pc = "fatal"
  PROVE  UNCHANGED vars
<1>1. ~alive
  BY DEF Pointing
<1>2. ~Scan!ScanStep
  BY <1>1, SameScan, Assumptions, SP!ScannerMoves DEF WorkInv, PartsInv,
     SP!Moved
<1> QED BY <1>1, <1>2 DEF Next, Step, CallScanner, ScanOn, Deliver, ScanFatal,
           OutOfMemory, ParseOn, Scan!OutOfMemory, Scan!Spinning, Scan!Working

(* What the scanner's exit prints.                                         *)
LEMMA RefusedPointed ==
  ASSUME WorkInv, Blank, Pointing, ScanFatal, WorkInv', UNCHANGED text,
         pc # "fatal"
  PROVE  Pointing'
<1>1. /\ Scan!ScanStep /\ ~alive' /\ pc' = "fatal" /\ spc' # "idle"
      /\ errors' = errors + 2 /\ errors \in Nat
  <2>1. Scan!ScanStep /\ ~alive' /\ pc' = "fatal" /\ Parse!ScannerStops
    BY DEF ScanFatal
  <2>2. errors' = errors + 2
    BY <2>1 DEF Parse!ScannerStops
  <2>3. spc' # "idle"
    BY <2>1, SameScan, Assumptions, SP!ScannerMoves DEF WorkInv, PartsInv,
       SP!Moved
  <2>4. errors \in Nat
    BY Types DEF WorkInv
  <2> QED BY <2>1, <2>2, <2>3, <2>4
<1>2. SP!Pos' <= Len(text) /\ text[SP!Pos'] \in High \cup {SP!FF}
  BY <1>1, SameScan, Assumptions, SP!ScannerMoves DEF WorkInv, PartsInv,
     SP!Moved
<1>3. text # <<>>
  <2>1. SP!Pos' \in 1 .. Len(text') + 1
    BY DEF WorkInv, PartsInv, SP!LexInv, SP!Placed
  <2> QED BY <1>2, <2>1
<1>4. /\ SP!Pos' \in 1 .. Len(text) + 1 /\ SP!Pos' \in Nat
      /\ Printed' = [last |-> Len(input'), at |-> PositionOf(SP!Pos')]
      /\ Printed' \in Message
  BY <1>3, NowPrinted
<1> DEFINE C == Message
           r == Printed'
           q == Append(reports, r)
           i == SP!Pos'
<1>5. reports' = q
  BY <1>1 DEF ScanFatal, Reporting
<1>6. Refuses(i) /\ i \in DOMAIN text
  <2>1. text \in Seq(SP!Bytes)
    BY Types DEF WorkInv
  <2> HIDE DEF i
  <2>2. i \in 1 .. Len(text)
    BY <1>2, <1>4, <2>1 DEF i
  <2> QED BY <1>2, <2>1, <2>2, SameMarks DEF Refuses, i
<1>7. r.at = PositionOf(i)
  BY <1>4
<1>8. reports \in Seq(C) /\ Len(reports) \in Nat
      /\ \A k \in 1 .. Len(reports) : Right(reports[k])
  BY DEF Pointing, Right
<1>9. r \in C
  BY <1>4
<1> HIDE DEF C, r, i
<1>10. /\ q \in Seq(C) /\ Len(q) = Len(reports) + 1 /\ q[Len(reports) + 1] = r
       /\ \A k \in 1 .. Len(reports) : q[k] = reports[k]
  BY <1>8, <1>9
<1>11. \A k \in 1 .. Len(reports) + 1 :
         k \in 1 .. Len(reports) \/ k = Len(reports) + 1
  BY <1>8
<1> HIDE DEF q
<1>12. \A k \in 1 .. Len(q) :
         IF k = Len(q)
         THEN \E j \in DOMAIN text : Refuses(j) /\ q[k].at = PositionOf(j)
         ELSE Right(q[k])
  BY <1>6, <1>7, <1>8, <1>10, <1>11
<1>13. \A k : Right(reports'[k]) =>
               reports'[k].at = (PositionOf(Behind(reports[k].last)))'
  BY SamePositions DEF Right
<1>14. \A k \in 1 .. Len(reports') :
         IF k = Len(reports')
         THEN \E j \in DOMAIN text' : (Refuses(j) /\ reports[k].at = PositionOf(j))'
         ELSE reports'[k].at = (PositionOf(Behind(reports[k].last)))'
  BY <1>5, <1>12, <1>13, SamePositions
<1>15. reports' \in Seq(Message')
  BY <1>5, <1>10, SamePositions DEF C
<1> QED BY <1>1, <1>14, <1>15 DEF Pointing

(* Whatever a step reports, it reports at the right position.              *)
LEMMA PointingStep ==
  ASSUME WorkInv, Blank, Pointing, [Next]_vars, WorkInv', Blank',
         UNCHANGED text
  PROVE  Pointing'
<1>1. CASE pc = "fatal"
  <2>1. UNCHANGED vars
    BY <1>1, FatalStays
  <2>2. UNCHANGED <<pc, alive, reports>>
    BY <2>1 DEF vars, scanVars, parserVars
  <2>3. \A k : (PositionOf(Behind(reports[k].last)))' =
                PositionOf(Behind(reports[k].last))
    BY <2>2, SamePositions
  <2> QED BY <2>2, <2>3, SamePositions DEF Pointing
<1>2. CASE pc # "fatal" /\ ScanFatal
  BY <1>2, RefusedPointed
<1>3. CASE pc # "fatal" /\ (Deliver \/ ParseOn)
  <2>1. pc' # "fatal" /\ spc' = "idle" /\ Reporting
    <3>1. CASE Deliver
      BY <3>1, ReadsOne DEF Deliver
    <3>2. CASE ParseOn
      BY <1>3, <3>2 DEF ParseOn, scanVars, Parse!LocalStep, Parse!BeginRule,
         Parse!Unexpected, Parse!Finish
    <3> QED BY <1>3, <3>1, <3>2
  <2>2. reports' # reports => text # <<>>
    BY DEF Blank
  <2>3. reports' # reports =>
          /\ reports' = Append(reports, Printed')
          /\ Printed' \in Message /\ Right(Printed')
    <3> SUFFICES ASSUME reports' # reports
                 PROVE  /\ reports' = Append(reports, Printed')
                        /\ Printed' \in Message /\ Right(Printed')
      OBVIOUS
    <3>1. reports' = Append(reports, Printed')
      BY <2>1 DEF Reporting
    <3>2. /\ Printed' = [last |-> Len(input'), at |-> PositionOf(SP!Pos')]
          /\ Printed' \in Message
      BY <2>2, NowPrinted
    <3>3. Behind(Len(input))' = SP!Pos'
      BY <2>1 DEF WorkInv, Handed
    <3>4. Behind(Len(input)') = SP!Pos'
      BY <3>3 DEF Behind
    <3> QED BY <3>1, <3>2, <3>4 DEF Right
  <2> QED BY <1>3, <2>1, <2>3, StillRight
<1>4. CASE pc # "fatal" /\ (CallScanner \/ ScanOn \/ UNCHANGED vars)
  <2>1. UNCHANGED <<pc, reports>>
    BY <1>4 DEF CallScanner, ScanOn, vars, parserVars
  <2> QED BY <1>4, <2>1, StillRight
<1>5. CASE pc # "fatal" /\ OutOfMemory
  <2>1. Parse!ScannerStops /\ pc' = "nomemory" /\ Reporting
    BY <1>5 DEF OutOfMemory
  <2>2. errors' = errors /\ errors \in Nat
    BY <2>1, Types DEF Parse!ScannerStops, WorkInv
  <2>3. reports' = reports
    BY <2>1, <2>2 DEF Reporting
  <2> QED BY <1>5, <2>1, <2>3, StillRight
<1> QED BY <1>1, <1>2, <1>3, <1>4, <1>5 DEF Next, Step

(* The inductive invariant.                                                *)
FrontInv == WorkInv /\ Blank /\ Pointing

(* It holds before the first call.                                         *)
LEMMA FrontBegins == Init => FrontInv
<1> SUFFICES ASSUME Init PROVE FrontInv
  OBVIOUS
<1>1. /\ errors = 0 /\ reports = <<>> /\ spc = "idle" /\ pc = "create"
      /\ tok = Parse!BadDirective
  BY DEF Init, Parse!Init, Scan!Init
<1>2. Blank
  BY <1>1 DEF Blank
<1>3. Pointing
  <2>1. reports \in Seq(Message) /\ Len(reports) = 0
    BY <1>1
  <2> QED BY <1>1, <2>1 DEF Pointing
<1> QED BY <1>2, <1>3, WorkBegins DEF FrontInv

(* It holds after every step.                                              *)
LEMMA FrontStep == FrontInv /\ [Next]_vars => FrontInv'
<1> SUFFICES ASSUME FrontInv, [Next]_vars PROVE FrontInv'
  OBVIOUS
<1>1. WorkInv' /\ UNCHANGED text
  BY WorkStep DEF FrontInv
<1>2. Blank'
  BY <1>1, BlankStep DEF FrontInv
<1>3. Pointing'
  BY <1>1, <1>2, PointingStep DEF FrontInv
<1> QED BY <1>1, <1>2, <1>3 DEF FrontInv

(***************************************************************************)
(* The file, the scanner and the parser stay in step with one another on   *)
(* every text.                                                             *)
(***************************************************************************)
THEOREM FrontendInvariant == Spec => []FrontInv
BY FrontBegins, FrontStep, PTL DEF Spec

(* What the invariant says of each report, for the set of them.            *)
LEMMA PointingIsRight == Pointing => ErrorsPointBehindTheToken
<1> SUFFICES ASSUME Pointing, NEW r \in ToSet(reports)
             PROVE  IF pc = "fatal" /\ r = Last(reports)
                    THEN \E i \in DOMAIN text : Refuses(i) /\ r.at = PositionOf(i)
                    ELSE r.at = PositionOf(Behind(r.last))
  BY DEF ErrorsPointBehindTheToken
<1>1. reports \in Seq(Message) /\ Len(reports) \in Nat
  BY DEF Pointing
<1>2. PICK k \in 1 .. Len(reports) : r = reports[k]
  BY <1>1 DEF ToSet
<1>3. Len(reports) \in 1 .. Len(reports)
  BY <1>1, <1>2
<1>4. r = Last(reports) => r = reports[Len(reports)]
  BY <1>3 DEF Last
<1> QED BY <1>2, <1>3, <1>4 DEF Pointing, Last

(***************************************************************************)
(* Every error is reported at the character behind the token that was read *)
(* last, or without a position if that token ends the file, and the error  *)
(* with which the scanner exits at a byte that it refuses: for every text, *)
(* and although the parser has a token ahead by then.                      *)
(***************************************************************************)
THEOREM ErrorsAreWhereTheyAre == Spec => []ErrorsPointBehindTheToken
<1>1. FrontInv => ErrorsPointBehindTheToken
  BY PointingIsRight DEF FrontInv
<1> QED BY <1>1, FrontendInvariant, PTL
-----------------------------------------------------------------------------
(* The tokens of a text, more of them than it can have, and where they     *)
(* end.                                                                    *)
AllTokens == [k \in 1 .. Len(text) + 1 |->
                Scan!AsToken(Lex!Cuts(text, Len(text) + 1)[k].tok)]
Ends == {k \in 1 .. Len(AllTokens) : AllTokens[k].type = "END_OF_INPUT"}

(* The tokens of a text up to its first end.                               *)
LEMMA TextTokens ==
  TokensOf(text) = IF Ends = {} THEN AllTokens
                   ELSE SubSeq(AllTokens, 1, Min(Ends))
<1> DEFINE lexemes == Lex!Lexemes(text, Len(text) + 1)
           all == [k \in DOMAIN lexemes |-> Scan!AsToken(lexemes[k])]
<1>1. lexemes = [k \in 1 .. Len(text) + 1 |->
                   Lex!Cuts(text, Len(text) + 1)[k].tok]
  BY DEF Lex!Lexemes
<1> HIDE DEF lexemes
<1>2. all = AllTokens
  BY <1>1 DEF AllTokens
<1> HIDE DEF all
<1>3. TokensOf(text) =
        LET end == SelectInSeq(all, LAMBDA t : t.type = "END_OF_INPUT")
        IN  IF end = 0 THEN all ELSE SubSeq(all, 1, end)
  BY DEF TokensOf, all, lexemes
<1>4. SelectInSeq(all, LAMBDA t : t.type = "END_OF_INPUT") =
        IF Ends # {} THEN Min(Ends) ELSE 0
  BY <1>2 DEF SelectInSeq, Ends
<1>5. Ends # {} => Min(Ends) # 0
  <2> SUFFICES ASSUME Ends # {} PROVE Min(Ends) # 0
    OBVIOUS
  <2>1. Ends \subseteq Nat /\ 0 \notin Ends
    BY DEF Ends
  <2>2. PICK x \in Ends : \A y \in Ends : x <= y
    BY <2>1, Assumptions, SP!LeastNumber
  <2>3. Min(Ends) \in Ends
    BY <2>2 DEF Min
  <2> QED BY <2>1, <2>3
<1> QED BY <1>2, <1>3, <1>4, <1>5

(* What was read is what the text begins with.                             *)
LEMMA InputBegins ==
  ASSUME WorkInv
  PROVE  /\ AllTokens \in Seq({AllTokens[k] : k \in 1 .. Len(AllTokens)})
         /\ Len(input) <= Len(AllTokens) /\ Len(AllTokens) \in Nat
         /\ \A k \in 1 .. Len(input) : AllTokens[k] = input[k]
<1> DEFINE n == Len(input)
           m == Len(tokens)
           N == Len(text) + 1
<1>1. /\ input \in Seq(Parse!Token) /\ n \in Nat /\ tokens \in Seq(SP!Cell) /\ m \in Nat
      /\ text \in Seq(SP!Bytes) /\ Len(text) \in Nat /\ N \in Nat /\ SP!Pos \in 1 .. N
  BY Types DEF WorkInv
<1>2. n <= N /\ n <= m
  BY <1>1 DEF WorkInv, Handed, Paced
<1>3. Len(AllTokens) = N
  BY <1>1 DEF AllTokens
<1>4. AllTokens \in Seq({AllTokens[k] : k \in 1 .. Len(AllTokens)})
  <2> DEFINE C == {AllTokens[k] : k \in 1 .. Len(AllTokens)}
  <2>1. AllTokens = [k \in 1 .. N |-> AllTokens[k]]
    BY DEF AllTokens
  <2>2. \A k \in 1 .. N : AllTokens[k] \in C
    BY <1>3
  <2> HIDE DEF N, C
  <2>3. AllTokens \in [1 .. N -> C]
    BY <2>1, <2>2
  <2>4. AllTokens \in Seq(C)
    BY <1>1, <2>3, SeqDef
  <2> QED BY <2>4 DEF C
<1>5. ASSUME NEW k \in 1 .. n PROVE AllTokens[k] = input[k]
  <2>1. input[k] = Scan!AsToken(tokens[k])
    BY <1>1 DEF WorkInv, Handed
  <2>2. k \in 1 .. m /\ k \in 0 .. n /\ k \in 1 .. N /\ n \in 0 .. m /\ n \in 0 .. N
    BY <1>1, <1>2
  <2>3. tokens[k] = SP!Lex!Cuts(text, m)[k].tok
    BY <2>2 DEF WorkInv, PartsInv, SP!LexInv, SP!Delivering
  <2> HIDE DEF n, m, N
  <2>4. SP!Lex!Cuts(text, n)[k] = SP!Lex!Cuts(text, m)[k]
    BY <1>1, <2>2, Assumptions, SP!CutsAgree
  <2>5. SP!Lex!Cuts(text, n)[k] = SP!Lex!Cuts(text, N)[k]
    BY <1>1, <2>2, Assumptions, SP!CutsAgree
  <2>6. AllTokens[k] = Scan!AsToken(Lex!Cuts(text, N)[k].tok)
    BY <2>2 DEF AllTokens, N
  <2> QED BY <2>1, <2>3, <2>4, <2>5, <2>6, SameCuts
<1> HIDE DEF n, N
<1> QED BY <1>1, <1>2, <1>3, <1>4, <1>5 DEF n

(* Only one token ends the input.                                          *)
LEMMA OnlyEnd ==
  ASSUME NEW t \in Parse!Token, t.type = "END_OF_INPUT"
  PROVE  t = Parse!EndToken /\ t \in Parse!Sticky
BY DEF Parse!Token, Parse!Sticky, Parse!EndToken, Parse!Colon,
   Parse!BadDirective, Parse!BadChar, Parse!DirectiveTypes

(* What was read begins the tokens of the text, and is all of them once it *)
(* has an end.                                                             *)
LEMMA InputWithin ==
  ASSUME WorkInv
  PROVE  /\ \E S : TokensOf(text) \in Seq(S)
         /\ Len(input) <= Len(TokensOf(text))
         /\ \A k \in 1 .. Len(input) : TokensOf(text)[k] = input[k]
         /\ input # <<>> /\ input[Len(input)].type = "END_OF_INPUT" =>
              TokensOf(text) = input
<1> DEFINE n == Len(input)
           all == AllTokens
           N == Len(all)
           C == {all[k] : k \in 1 .. N}
<1>1. /\ all \in Seq(C) /\ n <= N /\ N \in Nat
      /\ \A k \in 1 .. n : all[k] = input[k]
  BY InputBegins
<1>2. input \in Seq(Parse!Token) /\ n \in Nat
  BY Types DEF WorkInv
<1>3. \A k \in Ends : k \in 1 .. N /\ k >= n
  <2> SUFFICES ASSUME NEW k \in Ends PROVE k \in 1 .. N /\ k >= n
    OBVIOUS
  <2>1. k \in 1 .. N /\ all[k].type = "END_OF_INPUT"
    BY DEF Ends
  <2>2. ~(k < n)
    <3> SUFFICES ASSUME k < n PROVE FALSE
      OBVIOUS
    <3>1. k \in 1 .. n /\ k \in 1 .. n - 1
      BY <1>2, <2>1
    <3>2. input[k] \in Parse!Token /\ input[k].type = "END_OF_INPUT"
      BY <1>1, <1>2, <2>1, <3>1
    <3>3. input[k] \notin Parse!Sticky
      BY <3>1 DEF WorkInv, Handed
    <3> QED BY <3>2, <3>3, OnlyEnd
  <2> QED BY <1>2, <2>1, <2>2
<1> HIDE DEF C, all, N
<1>4. CASE Ends = {}
  <2>1. TokensOf(text) = all
    BY <1>4, TextTokens DEF all
  <2>2. n # 0 => input[n].type # "END_OF_INPUT"
    <3> SUFFICES ASSUME n # 0, input[n].type = "END_OF_INPUT" PROVE FALSE
      OBVIOUS
    <3>1. n \in 1 .. N /\ n \in 1 .. n
      BY <1>1, <1>2
    <3>2. n \in Ends
      BY <1>1, <3>1 DEF Ends, all, N
    <3> QED BY <1>4, <3>2
  <2>3. input # <<>> => n # 0
    BY <1>2
  <2> QED BY <1>1, <2>1, <2>2, <2>3 DEF N
<1>5. CASE Ends # {}
  <2> DEFINE e == Min(Ends)
  <2>1. e \in Ends /\ \A y \in Ends : e <= y
    <3>1. Ends \subseteq Nat
      BY <1>1, <1>3
    <3>2. PICK x \in Ends : \A y \in Ends : x <= y
      BY <1>5, <3>1, Assumptions, SP!LeastNumber
    <3> QED BY <3>2 DEF Min
  <2>2. TokensOf(text) = SubSeq(all, 1, e)
    BY <1>5, TextTokens DEF all
  <2> HIDE DEF e
  <2>3. e \in 1 .. N /\ e >= n /\ e \in Nat
    BY <1>1, <1>3, <2>1
  <2> DEFINE u == SubSeq(all, 1, e)
  <2>4. u \in Seq(C) /\ Len(u) = e /\ \A k \in 1 .. e : u[k] = all[k]
    BY <1>1, <2>3 DEF N
  <2> HIDE DEF u
  <2>5. \A k \in 1 .. n : u[k] = input[k]
    <3>1. \A k \in 1 .. n : k \in 1 .. e
      BY <1>2, <2>3
    <3> QED BY <1>1, <2>4, <3>1
  <2>6. ASSUME input # <<>>, input[n].type = "END_OF_INPUT" PROVE u = input
    <3>1. n \in 1 .. n /\ n \in 1 .. N
      BY <1>1, <1>2, <2>6
    <3>2. n \in Ends
      BY <1>1, <2>6, <3>1 DEF Ends, all, N
    <3>3. e = n
      BY <1>2, <2>1, <2>3, <3>2
    <3> QED BY <1>2, <2>4, <2>5, <3>3
  <2> QED BY <2>2, <2>3, <2>4, <2>5, <2>6 DEF u
<1> QED BY <1>4, <1>5

(* The verdict on what was read is that on the text.                       *)
LEMMA WorkDecides == WorkInv => VerdictIsThatOfTheText
<1> SUFFICES ASSUME WorkInv, pc = "done"
             PROVE  errors = 0 <=> Language!Grammatical(TokensOf(text))
  BY DEF VerdictIsThatOfTheText
<1>1. PaP!FullInv /\ input \in Seq(Parse!Token)
  BY Types DEF WorkInv, PartsInv
<1> DEFINE u == TokensOf(text)
<1>2. /\ \E S : u \in Seq(S)
      /\ Len(input) <= Len(u) /\ \A k \in 1 .. Len(input) : u[k] = input[k]
      /\ input # <<>> /\ input[Len(input)].type = "END_OF_INPUT" => u = input
  BY InputWithin
<1> HIDE DEF u
<1>3. CASE errors = 0
  <2>1. PaP!Grammatical(input)
    BY <1>1, <1>3, Assumptions, PaP!ReadingDecides DEF PaP!VerdictIsRight
  <2>2. input # <<>> /\ input[Len(input)].type = "END_OF_INPUT"
    BY <2>1 DEF PaP!Grammatical, PaP!Last, PaP!EndToken
  <2>3. u = input
    BY <1>2, <2>2
  <2> QED BY <1>3, <2>1, <2>3, SameGrammar DEF u
<1>4. CASE errors # 0
  <2>1. PaP!DeadEnd(input)
    BY <1>1, <1>4 DEF PaP!FullInv, PaP!VerdictInv
  <2>2. PICK S : u \in Seq(S)
    BY <1>2
  <2>3. input \in Seq(PaP!Token)
    BY <1>1, SameTokens
  <2>4. ~PaP!Grammatical(u)
    BY <1>2, <2>1, <2>2, <2>3, Assumptions, PaP!DeadBeginsNothing
  <2> QED BY <1>4, <2>4, SameGrammar DEF u
<1> QED BY <1>3, <1>4

(***************************************************************************)
(* parse_input reports no error exactly for the texts whose tokens are a   *)
(* grammar file, for texts of every length: nothing of a text is lost,     *)
(* repeated or left unread between the file, the scanner and the parser.   *)
(***************************************************************************)
THEOREM TheVerdictIsThatOfTheText == Spec => []VerdictIsThatOfTheText
<1>1. FrontInv => VerdictIsThatOfTheText
  BY WorkDecides DEF FrontInv
<1> QED BY <1>1, FrontendInvariant, PTL
=============================================================================
