---------------------------- MODULE Rdpgen_proofs ---------------------------
(***************************************************************************)
(* For every input, of any length and over any texts.  First the parser    *)
(* alone, as module ParserProps states it: its state keeps its types; the  *)
(* rules it hands over without errors are well formed; they and the        *)
(* settings are those of the tokens that were read, and it counts an error *)
(* exactly when these tokens begin no grammar file.  Then the whole        *)
(* program around it: what it prints, how it ends and when it is killed,   *)
(* as module RdpgenProps states it on the tokens of the file.  The passes' *)
(* part is taken from PreProc_proofs.                                      *)
(***************************************************************************)
EXTENDS RdpgenProps, ParserProps, SequenceTheorems, FiniteSetTheorems,
        WellFoundedInduction, TLAPS

PPP == INSTANCE PreProc_proofs WITH InitialRules <- {}

(* What the type of a token says of its text.                              *)
LEMMA TokenTexts ==
  ASSUME NEW t \in Token
  PROVE  /\ t.type = "SYMBOL" => t.str \in Symbols
         /\ t.type = "STRG" => t.str \in Strings
         /\ t.type = "NUMBER" => t.str \in Numerals
         /\ t.type = "BLOCK" => t.str \in Blocks
BY DEF Token, DirectiveTypes, Colon, BadDirective, BadChar, EndToken

(* consume_token delivers a token again, and the same one at the end.      *)
LEMMA NextTokensAreTokens == tok \in Token => NextTokens \subseteq Token
BY DEF NextTokens, Following, Token

(* strtol and the conversion to int always give an integer.                *)
LEMMA ToIntIsInt ==
  ASSUME NEW n \in Numerals
  PROVE  ToInt(Strtol(n)) \in Int
<1>1. Strtol(n) \in Nat
  BY NumberAssumption DEF Strtol
<1>2. IntMax + 1 \in Nat /\ 2 * IntMax + 2 \in Nat \ {0}
  BY NumberAssumption
<1> QED BY <1>1, <1>2, NumberAssumption DEF ToInt

(* Each report adds to the count.                                          *)
LEMMA Reports ==
  ASSUME NEW t
  PROVE  /\ ScanErrors(t) \in Nat
         /\ PatternErrors(t) \in Nat
         /\ PatternErrors(t) = 0 <=> t.type = "BLOCK"
BY DEF ScanErrors, PatternErrors, Report

(* A call of consume_token keeps the token and the history well typed.     *)
LEMMA ReadKeepsTypes ==
  ASSUME TypeOK, NEW t \in NextTokens, Read(t)
  PROVE  tok' \in Token /\ input' \in Seq(Token) /\ t \in Token
<1>1. t \in Token
  BY NextTokensAreTokens DEF TypeOK
<1> QED BY <1>1 DEF Read, TypeOK

-----------------------------------------------------------------------------
(* Without errors also the patterns of the unfinished rule have their code.*)
PatternsHaveCode ==
  errors = 0 => \A i \in DOMAIN rule.patterns :
                  PatternWellFormed(rule.patterns[i])

IInv == TypeOK /\ RulesWellFormed /\ PatternsHaveCode

(* Before create_parser there are no rules.                                *)
LEMMA InitIInv == Init => IInv
<1> SUFFICES ASSUME Init PROVE IInv
  OBVIOUS
<1>1. TypeOK
  BY DEF Init, TypeOK, NoRule, Token
<1>2. RulesWellFormed /\ PatternsHaveCode
  BY DEF Init, RulesWellFormed, PatternsHaveCode, NoRule
<1> QED BY <1>1, <1>2 DEF IInv

(* A step that leaves the rules alone and takes no error back keeps what   *)
(* is said of them.                                                        *)
LEMMA RulesUntouched ==
  ASSUME IInv, UNCHANGED <<rule, rules>>, errors' = 0 => errors = 0
  PROVE  RulesWellFormed' /\ PatternsHaveCode'
BY DEF IInv, RulesWellFormed, PatternsHaveCode, RuleWellFormed,
       PatternWellFormed

(* The four directives change one setting each and leave the rules alone.  *)
LEMMA ParseArgumentKeeps ==
  ASSUME IInv, ParseVerbo \/ ParsePrefix \/ ParseName \/ ParseCode
  PROVE  IInv'
<1> USE DEF IInv
<1>1. PICK t \in NextTokens :
        /\ Read(t)
        /\ errors' = errors \/ errors' = errors + ScanErrors(t) + 1
  BY DEF ParseVerbo, ParsePrefix, ParseName, ParseCode, ParseArgument
<1>2. tok' \in Token /\ input' \in Seq(Token)
  BY <1>1, ReadKeepsTypes
<1>3. /\ pc' = "skip" /\ UNCHANGED <<rule, elems, rules>>
      /\ errors = 0
  BY DEF ParseVerbo, ParsePrefix, ParseName, ParseCode, ParseArgument, AtTop
<1>4. errors' \in Nat
  BY <1>1, Reports, SMTT(30) DEF TypeOK
<1>5. verbo' \in Int
  <2>1. CASE ParseVerbo
    BY <2>1, ToIntIsInt, TokenTexts, NextTokensAreTokens
    DEF ParseVerbo, ParseArgument, TypeOK
  <2>2. CASE ~ParseVerbo
    BY <2>2 DEF ParsePrefix, ParseName, ParseCode, TypeOK
  <2> QED BY <2>1, <2>2
<1>6. prefix' \in Strings \cup {NoText}
  <2>1. CASE ParsePrefix
    BY <2>1, TokenTexts, NextTokensAreTokens
    DEF ParsePrefix, ParseArgument, TypeOK
  <2>2. CASE ~ParsePrefix
    BY <2>2 DEF ParseVerbo, ParseName, ParseCode, TypeOK
  <2> QED BY <2>1, <2>2
<1>7. name' \in Strings \cup {NoText}
  <2>1. CASE ParseName
    BY <2>1, TokenTexts, NextTokensAreTokens
    DEF ParseName, ParseArgument, TypeOK
  <2>2. CASE ~ParseName
    BY <2>2 DEF ParseVerbo, ParsePrefix, ParseCode, TypeOK
  <2> QED BY <2>1, <2>2
<1>8. code' \in Seq(Blocks)
  <2>1. CASE ParseCode
    <3>1. PICK u \in NextTokens :
            \/ u.type = "BLOCK" /\ code' = Append(code, u.str)
            \/ code' = code
      BY <2>1 DEF ParseCode, ParseArgument
    <3>2. code \in Seq(Blocks) /\ u \in Token
      BY NextTokensAreTokens DEF TypeOK
    <3> QED BY <3>1, <3>2, TokenTexts
  <2>2. CASE ~ParseCode
    BY <2>2 DEF ParseVerbo, ParsePrefix, ParseName, TypeOK
  <2> QED BY <2>1, <2>2
<1>9. TypeOK'
  BY <1>2, <1>3, <1>4, <1>5, <1>6, <1>7, <1>8 DEF TypeOK
<1> QED BY <1>3, <1>9, RulesUntouched

(* parse_pattern's last step adds one well typed pattern to the rule.      *)
LEMMA EndPatternKeeps ==
  ASSUME IInv, EndPattern
  PROVE  IInv'
<1> USE DEF IInv
<1>1. PICK t \in NextTokens :
        /\ Read(t)
        /\ rule' = [rule EXCEPT !.patterns =
                      Append(@, [elems |-> elems, code |-> CodeOf(t)])]
        /\ errors' = errors + ScanErrors(t) + PatternErrors(t)
  BY DEF EndPattern
<1> DEFINE pat == [elems |-> elems, code |-> CodeOf(t)]
<1>2. tok' \in Token /\ input' \in Seq(Token) /\ t \in Token
  BY <1>1, ReadKeepsTypes
<1>3. pat \in Pattern
  BY <1>2, TokenTexts DEF CodeOf, Pattern, TypeOK
<1> DEFINE pats == Append(rule.patterns, pat)
<1>4. rule \in Rule /\ rule.patterns \in Seq(Pattern)
  <2>1. rule \in Rule
    BY DEF TypeOK, EndPattern
  <2> QED BY <2>1 DEF Rule
<1>5. rule' \in Rule /\ rule'.patterns = pats
  <2>1. pats \in Seq(Pattern)
    BY <1>3, <1>4
  <2>2. rule' = [rule EXCEPT !.patterns = pats]
    BY <1>1
  <2> HIDE DEF pats
  <2> QED BY <1>4, <2>1, <2>2 DEF Rule
<1>6. /\ errors \in Nat /\ ScanErrors(t) \in Nat /\ PatternErrors(t) \in Nat
      /\ PatternErrors(t) = 0 <=> t.type = "BLOCK"
      /\ errors' = errors + ScanErrors(t) + PatternErrors(t)
  <2>1. errors \in Nat
    BY DEF TypeOK
  <2> QED BY <1>1, <2>1, Reports
<1>7. errors' \in Nat
  BY <1>6
<1>8. TypeOK'
  BY <1>2, <1>5, <1>7 DEF EndPattern, TypeOK, pstate
<1>9. ASSUME errors' = 0
      PROVE  errors = 0 /\ t.type = "BLOCK"
  BY <1>6, <1>9
<1>10. RulesWellFormed'
  BY <1>9 DEF EndPattern, pstate, RulesWellFormed, RuleWellFormed,
              PatternWellFormed
<1>11. PatternsHaveCode'
  <2> SUFFICES ASSUME errors' = 0, NEW i \in DOMAIN rule'.patterns
               PROVE  PatternWellFormed(rule'.patterns[i])
    BY DEF PatternsHaveCode, PatternWellFormed
  <2>1. rule'.patterns = Append(rule.patterns, pat)
    BY <1>5
  <2>2. PatternWellFormed(pat)
    BY <1>2, <1>9, TokenTexts DEF PatternWellFormed, CodeOf
  <2>3. i \in DOMAIN rule.patterns \/ i = Len(rule.patterns) + 1
    BY <1>4, <2>1
  <2>4. CASE i \in DOMAIN rule.patterns
    <3>1. rule'.patterns[i] = rule.patterns[i]
      BY <1>4, <2>1, <2>4
    <3> QED BY <1>9, <2>4, <3>1 DEF PatternsHaveCode
  <2>5. CASE i = Len(rule.patterns) + 1
    <3>1. rule'.patterns[i] = pat
      BY <1>3, <1>4, <2>1, <2>5
    <3> QED BY <2>2, <3>1
  <2> QED BY <2>3, <2>4, <2>5
<1> QED BY <1>8, <1>10, <1>11

(* parse_rule's last step hands over the rule, complete or reported.       *)
LEMMA EndRuleKeeps ==
  ASSUME IInv, EndRule
  PROVE  IInv'
<1> USE DEF IInv
<1>1. PICK t \in NextTokens :
        /\ Read(t)
        /\ errors' = errors + ScanErrors(t) + RuleErrors(rule)
  BY DEF EndRule
<1>2. tok' \in Token /\ input' \in Seq(Token)
  BY <1>1, ReadKeepsTypes
<1>3. rule \in Rule /\ rules \in Seq(Rule) /\ rules' = Append(rules, rule)
  BY DEF EndRule, TypeOK
<1>4. RuleErrors(rule) \in Nat /\ (RuleErrors(rule) = 0 => rule.patterns # <<>>)
  BY DEF RuleErrors, Report
<1>5. errors' \in Nat /\ (errors' = 0 => errors = 0 /\ rule.patterns # <<>>)
  BY <1>1, <1>4, Reports, SMTT(30) DEF TypeOK
<1>6. TypeOK'
  BY <1>2, <1>3, <1>5 DEF EndRule, TypeOK
<1>7. RulesWellFormed'
  <2> SUFFICES ASSUME errors' = 0, NEW i \in DOMAIN rules'
               PROVE  RuleWellFormed(rules'[i])
    BY DEF RulesWellFormed, RuleWellFormed, PatternWellFormed
  <2>1. RuleWellFormed(rule)
    BY <1>5 DEF PatternsHaveCode, RuleWellFormed
  <2>2. i \in DOMAIN rules \/ i = Len(rules) + 1
    BY <1>3
  <2>3. CASE i \in DOMAIN rules
    <3>1. rules'[i] = rules[i]
      BY <1>3, <2>3
    <3> QED BY <1>5, <2>3, <3>1 DEF RulesWellFormed
  <2>4. CASE i = Len(rules) + 1
    <3>1. rules'[i] = rule
      BY <1>3, <2>4
    <3> QED BY <2>1, <3>1
  <2> QED BY <2>2, <2>3, <2>4
<1>8. PatternsHaveCode'
  BY DEF EndRule, NoRule, PatternsHaveCode
<1> QED BY <1>6, <1>7, <1>8

-----------------------------------------------------------------------------
(* Every step of parse_input keeps the invariant.                          *)
LEMMA StepIInv == IInv /\ [Next]_parserVars => IInv'
<1> SUFFICES ASSUME IInv, [Next]_parserVars PROVE IInv'
  OBVIOUS
<1> USE DEF IInv
<1>1. CASE UNCHANGED parserVars
  <2>1. TypeOK'
    BY <1>1 DEF parserVars, TypeOK
  <2> QED BY <1>1, <2>1, RulesUntouched DEF parserVars
<1>2. CASE CreateParser \/ SkipArgument
  <2>1. PICK t \in NextTokens : Read(t) /\ errors' = errors + ScanErrors(t)
    BY <1>2 DEF CreateParser, SkipArgument
  <2>2. tok' \in Token /\ input' \in Seq(Token)
    BY <2>1, ReadKeepsTypes
  <2>3. errors' \in Nat /\ (errors' = 0 => errors = 0)
    BY <2>1, Reports, SMTT(30) DEF TypeOK
  <2>4. TypeOK' /\ UNCHANGED <<rule, rules>>
    BY <1>2, <2>2, <2>3 DEF CreateParser, SkipArgument, TypeOK, pstate
  <2> QED BY <2>3, <2>4, RulesUntouched
<1>3. CASE BeginRule
  <2>1. TypeOK'
    BY <1>3, TokenTexts DEF BeginRule, AtTop, TypeOK, Rule, pstate
  <2>2. RulesWellFormed' /\ PatternsHaveCode'
    BY <1>3 DEF BeginRule, pstate, RulesWellFormed, RuleWellFormed,
                PatternWellFormed, PatternsHaveCode
  <2> QED BY <2>1, <2>2
<1>4. CASE BeginPattern
  <2>1. tok' \in Token /\ input' \in Seq(Token)
    BY <1>4, ReadKeepsTypes DEF BeginPattern
  <2>2. TypeOK' /\ UNCHANGED <<rule, rules, errors>>
    BY <1>4, <2>1 DEF BeginPattern, TypeOK, pstate
  <2> QED BY <2>2, RulesUntouched
<1>5. CASE AddElem
  <2>1. PICK t \in NextTokens :
          t.type = "SYMBOL" /\ Read(t) /\ elems' = ElemsWith(t.str)
    BY <1>5 DEF AddElem
  <2>2. tok' \in Token /\ input' \in Seq(Token) /\ t.str \in Symbols
    BY <2>1, ReadKeepsTypes, TokenTexts
  <2>3. elems' \in Seq(PatElem)
    BY <2>1, <2>2 DEF TypeOK, ElemsWith, NewElem, PatElem
  <2>4. TypeOK' /\ UNCHANGED <<rule, rules, errors>>
    BY <1>5, <2>2, <2>3 DEF AddElem, TypeOK, pstate
  <2> QED BY <2>4, RulesUntouched
<1>6. CASE EndPattern
  BY <1>6, EndPatternKeeps
<1>7. CASE EndRule
  BY <1>7, EndRuleKeeps
<1>8. CASE ParseVerbo \/ ParsePrefix \/ ParseName \/ ParseCode
  BY <1>8, ParseArgumentKeeps
<1>9. CASE Unexpected \/ Finish
  <2>1. TypeOK' /\ UNCHANGED <<rule, rules>> /\ (errors' = 0 => errors = 0)
    BY <1>9 DEF Unexpected, Finish, TypeOK, pstate
  <2> QED BY <2>1, RulesUntouched
<1>10. CASE ScannerStops
  <2>1. TypeOK' /\ UNCHANGED <<rule, rules>> /\ (errors' = 0 => errors = 0)
    BY <1>10 DEF ScannerStops, TypeOK, pstate
  <2> QED BY <2>1, RulesUntouched
<1>11. CASE Terminated
  BY <1>1, <1>11 DEF Terminated
<1> QED BY <1>1, <1>2, <1>3, <1>4, <1>5, <1>6, <1>7, <1>8, <1>9, <1>10, <1>11
        DEF Next, ParseStep, ReadStep, LocalStep

(* The inductive invariant holds for every input of every length.          *)
THEOREM Invariant == Spec => []IInv
<1>1. Init => IInv
  BY InitIInv
<1>2. IInv /\ [Next]_parserVars => IInv'
  BY StepIInv
<1> QED BY <1>1, <1>2, PTL DEF Spec

(* The Pstate stays well formed, whatever tokens the scanner delivers.     *)
THEOREM TypeCorrect == Spec => []TypeOK
<1>1. IInv => TypeOK
  BY DEF IInv
<1> QED BY <1>1, Invariant, PTL

(***************************************************************************)
(* Whatever the input, a rule list without errors has a pattern in every   *)
(* rule and a code block in every pattern: what pre_process and dump_state *)
(* take for granted of the lists they walk, except for the elements.       *)
(***************************************************************************)
THEOREM RulesAreWellFormed == Spec => []RulesWellFormed
<1>1. IInv => RulesWellFormed
  BY DEF IInv
<1> QED BY <1>1, Invariant, PTL

-----------------------------------------------------------------------------
(* A set of natural numbers has a least element.                           *)
LEMMA LeastNumber ==
  ASSUME NEW T, T \subseteq Nat, T # {}
  PROVE  \E x \in T : \A y \in 0 .. x - 1 : y \notin T
<1>1. PICK x \in T : \A y \in T : ~(<<y, x>> \in OpToRel(<, Nat))
  BY WFMin, NatLessThanWellFounded, Zenon
<1>2. \A y \in T : ~(y < x)
  BY <1>1 DEF OpToRel
<1> QED BY <1>2

(* What FlattenSeq of the community modules does with a sequence of        *)
(* sequences: f[i] is its first i members one after the other.             *)
IsFlat(f, s, n) ==
  f = [i \in 1 .. n |-> IF i = 1 THEN s[i] ELSE f[i - 1] \o s[i]]

(* The running concatenation of sequences over S is one over S.            *)
LEMMA FlatType ==
  ASSUME NEW S, NEW s \in Seq(Seq(S)), NEW n \in 0 .. Len(s), NEW f,
         IsFlat(f, s, n)
  PROVE  \A i \in 1 .. n : f[i] \in Seq(S)
<1> DEFINE T == {i \in Nat : i \in 1 .. n /\ f[i] \notin Seq(S)}
<1>1. SUFFICES ASSUME T # {} PROVE FALSE
  OBVIOUS
<1>2. PICK i \in T : \A j \in 0 .. i - 1 : j \notin T
  BY <1>1, LeastNumber
<1>3. i \in 1 .. n /\ n <= Len(s) /\ n \in Nat /\ s[i] \in Seq(S) /\ f[i] \notin Seq(S)
  OBVIOUS
<1>4. i = 1 \/ (i - 1 \in 1 .. n /\ f[i - 1] \in Seq(S))
  BY <1>2, <1>3
<1> HIDE DEF T
<1>5. f[i] = IF i = 1 THEN s[i] ELSE f[i - 1] \o s[i]
  BY <1>3 DEF IsFlat
<1>6. i # 1 => f[i - 1] \o s[i] \in Seq(S)
  BY <1>3, <1>4, ConcatProperties
<1> QED BY <1>3, <1>5, <1>6

(* There is a running concatenation, of a list of any length.              *)
LEMMA FlatExists ==
  ASSUME NEW S, NEW s \in Seq(Seq(S))
  PROVE  \E f : IsFlat(f, s, Len(s))
<1> SUFFICES ASSUME ~(\E f : IsFlat(f, s, Len(s))) PROVE FALSE
  OBVIOUS
<1> DEFINE T == {n \in Nat : n <= Len(s) /\ ~(\E f : IsFlat(f, s, n))}
<1>1. T # {}
  <2>1. Len(s) \in T
    OBVIOUS
  <2> QED BY <2>1
<1>2. PICK n \in T : \A m \in 0 .. n - 1 : m \notin T
  BY <1>1, LeastNumber
<1>3. n \in Nat /\ n <= Len(s) /\ ~(\E f : IsFlat(f, s, n))
  OBVIOUS
<1>4. n # 0
  <2> DEFINE g == [i \in 1 .. 0 |-> s[i]]
  <2>1. g = [i \in 1 .. 0 |-> IF i = 1 THEN s[i] ELSE g[i - 1] \o s[i]]
    OBVIOUS
  <2>2. IsFlat(g, s, 0)
    BY <2>1 DEF IsFlat
  <2> QED BY <1>3, <2>2
<1>5. n - 1 \in 0 .. n - 1 /\ n - 1 \in Nat /\ n - 1 <= Len(s)
  BY <1>3, <1>4
<1>6. PICK f : IsFlat(f, s, n - 1)
  BY <1>2, <1>5
<1> HIDE DEF T
<1> DEFINE g == [i \in 1 .. n |->
                   IF i < n THEN f[i] ELSE IF i = 1 THEN s[i] ELSE f[i - 1] \o s[i]]
<1>7. \A i \in 1 .. n : g[i] = IF i = 1 THEN s[i] ELSE g[i - 1] \o s[i]
  <2> SUFFICES ASSUME NEW i \in 1 .. n
               PROVE  g[i] = IF i = 1 THEN s[i] ELSE g[i - 1] \o s[i]
    OBVIOUS
  <2>1. i > 1 => i - 1 \in 1 .. n /\ i - 1 < n
    BY <1>3
  <2>2. i > 1 => g[i - 1] = f[i - 1]
    BY <2>1
  <2>3. i < n => i \in 1 .. n - 1 /\ n - 1 \in Nat
    BY <1>3
  <2>4. i < n => f[i] = IF i = 1 THEN s[i] ELSE f[i - 1] \o s[i]
    BY <1>6, <2>3 DEF IsFlat
  <2> QED BY <2>2, <2>4
<1>8. g = [i \in 1 .. n |-> IF i = 1 THEN s[i] ELSE g[i - 1] \o s[i]]
  <2>1. g = [i \in 1 .. n |-> g[i]]
    OBVIOUS
  <2> HIDE DEF g
  <2> QED BY <1>7, <2>1
<1>9. IsFlat(g, s, n)
  BY <1>8 DEF IsFlat
<1> QED BY <1>3, <1>9

(* FlattenSeq is the last value of such a function.                        *)
LEMMA FlattenIs ==
  ASSUME NEW S, NEW s \in Seq(Seq(S))
  PROVE  /\ FlattenSeq(s) \in Seq(S)
         /\ Len(s) = 0 => FlattenSeq(s) = <<>>
         /\ Len(s) # 0 => \E f : IsFlat(f, s, Len(s)) /\ FlattenSeq(s) = f[Len(s)]
<1>1. CASE Len(s) = 0
  <2>1. s = <<>> /\ FlattenSeq(s) = s
    BY <1>1 DEF FlattenSeq
  <2>2. <<>> \in Seq(S)
    OBVIOUS
  <2>3. FlattenSeq(s) = <<>>
    BY <2>1
  <2> QED BY <1>1, <2>2, <2>3
<1>2. CASE Len(s) # 0
  <2> DEFINE F == CHOOSE f : f = [i \in 1 .. Len(s) |->
                                    IF i = 1 THEN s[i] ELSE f[i - 1] \o s[i]]
  <2>1. FlattenSeq(s) = F[Len(s)]
    BY <1>2 DEF FlattenSeq
  <2>2. F = CHOOSE f : IsFlat(f, s, Len(s))
    BY DEF IsFlat
  <2> HIDE DEF F
  <2>3. IsFlat(F, s, Len(s))
    BY <2>2, FlatExists
  <2>4. Len(s) \in 0 .. Len(s) /\ Len(s) \in 1 .. Len(s)
    BY <1>2
  <2>5. F[Len(s)] \in Seq(S)
    BY <2>3, <2>4, FlatType
  <2> QED BY <1>2, <2>1, <2>3, <2>5
<1> QED BY <1>1, <1>2

(* The last member comes last.                                            *)
LEMMA FlattenAppend ==
  ASSUME NEW S, NEW s \in Seq(Seq(S)), NEW x \in Seq(S)
  PROVE  FlattenSeq(Append(s, x)) = FlattenSeq(s) \o x
<1> DEFINE t == Append(s, x)
           n == Len(s)
<1>1. /\ t \in Seq(Seq(S)) /\ Len(t) = n + 1 /\ t[n + 1] = x /\ n \in Nat
      /\ \A i \in 1 .. n : i \in 1 .. Len(t) /\ t[i] = s[i]
  OBVIOUS
<1> HIDE DEF t
<1>2. PICK f : IsFlat(f, t, n + 1) /\ FlattenSeq(t) = f[n + 1]
  <2>1. Len(t) # 0
    BY <1>1
  <2> QED BY <1>1, <2>1, FlattenIs
<1>3. CASE n = 0
  <2>1. FlattenSeq(s) = <<>>
    BY <1>3, FlattenIs
  <2>2. f[1] = t[1]
    <3>1. 1 \in 1 .. n + 1
      BY <1>1
    <3> QED BY <1>2, <3>1 DEF IsFlat
  <2>3. FlattenSeq(t) = x
    BY <1>1, <1>2, <1>3, <2>2
  <2> QED BY <2>1, <2>3 DEF t
<1>4. CASE n # 0
  <2>1. PICK g : IsFlat(g, s, n) /\ FlattenSeq(s) = g[n]
    BY <1>4, FlattenIs
  <2> DEFINE T == {i \in Nat : i \in 1 .. n /\ f[i] # g[i]}
  <2>2. T = {}
    <3>1. SUFFICES ASSUME T # {} PROVE FALSE
      OBVIOUS
    <3>2. PICK i \in T : \A j \in 0 .. i - 1 : j \notin T
      BY <3>1, LeastNumber
    <3>3. i \in 1 .. n /\ f[i] # g[i] /\ i \in 1 .. n + 1
      BY <1>1
    <3>4. i # 1 => f[i - 1] = g[i - 1]
      <4>1. i # 1 => i - 1 \in 0 .. i - 1 /\ i - 1 \in 1 .. n
        BY <3>3
      <4>2. \A j \in 1 .. n : j \notin T => f[j] = g[j]
        OBVIOUS
      <4> HIDE DEF T
      <4> QED BY <3>2, <4>1, <4>2
    <3> HIDE DEF T
    <3>5. f[i] = IF i = 1 THEN t[i] ELSE f[i - 1] \o t[i]
      BY <1>2, <3>3 DEF IsFlat
    <3>6. g[i] = IF i = 1 THEN s[i] ELSE g[i - 1] \o s[i]
      BY <2>1, <3>3 DEF IsFlat
    <3> QED BY <1>1, <3>3, <3>4, <3>5, <3>6
  <2>3. f[n] = g[n]
    <3>1. n \in 1 .. n
      BY <1>1, <1>4
    <3>2. \A i \in 1 .. n : i \notin T => f[i] = g[i]
      OBVIOUS
    <3> HIDE DEF T
    <3> QED BY <2>2, <3>1, <3>2
  <2>4. f[n + 1] = f[n] \o t[n + 1]
    <3>1. n + 1 \in 1 .. n + 1 /\ n + 1 # 1 /\ (n + 1) - 1 = n
      BY <1>1, <1>4
    <3>2. f[n + 1] = IF n + 1 = 1 THEN t[n + 1] ELSE f[(n + 1) - 1] \o t[n + 1]
      BY <1>2, <3>1 DEF IsFlat
    <3> QED BY <3>1, <3>2
  <2> QED BY <1>1, <1>2, <2>1, <2>3, <2>4 DEF t
<1> QED BY <1>3, <1>4

-----------------------------------------------------------------------------
(* The tokens that unparsing gives: a block may be missing.               *)
AnyToken == Token \cup [type : {"BLOCK"}, str : {NullText}]

(* The members of a sequence that got one more.                            *)
LEMMA AppendMembers ==
  ASSUME NEW S, NEW s \in Seq(S), NEW x \in S
  PROVE  /\ Len(s) \in Nat /\ DOMAIN s = 1 .. Len(s)
         /\ DOMAIN Append(s, x) = 1 .. Len(s) + 1
         /\ \A i \in 1 .. Len(s) : Append(s, x)[i] = s[i] /\ s[i] \in S
         /\ Append(s, x)[Len(s) + 1] = x
         /\ Append(s, x) \in [1 .. Len(s) + 1 -> S]
<1>1. Len(s) \in Nat /\ DOMAIN s = 1 .. Len(s)
  OBVIOUS
<1>2. Append(s, x) \in Seq(S) /\ Len(Append(s, x)) = Len(s) + 1
  OBVIOUS
<1>3. \A i \in 1 .. Len(s) : Append(s, x)[i] = s[i] /\ s[i] \in S
  OBVIOUS
<1>4. Append(s, x)[Len(s) + 1] = x
  OBVIOUS
<1>5. /\ DOMAIN Append(s, x) = 1 .. Len(s) + 1
      /\ Append(s, x) \in [1 .. Len(s) + 1 -> S]
  <2>1. ASSUME NEW q \in Seq(S) PROVE q \in [1 .. Len(q) -> S]
    OBVIOUS
  <2>2. Append(s, x) \in [1 .. Len(Append(s, x)) -> S]
    BY <1>2, <2>1
  <2>3. Append(s, x) \in [1 .. Len(s) + 1 -> S]
    BY <1>2, <2>2, Zenon
  <2> QED BY <2>3
<1> QED BY <1>1, <1>3, <1>4, <1>5

(* What is mapped piece by piece and put together gains, when a member is  *)
(* added, the piece of that member.                                        *)
LEMMA FlattenPieces ==
  ASSUME NEW S, NEW n \in Nat, NEW f \in [1 .. n -> Seq(S)],
         NEW g \in [1 .. n + 1 -> Seq(S)], \A i \in 1 .. n : g[i] = f[i]
  PROVE  /\ FlattenSeq(f) \in Seq(S)
         /\ FlattenSeq(g) = FlattenSeq(f) \o g[n + 1]
<1>1. f \in Seq(Seq(S)) /\ Len(f) = n
  OBVIOUS
<1>2. g \in Seq(Seq(S)) /\ Len(g) = n + 1 /\ g[n + 1] \in Seq(S)
  OBVIOUS
<1>3. g = Append(f, g[n + 1])
  BY <1>1, <1>2
<1>4. FlattenSeq(Append(f, g[n + 1])) = FlattenSeq(f) \o g[n + 1]
  BY <1>1, <1>2, FlattenAppend
<1> QED BY <1>1, <1>3, <1>4, FlattenIs

(* The rule tokens of an input that is read one token further: the token   *)
(* is one of them unless it is a directive or the argument of one.         *)
PassedOver(s, t) ==
  t.type \in DirectiveTypes \/ (s # <<>> /\ Last(s).type \in DirectiveTypes)

(* One more token is one more token of rules, or is passed over.           *)
LEMMA RuleTokensAppend ==
  ASSUME NEW s \in Seq(Token), NEW t \in Token
  PROVE  /\ RuleTokens(s) \in Seq(AnyToken)
         /\ RuleTokens(Append(s, t)) =
              RuleTokens(s) \o (IF PassedOver(s, t) THEN <<>> ELSE <<t>>)
<1> DEFINE r == Append(s, t)
           n == Len(s)
           Piece(u, i) == IF InDirective(u, i) THEN <<>> ELSE <<u[i]>>
           f == [i \in 1 .. n |-> Piece(s, i)]
           g == [i \in 1 .. n + 1 |-> Piece(r, i)]
<1>1. /\ n \in Nat /\ DOMAIN s = 1 .. n /\ DOMAIN r = 1 .. n + 1
      /\ r[n + 1] = t
      /\ \A i \in 1 .. n : r[i] = s[i] /\ s[i] \in Token
  OBVIOUS
<1>2. f \in [1 .. n -> Seq(AnyToken)] /\ g \in [1 .. n + 1 -> Seq(AnyToken)]
  <2>1. \A i \in 1 .. n : s[i] \in AnyToken
    BY <1>1 DEF AnyToken
  <2>2. \A i \in 1 .. n + 1 : r[i] \in AnyToken
    BY <1>1 DEF AnyToken
  <2> HIDE DEF r, n
  <2> QED BY <2>1, <2>2
<1>3. \A i \in 1 .. n : g[i] = f[i]
  <2> SUFFICES ASSUME NEW i \in 1 .. n PROVE g[i] = f[i]
    OBVIOUS
  <2>1. i \in 1 .. n + 1 /\ (i > 1 => i - 1 \in 1 .. n)
    BY <1>1
  <2>2. InDirective(r, i) <=> InDirective(s, i)
    BY <1>1, <2>1 DEF InDirective
  <2>3. r[i] = s[i]
    BY <1>1
  <2> HIDE DEF r, n
  <2> QED BY <2>1, <2>2, <2>3
<1>4. g[n + 1] = IF PassedOver(s, t) THEN <<>> ELSE <<t>>
  <2>1. n + 1 \in 1 .. n + 1 /\ (n + 1 > 1 <=> s # <<>>) /\ (n + 1) - 1 = n
    BY <1>1
  <2>5. s # <<>> => n \in 1 .. n
    BY <1>1
  <2>2. s # <<>> => r[n] = Last(s)
    BY <1>1, <2>5 DEF Last
  <2>3. InDirective(r, n + 1) <=> PassedOver(s, t)
    BY <1>1, <2>1, <2>2 DEF InDirective, PassedOver
  <2>4. g[n + 1] = Piece(r, n + 1)
    BY <2>1
  <2> QED BY <1>1, <2>3, <2>4
<1>5. RuleTokens(s) = FlattenSeq(f) /\ RuleTokens(r) = FlattenSeq(g)
  BY <1>1 DEF RuleTokens
<1> HIDE DEF f, g
<1> HIDE DEF r, n
<1>6. /\ FlattenSeq(f) \in Seq(AnyToken)
      /\ FlattenSeq(g) = FlattenSeq(f) \o g[n + 1]
  BY <1>1, <1>2, <1>3, FlattenPieces
<1> QED BY <1>4, <1>5, <1>6 DEF r

(* A directive's arguments in an input that is read one token further: the *)
(* token is one when the directive is right before it.                     *)
LEMMA ArgumentsAppend ==
  ASSUME NEW s \in Seq(Token), NEW t \in Token, NEW type, NEW S, t.str \in S,
         \A i \in DOMAIN s : s[i].str \in S
  PROVE  /\ ArgumentsOf(s, type) \in Seq(S)
         /\ ArgumentsOf(Append(s, t), type) =
              ArgumentsOf(s, type) \o
                (IF s # <<>> /\ Last(s).type = type THEN <<t.str>> ELSE <<>>)
<1> DEFINE r == Append(s, t)
           n == Len(s)
           Piece(u, i) == IF i > 1 /\ u[i - 1].type = type
                          THEN <<u[i].str>> ELSE <<>>
           f == [i \in 1 .. n |-> Piece(s, i)]
           g == [i \in 1 .. n + 1 |-> Piece(r, i)]
<1>1. /\ n \in Nat /\ DOMAIN s = 1 .. n /\ DOMAIN r = 1 .. n + 1
      /\ r[n + 1] = t
      /\ \A i \in 1 .. n : r[i] = s[i] /\ s[i] \in Token
  OBVIOUS
<1>2. f \in [1 .. n -> Seq(S)] /\ g \in [1 .. n + 1 -> Seq(S)]
  <2>1. \A i \in 1 .. n : s[i].str \in S
    BY <1>1
  <2>2. \A i \in 1 .. n + 1 : r[i].str \in S
    BY <1>1, <2>1
  <2> HIDE DEF r, n
  <2> QED BY <2>1, <2>2
<1>3. \A i \in 1 .. n : g[i] = f[i]
  <2> SUFFICES ASSUME NEW i \in 1 .. n PROVE g[i] = f[i]
    OBVIOUS
  <2>1. i \in 1 .. n + 1 /\ (i > 1 => i - 1 \in 1 .. n)
    BY <1>1
  <2>2. r[i] = s[i] /\ (i > 1 => r[i - 1] = s[i - 1])
    BY <1>1, <2>1
  <2> HIDE DEF r, n
  <2> QED BY <2>1, <2>2
<1>4. g[n + 1] = IF s # <<>> /\ Last(s).type = type THEN <<t.str>> ELSE <<>>
  <2>1. n + 1 \in 1 .. n + 1 /\ (n + 1 > 1 <=> s # <<>>) /\ (n + 1) - 1 = n
    BY <1>1
  <2>2. s # <<>> => n \in 1 .. n
    BY <1>1
  <2>3. s # <<>> => r[n] = Last(s)
    BY <1>1, <2>2 DEF Last
  <2>4. g[n + 1] = Piece(r, n + 1)
    BY <2>1
  <2> HIDE DEF r, n
  <2> QED BY <1>1, <2>1, <2>3, <2>4
<1>5. ArgumentsOf(s, type) = FlattenSeq(f) /\ ArgumentsOf(r, type) = FlattenSeq(g)
  BY <1>1 DEF ArgumentsOf
<1> HIDE DEF f, g
<1> HIDE DEF r, n
<1>6. /\ FlattenSeq(f) \in Seq(S)
      /\ FlattenSeq(g) = FlattenSeq(f) \o g[n + 1]
  BY <1>1, <1>2, <1>3, FlattenPieces
<1> QED BY <1>4, <1>5, <1>6 DEF r

(* Nothing was read: there are no rule tokens and no arguments.            *)
LEMMA NothingRead ==
  RuleTokens(<<>>) = <<>> /\ \A type : ArgumentsOf(<<>>, type) = <<>>
<1>1. FlattenSeq(<<>>) = <<>>
  BY DEF FlattenSeq
<1>2. \A e \in [{} -> {}] : e = <<>>
  OBVIOUS
<1> QED BY <1>1, <1>2 DEF RuleTokens, ArgumentsOf

-----------------------------------------------------------------------------
(* The tokens of a pattern that is still without its code.                 *)
OpenPattern(es) ==
  <<Colon>> \o [e \in DOMAIN es |-> [type |-> "SYMBOL", str |-> es[e].str]]

(* add_pattern_elem appends one symbol to the unfinished pattern.          *)
LEMMA OpenPatternAppend ==
  /\ OpenPattern(<<>>) = <<Colon>>
  /\ \A es \in Seq(PatElem), s \in Symbols :
       /\ OpenPattern(es) \in Seq(Token)
       /\ OpenPattern(Append(es, NewElem(s))) =
            OpenPattern(es) \o <<[type |-> "SYMBOL", str |-> s]>>
<1>1. OpenPattern(<<>>) = <<Colon>>
  BY DEF OpenPattern
<1>2. ASSUME NEW es \in Seq(PatElem), NEW s \in Symbols
      PROVE  /\ OpenPattern(es) \in Seq(Token)
             /\ OpenPattern(Append(es, NewElem(s))) =
                  OpenPattern(es) \o <<[type |-> "SYMBOL", str |-> s]>>
  <2> DEFINE x == [type |-> "SYMBOL", str |-> s]
             fs == Append(es, NewElem(s))
             f == [e \in DOMAIN es |-> [type |-> "SYMBOL", str |-> es[e].str]]
             g == [e \in DOMAIN fs |-> [type |-> "SYMBOL", str |-> fs[e].str]]
             n == Len(es)
  <2>1. /\ DOMAIN es = 1 .. n /\ n \in Nat /\ NewElem(s) \in PatElem
        /\ NewElem(s).str = s
    BY DEF NewElem, PatElem
  <2>2. /\ DOMAIN fs = 1 .. n + 1
        /\ \A i \in 1 .. n : fs[i] = es[i] /\ es[i].str \in Symbols
        /\ fs[n + 1] = NewElem(s)
    <3>1. \A e \in PatElem : e.str \in Symbols
      BY DEF PatElem
    <3> QED BY <2>1, <3>1, AppendMembers
  <2>3. f \in Seq(Token) /\ Len(f) = n
    <3>1. \A i \in 1 .. n : [type |-> "SYMBOL", str |-> es[i].str] \in Token
      BY <2>2 DEF Token
    <3> QED BY <2>1, <3>1
  <2> HIDE DEF fs
  <2>4. g = Append(f, x)
    <3>1. x \in Token /\ \A i \in 1 .. n : g[i] = f[i]
      BY <2>1, <2>2 DEF Token
    <3>2. \A i \in 1 .. n + 1 : fs[i].str \in Symbols
      BY <2>1, <2>2
    <3>3. g \in [1 .. n + 1 -> Token] /\ g[n + 1] = x
      BY <2>1, <2>2, <3>2 DEF Token
    <3> HIDE DEF f, g, x, n
    <3>4. g \in Seq(Token) /\ Len(g) = n + 1
      BY <2>1, <3>3
    <3> QED BY <2>1, <2>3, <3>1, <3>3, <3>4
  <2>5. x \in Token /\ Colon \in Token
    BY DEF Token
  <2>6. OpenPattern(es) = <<Colon>> \o f /\ OpenPattern(fs) = <<Colon>> \o g
    BY DEF OpenPattern
  <2> HIDE DEF f, g, x
  <2> QED BY <2>3, <2>4, <2>5, <2>6 DEF x, fs
<1> QED BY <1>1, <1>2

(* The tokens of an unfinished pattern, as tokens that may lack a text.     *)
LEMMA OpenPatternIs ==
  ASSUME NEW es \in Seq(PatElem)
  PROVE  OpenPattern(es) \in Seq(AnyToken)
<1> DEFINE f == [e \in DOMAIN es |-> [type |-> "SYMBOL", str |-> es[e].str]]
<1>1. f \in Seq(AnyToken)
  <2>1. \A e \in PatElem : e.str \in Symbols
    BY DEF PatElem
  <2>2. \A i \in DOMAIN es : es[i].str \in Symbols
    BY <2>1
  <2>3. \A i \in DOMAIN es : [type |-> "SYMBOL", str |-> es[i].str] \in AnyToken
    BY <2>2 DEF AnyToken, Token
  <2>4. DOMAIN es = 1 .. Len(es) /\ Len(es) \in Nat
    OBVIOUS
  <2> QED BY <2>3, <2>4
<1>2. Colon \in AnyToken
  BY DEF AnyToken, Token
<1>3. OpenPattern(es) = <<Colon>> \o f
  BY DEF OpenPattern
<1> HIDE DEF f
<1> QED BY <1>1, <1>2, <1>3

(* How four parts are put together.                                        *)
LEMMA ConcatFour ==
  ASSUME NEW w \in Seq(AnyToken), NEW x \in Seq(AnyToken),
         NEW y \in Seq(AnyToken), NEW z \in Seq(AnyToken)
  PROVE  /\ w \o (x \o (y \o z)) = (w \o (x \o y)) \o z
         /\ w \o (x \o z) = (w \o x) \o z
<1> DEFINE v == x \o y
<1>1. v \o z = x \o (y \o z)
  BY ConcatAssociative, SMTT(30)
<1>2. (w \o x) \o z = w \o (x \o z)
  BY ConcatAssociative, SMTT(30)
<1>3. v \in Seq(AnyToken)
  OBVIOUS
<1>4. w \o (x \o y) = w \o v
  OBVIOUS
<1> HIDE DEF v
<1>5. ASSUME NEW a \in Seq(AnyToken) PROVE (w \o a) \o z = w \o (a \o z)
  BY ConcatAssociative, SMTT(30)
<1>6. (w \o v) \o z = w \o (v \o z)
  BY <1>3, <1>5
<1> QED BY <1>1, <1>2, <1>4, <1>6

(* A rule that gets one more pattern, and a list that gets one more rule.  *)
LEMMA PatternTokensAre ==
  ASSUME NEW p \in Pattern
  PROVE  /\ PatternTokens(p) =
              OpenPattern(p.elems) \o <<[type |-> "BLOCK", str |-> p.code]>>
         /\ PatternTokens(p) \in Seq(AnyToken)
<1>1. p.elems \in Seq(PatElem) /\ p.code \in Blocks \cup {NullText}
  BY DEF Pattern
<1>2. [type |-> "BLOCK", str |-> p.code] \in AnyToken
  BY <1>1 DEF AnyToken, Token
<1>3. OpenPattern(p.elems) \in Seq(AnyToken)
  BY <1>1, OpenPatternIs
<1>4. PatternTokens(p) =
        OpenPattern(p.elems) \o <<[type |-> "BLOCK", str |-> p.code]>>
  BY DEF PatternTokens, OpenPattern
<1> QED BY <1>2, <1>3, <1>4

(* The tokens of a rule that gets one more pattern.                        *)
LEMMA RuleAsTokensAppend ==
  ASSUME NEW r \in Rule, NEW p \in Pattern
  PROVE  /\ RuleAsTokens(r) \in Seq(AnyToken)
         /\ RuleAsTokens([r EXCEPT !.patterns = Append(r.patterns, p)]) =
              RuleAsTokens(r) \o PatternTokens(p)
<1> DEFINE q == [r EXCEPT !.patterns = Append(r.patterns, p)]
           n == Len(r.patterns)
           f == [i \in 1 .. n |-> PatternTokens(r.patterns[i])]
           g == [i \in 1 .. n + 1 |-> PatternTokens(q.patterns[i])]
<1>1. /\ r.patterns \in Seq(Pattern) /\ r.name \in Symbols
      /\ q.patterns = Append(r.patterns, p) /\ q.name = r.name
  BY DEF Rule
<1>2. /\ n \in Nat /\ DOMAIN r.patterns = 1 .. n /\ DOMAIN q.patterns = 1 .. n + 1
      /\ \A i \in 1 .. n : q.patterns[i] = r.patterns[i] /\ r.patterns[i] \in Pattern
      /\ q.patterns[n + 1] = p
      /\ \A i \in 1 .. n + 1 : q.patterns[i] \in Pattern
  BY <1>1
<1> DEFINE x == [type |-> "SYMBOL", str |-> r.name]
<1>3. /\ RuleAsTokens(r) = <<x>> \o FlattenSeq(f)
      /\ RuleAsTokens(q) = <<x>> \o FlattenSeq(g)
  BY <1>1, <1>2 DEF RuleAsTokens
<1> HIDE DEF q, n
<1>4. f \in [1 .. n -> Seq(AnyToken)] /\ g \in [1 .. n + 1 -> Seq(AnyToken)]
  BY <1>2, PatternTokensAre
<1>5. (\A i \in 1 .. n : g[i] = f[i]) /\ g[n + 1] = PatternTokens(p)
  BY <1>2
<1> HIDE DEF f, g
<1>6. /\ FlattenSeq(f) \in Seq(AnyToken)
      /\ FlattenSeq(g) = FlattenSeq(f) \o PatternTokens(p)
  <2>1. n \in Nat
    BY <1>2
  <2> QED BY <2>1, <1>4, <1>5, FlattenPieces, ZenonT(30)
<1>7. x \in AnyToken /\ PatternTokens(p) \in Seq(AnyToken)
  BY <1>1, PatternTokensAre DEF AnyToken, Token
<1> HIDE DEF x
<1>8. RuleAsTokens(r) \in Seq(AnyToken) /\ RuleAsTokens(q) =
        RuleAsTokens(r) \o PatternTokens(p)
  BY <1>3, <1>6, <1>7
<1> QED BY <1>8 DEF q

(* A rule is written with tokens.                                          *)
LEMMA RulesAreTokens ==
  ASSUME NEW r \in Rule
  PROVE  RuleAsTokens(r) \in Seq(AnyToken)
<1> DEFINE f == [i \in DOMAIN r.patterns |-> PatternTokens(r.patterns[i])]
           x == [type |-> "SYMBOL", str |-> r.name]
<1>1. r.patterns \in Seq(Pattern) /\ x \in AnyToken
  BY DEF Rule, AnyToken, Token
<1>2. f \in Seq(Seq(AnyToken))
  <2>1. \A p \in Pattern : PatternTokens(p) \in Seq(AnyToken)
    BY PatternTokensAre
  <2> QED BY <1>1, <2>1
<1>3. RuleAsTokens(r) = <<x>> \o FlattenSeq(f)
  BY DEF RuleAsTokens
<1> HIDE DEF f, x
<1> QED BY <1>1, <1>2, <1>3, FlattenIs

(* A list of rules is written with tokens.                                 *)
LEMMA UnparseIs ==
  ASSUME NEW rs \in Seq(Rule)
  PROVE  Unparse(rs) \in Seq(AnyToken)
<1> DEFINE f == [i \in DOMAIN rs |-> RuleAsTokens(rs[i])]
<1>1. f \in Seq(Seq(AnyToken))
  <2>1. \A q \in Rule : RuleAsTokens(q) \in Seq(AnyToken)
    BY RulesAreTokens
  <2>2. DOMAIN rs = 1 .. Len(rs) /\ Len(rs) \in Nat
    OBVIOUS
  <2>3. f \in [1 .. Len(rs) -> Seq(AnyToken)]
    BY <2>1, <2>2
  <2> QED BY <2>2, <2>3
<1>2. Unparse(rs) = FlattenSeq(f)
  BY DEF Unparse
<1> HIDE DEF f
<1> QED BY <1>1, <1>2, FlattenIs

(* The tokens of a list that gets one more rule.                           *)
LEMMA UnparseAppend ==
  ASSUME NEW rs \in Seq(Rule), NEW r \in Rule
  PROVE  /\ Unparse(rs) \in Seq(AnyToken)
         /\ Unparse(Append(rs, r)) = Unparse(rs) \o RuleAsTokens(r)
<1> DEFINE n == Len(rs)
           qs == Append(rs, r)
           f == [i \in 1 .. n |-> RuleAsTokens(rs[i])]
           g == [i \in 1 .. n + 1 |-> RuleAsTokens(qs[i])]
<1>1. /\ n \in Nat /\ DOMAIN rs = 1 .. n /\ DOMAIN qs = 1 .. n + 1
      /\ \A i \in 1 .. n : qs[i] = rs[i] /\ rs[i] \in Rule
      /\ qs[n + 1] = r
      /\ \A i \in 1 .. n + 1 : qs[i] \in Rule
  OBVIOUS
<1>2. Unparse(rs) = FlattenSeq(f) /\ Unparse(qs) = FlattenSeq(g)
  BY <1>1 DEF Unparse
<1> HIDE DEF n, qs
<1>3. f \in [1 .. n -> Seq(AnyToken)] /\ g \in [1 .. n + 1 -> Seq(AnyToken)]
  <2>1. \A q \in Rule : RuleAsTokens(q) \in Seq(AnyToken)
    BY RulesAreTokens
  <2> QED BY <1>1, <2>1
<1>4. (\A i \in 1 .. n : g[i] = f[i]) /\ g[n + 1] = RuleAsTokens(r)
  BY <1>1
<1> HIDE DEF f, g
<1>5. /\ FlattenSeq(f) \in Seq(AnyToken)
      /\ FlattenSeq(g) = FlattenSeq(f) \o g[n + 1]
  BY <1>1, <1>3, <1>4, FlattenPieces
<1> QED BY <1>2, <1>4, <1>5 DEF qs

-----------------------------------------------------------------------------
(* The first and the last part of a sequence.                              *)
LEMMA FrontLast ==
  ASSUME NEW s \in Seq(Token), NEW t \in Token
  PROVE  /\ Append(s, t) \in Seq(Token) /\ Append(s, t) # <<>>
         /\ Last(Append(s, t)) = t /\ Front(Append(s, t)) = s
         /\ s # <<>> => /\ Front(s) \in Seq(Token) /\ Last(s) \in Token
                        /\ s = Append(Front(s), Last(s))
<1>1. /\ Append(s, t) \in Seq(Token) /\ Append(s, t) # <<>>
      /\ Last(Append(s, t)) = t
  BY DEF Last
<1>2. Front(Append(s, t)) = s
  <2>1. /\ Len(Append(s, t)) = Len(s) + 1 /\ Len(s) \in Nat
        /\ (Len(s) + 1) - 1 = Len(s)
    OBVIOUS
  <2>2. SubSeq(Append(s, t), 1, Len(s)) = s
    OBVIOUS
  <2> QED BY <2>1, <2>2 DEF Front
<1>3. ASSUME s # <<>>
      PROVE  /\ Front(s) \in Seq(Token) /\ Last(s) \in Token
             /\ s = Append(Front(s), Last(s))
  <2> DEFINE n == Len(s)
  <2>1. n \in Nat \ {0} /\ n \in DOMAIN s /\ \A i \in 1 .. n : s[i] \in Token
    BY <1>3
  <2>2. Last(s) \in Token
    BY <2>1 DEF Last
  <2>3. /\ Front(s) \in Seq(Token) /\ Len(Front(s)) = n - 1
        /\ \A i \in 1 .. n - 1 : Front(s)[i] = s[i]
    <3>1. \A i \in 1 .. n - 1 : s[i] \in Token
      BY <2>1
    <3> DEFINE m == n - 1
    <3>2. 1 \in Int /\ m \in Nat /\ n - 1 = m /\ \A i \in 1 .. m : s[i] \in Token
      BY <2>1, <3>1
    <3> HIDE DEF m, n
    <3>4. /\ SubSeq(s, 1, m) \in Seq(Token)
          /\ Len(SubSeq(s, 1, m)) = IF 1 <= m THEN m - 1 + 1 ELSE 0
          /\ \A i \in 1 .. m - 1 + 1 : SubSeq(s, 1, m)[i] = s[1 + i - 1]
      BY <3>2, SubSeqProperties
    <3>5. /\ Len(SubSeq(s, 1, m)) = m
          /\ \A i \in 1 .. m : SubSeq(s, 1, m)[i] = s[i]
      BY <3>2, <3>4
    <3>3. /\ SubSeq(s, 1, n - 1) \in Seq(Token)
          /\ Len(SubSeq(s, 1, n - 1)) = n - 1
          /\ \A i \in 1 .. n - 1 : SubSeq(s, 1, n - 1)[i] = s[i]
      BY <3>2, <3>4, <3>5
    <3> QED BY <3>3 DEF Front, n
  <2>4. s = Append(Front(s), Last(s))
    BY <2>1, <2>2, <2>3 DEF Last
  <2> QED BY <2>2, <2>3, <2>4
<1> QED BY <1>1, <1>2, <1>3

(* The settings v, n, p and c are those of the input s.                    *)
VerboOf(v, n) ==
  /\ v \in -(IntMax + 1) .. IntMax
  /\ \E w \in {NumeralValue[n], LongMax} :
       w <= LongMax /\ w <= NumeralValue[n] /\ (w - v) % (2 * IntMax + 2) = 0

SettingsOf(s, v, n, p, c) ==
  /\ n = LastOr(ArgumentsOf(s, "NAME"), NoText)
  /\ p = LastOr(ArgumentsOf(s, "PREFIX"), NoText)
  /\ c = ArgumentsOf(s, "CODE")
  /\ IF ArgumentsOf(s, "VERBOSITY") = <<>> THEN v = 5
     ELSE VerboOf(v, Last(ArgumentsOf(s, "VERBOSITY")))

(* What SettingsOf says of the whole input is the property.                *)
LEMMA SettingsAre ==
  SettingsOf(input, verbo, name, prefix, code) => SettingsMatchInput
BY DEF SettingsOf, SettingsMatchInput, VerboOf, VerboFrom

(* The arguments of the directives that t does not follow stay; those of   *)
(* the directive that it follows get one more.                             *)
LEMMA ArgumentsGrow ==
  ASSUME NEW s \in Seq(Token), NEW t \in Token, NEW type
  PROVE  /\ (s = <<>> \/ Last(s).type # type) =>
              ArgumentsOf(Append(s, t), type) = ArgumentsOf(s, type)
         /\ (s # <<>> /\ Last(s).type = type) =>
              /\ ArgumentsOf(Append(s, t), type) =
                   Append(ArgumentsOf(s, type), t.str)
              /\ ArgumentsOf(Append(s, t), type) # <<>>
              /\ Last(ArgumentsOf(Append(s, t), type)) = t.str
<1> DEFINE S == {u.str : u \in Token}
           a == ArgumentsOf(s, type)
           b == ArgumentsOf(Append(s, t), type)
<1>1. t.str \in S /\ \A i \in DOMAIN s : s[i].str \in S
  OBVIOUS
<1> HIDE DEF S
<1>2. /\ a \in Seq(S)
      /\ b = a \o (IF s # <<>> /\ Last(s).type = type THEN <<t.str>> ELSE <<>>)
  BY <1>1, ArgumentsAppend
<1> HIDE DEF a, b
<1>3. (s = <<>> \/ Last(s).type # type) => b = a
  BY <1>2
<1>4. (s # <<>> /\ Last(s).type = type) =>
        b = Append(a, t.str) /\ b # <<>> /\ Last(b) = t.str
  BY <1>1, <1>2 DEF Last
<1> QED BY <1>3, <1>4 DEF a, b

(* A token that follows no directive leaves the settings as they are.      *)
LEMMA SettingsPass ==
  ASSUME NEW s \in Seq(Token), NEW t \in Token,
         s = <<>> \/ Last(s).type \notin DirectiveTypes,
         NEW v, NEW n, NEW p, NEW c, SettingsOf(s, v, n, p, c)
  PROVE  SettingsOf(Append(s, t), v, n, p, c)
<1>1. /\ ArgumentsOf(Append(s, t), "NAME") = ArgumentsOf(s, "NAME")
      /\ ArgumentsOf(Append(s, t), "PREFIX") = ArgumentsOf(s, "PREFIX")
      /\ ArgumentsOf(Append(s, t), "CODE") = ArgumentsOf(s, "CODE")
      /\ ArgumentsOf(Append(s, t), "VERBOSITY") = ArgumentsOf(s, "VERBOSITY")
  BY ArgumentsGrow DEF DirectiveTypes
<1> QED BY <1>1 DEF SettingsOf

(* A token that follows a directive is its argument, and sets it.          *)
LEMMA SettingsTake ==
  ASSUME NEW s \in Seq(Token), NEW t \in Token, s # <<>>,
         NEW v, NEW n, NEW p, NEW c, SettingsOf(s, v, n, p, c)
  PROVE  /\ Last(s).type = "NAME" => SettingsOf(Append(s, t), v, t.str, p, c)
         /\ Last(s).type = "PREFIX" => SettingsOf(Append(s, t), v, n, t.str, c)
         /\ Last(s).type = "CODE" =>
              SettingsOf(Append(s, t), v, n, p, Append(c, t.str))
         /\ Last(s).type = "VERBOSITY" => \A w : VerboOf(w, t.str) =>
              SettingsOf(Append(s, t), w, n, p, c)
<1> DEFINE A(type) == ArgumentsOf(s, type)
           B(type) == ArgumentsOf(Append(s, t), type)
<1>1. \A type : Last(s).type # type => B(type) = A(type)
  BY ArgumentsGrow
<1>2. \A type : Last(s).type = type =>
        B(type) = Append(A(type), t.str) /\ B(type) # <<>> /\ Last(B(type)) = t.str
  BY ArgumentsGrow
<1>3. CASE Last(s).type = "NAME"
  BY <1>1, <1>2, <1>3 DEF SettingsOf, LastOr
<1>4. CASE Last(s).type = "PREFIX"
  BY <1>1, <1>2, <1>4 DEF SettingsOf, LastOr
<1>5. CASE Last(s).type = "CODE"
  BY <1>1, <1>2, <1>5 DEF SettingsOf, LastOr
<1>6. CASE Last(s).type = "VERBOSITY"
  BY <1>1, <1>2, <1>6 DEF SettingsOf, LastOr
<1> QED BY <1>3, <1>4, <1>5, <1>6

(* strtol and the conversion to int: the number or the largest long, and   *)
(* the int that is congruent to it.                                        *)
LEMMA Congruent ==
  ASSUME NEW m \in Nat, NEW w \in Nat
  PROVE  /\ ((w + m + 1) % (2 * m + 2)) - (m + 1) \in -(m + 1) .. m
         /\ (w - (((w + m + 1) % (2 * m + 2)) - (m + 1))) % (2 * m + 2) = 0
<1> DEFINE d == 2 * m + 2
           x == w + m + 1
           r == x % d
           q == x \div d
<1>1. d \in Nat /\ d > 0 /\ x \in Nat
  OBVIOUS
<1> HIDE DEF d, x
<1>2. r \in 0 .. d - 1 /\ q \in Int /\ x = d * q + r
  BY <1>1
<1> HIDE DEF r, q
<1>3. (d * q) % d = 0
  BY <1>1, <1>2
<1>4. x - r = d * q
  BY <1>1, <1>2
<1>5. w - (r - (m + 1)) = x - r
  BY <1>2 DEF x, d
<1>6. r - (m + 1) \in -(m + 1) .. m
  BY <1>2 DEF d
<1>7. (w - (r - (m + 1))) % d = 0
  BY <1>3, <1>4, <1>5
<1> QED BY <1>6, <1>7 DEF r, x, d

(* The conversion that the parser makes is one the property allows.        *)
LEMMA VerbosityIsCongruent ==
  ASSUME NEW n \in Numerals
  PROVE  VerboOf(ToInt(Strtol(n)), n)
<1>1. NumeralValue[n] \in Nat /\ IntMax \in Nat /\ LongMax \in Nat
  BY NumberAssumption
<1>2. /\ Strtol(n) \in {NumeralValue[n], LongMax} /\ Strtol(n) \in Nat
      /\ Strtol(n) <= LongMax /\ Strtol(n) <= NumeralValue[n]
  BY <1>1 DEF Strtol
<1>3. /\ ToInt(Strtol(n)) \in -(IntMax + 1) .. IntMax
      /\ (Strtol(n) - ToInt(Strtol(n))) % (2 * IntMax + 2) = 0
  BY <1>1, <1>2, Congruent DEF ToInt
<1> QED BY <1>2, <1>3 DEF VerboOf

-----------------------------------------------------------------------------
(***************************************************************************)
(* What the parser has made of the input so far, as long as nothing was    *)
(* reported.  At the head of parse_input's loop the last token read is     *)
(* still to be looked at; elsewhere all tokens are accounted for.          *)
(***************************************************************************)
InParser ==
  errors = 0 /\ pc \in {"top", "alternatives", "elems", "skip", "done"}

Parsed == IF pc \in {"top", "done"} THEN Front(input) ELSE input

(* The tokens of the finished rules, and those of the rule being parsed.   *)
Built ==
  Unparse(rules) \o
    (IF pc = "alternatives" THEN RuleAsTokens(rule)
     ELSE IF pc = "elems" THEN RuleAsTokens(rule) \o OpenPattern(elems)
     ELSE <<>>)

PlainTypes == {"SYMBOL", "STRG", "NUMBER", "BLOCK", "COLON"}

(* Before create_parser nothing was read and nothing was built.            *)
Untouched ==
  /\ tok = BadDirective /\ input = <<>> /\ rules = <<>> /\ errors = 0
  /\ name = NoText /\ prefix = NoText /\ code = <<>>

(* The last token read is the current one, and only parse_input's loop     *)
(* sees a directive or a token that is delivered again.                    *)
HistoryInv ==
  /\ pc = "create" => Untouched
  /\ InParser =>
       /\ input # <<>> /\ Last(input) = tok
       /\ pc \in {"alternatives", "elems", "skip"} => tok.type \in PlainTypes
       /\ Parsed # <<>> => Last(Parsed).type \notin DirectiveTypes

TreeInv == InParser => Built = RuleTokens(Parsed)

SettingsInv == InParser => SettingsOf(input, verbo, name, prefix, code)

MeaningInv == IInv /\ HistoryInv /\ TreeInv /\ SettingsInv

(* A report is never taken back.                                           *)
LEMMA ErrorsStay ==
  ASSUME IInv, Next, errors' = 0
  PROVE  errors = 0
<1>1. errors \in Nat /\ \A t : ScanErrors(t) \in Nat /\ PatternErrors(t) \in Nat
  BY Reports DEF IInv, TypeOK
<1>2. \A r : RuleErrors(r) \in Nat
  BY DEF RuleErrors, Report
<1>3. CASE CreateParser \/ SkipArgument
  BY <1>1, <1>3 DEF CreateParser, SkipArgument
<1>4. CASE EndPattern
  <2>1. PICK t : errors' = errors + ScanErrors(t) + PatternErrors(t)
    BY <1>4 DEF EndPattern
  <2>2. ScanErrors(t) \in Nat /\ PatternErrors(t) \in Nat
    BY <1>1
  <2> QED BY <1>1, <2>1, <2>2
<1>5. CASE EndRule
  <2>1. PICK t : errors' = errors + ScanErrors(t) + RuleErrors(rule)
    BY <1>5 DEF EndRule
  <2>2. ScanErrors(t) \in Nat /\ RuleErrors(rule) \in Nat
    BY <1>1, <1>2
  <2> QED BY <1>1, <2>1, <2>2
<1>6. CASE ParseVerbo \/ ParsePrefix \/ ParseName \/ ParseCode
  BY <1>6 DEF ParseVerbo, ParsePrefix, ParseName, ParseCode, ParseArgument, AtTop
<1>7. CASE BeginRule \/ BeginPattern \/ AddElem \/ Unexpected \/ Finish \/ ScannerStops
  BY <1>1, <1>7 DEF BeginRule, BeginPattern, AddElem, Unexpected, Finish,
                    ScannerStops, AtTop
<1>8. CASE Terminated
  BY <1>8 DEF Terminated, parserVars
<1> QED BY <1>3, <1>4, <1>5, <1>6, <1>7, <1>8
        DEF Next, ParseStep, ReadStep, LocalStep

(* A call of consume_token without an earlier report adds its token.       *)
LEMMA CleanRead ==
  ASSUME MeaningInv, errors = 0, NEW t \in NextTokens, Read(t),
         \/ pc \in {"create", "alternatives", "elems", "skip"}
         \/ pc = "top" /\ tok.type \in DirectiveTypes
  PROVE  /\ t \in Token /\ tok' = t /\ input' = Append(input, t)
         /\ input \in Seq(Token) /\ input' \in Seq(Token) /\ input' # <<>>
         /\ Last(input') = t /\ Front(input') = input
<1>1. tok \notin Sticky
  <2>1. CASE pc = "create"
    BY <2>1, TextAssumption
    DEF MeaningInv, HistoryInv, Untouched, Sticky, BadDirective, BadChar, EndToken
  <2>2. CASE pc \in {"alternatives", "elems", "skip"}
    <3>1. tok.type \in PlainTypes
      BY <2>2 DEF MeaningInv, HistoryInv, InParser
    <3> QED BY <3>1 DEF PlainTypes, Sticky, BadChar, EndToken
  <2>3. CASE pc = "top" /\ tok.type \in DirectiveTypes
    BY <2>3 DEF DirectiveTypes, Sticky, BadChar, EndToken
  <2> QED BY <2>1, <2>2, <2>3
<1>2. t \in Token /\ input \in Seq(Token)
  BY NextTokensAreTokens DEF MeaningInv, IInv, TypeOK
<1>3. tok' = t /\ input' = Append(input, t)
  BY <1>1 DEF Read
<1>4. /\ Append(input, t) \in Seq(Token) /\ Append(input, t) # <<>>
      /\ Last(Append(input, t)) = t /\ Front(Append(input, t)) = input
  BY <1>2, FrontLast
<1>5. Last(input') = t /\ Front(input') = input
  BY <1>3, <1>4 DEF Last, Front
<1> QED BY <1>2, <1>3, <1>4, <1>5

(* A step that adds a token which is neither a directive nor follows one.  *)
LEMMA PlainRead ==
  ASSUME MeaningInv, errors = 0, NEW t \in NextTokens, Read(t),
         pc \in {"alternatives", "elems", "skip"}
  PROVE  /\ tok.type \notin DirectiveTypes
         /\ RuleTokens(input') =
              RuleTokens(input) \o
                (IF t.type \in DirectiveTypes THEN <<>> ELSE <<t>>)
         /\ \A v, n, p, c : SettingsOf(input, v, n, p, c) =>
                            SettingsOf(input', v, n, p, c)
<1>1. /\ t \in Token /\ tok' = t /\ input' = Append(input, t)
      /\ input \in Seq(Token)
  BY CleanRead
<1>2. input # <<>> /\ Last(input) = tok /\ tok.type \in PlainTypes
  BY DEF MeaningInv, HistoryInv, InParser
<1>3. tok.type \notin DirectiveTypes
  BY <1>2 DEF PlainTypes, DirectiveTypes
<1>4. PassedOver(input, t) <=> t.type \in DirectiveTypes
  BY <1>2, <1>3 DEF PassedOver
<1>5. RuleTokens(input') = RuleTokens(input) \o
                (IF t.type \in DirectiveTypes THEN <<>> ELSE <<t>>)
  BY <1>1, <1>4, RuleTokensAppend
<1>6. \A v, n, p, c : SettingsOf(input, v, n, p, c) =>
                      SettingsOf(Append(input, t), v, n, p, c)
  BY <1>1, <1>2, <1>3, SettingsPass
<1> QED BY <1>1, <1>3, <1>5, <1>6

(* create_parser reads the first token, which is still to be looked at.    *)
LEMMA CreateMeans ==
  ASSUME MeaningInv, CreateParser, errors' = 0, errors = 0
  PROVE  HistoryInv' /\ TreeInv' /\ SettingsInv'
<1>1. PICK t \in NextTokens : Read(t)
  BY DEF CreateParser
<1>2. Untouched /\ pc = "create"
  BY DEF CreateParser, MeaningInv, HistoryInv
<1>3. /\ t \in Token /\ tok' = t /\ input' = Append(<<>>, t) /\ input' # <<>>
      /\ Last(input') = t /\ Front(input') = <<>> /\ input' \in Seq(Token)
  BY <1>1, <1>2, CleanRead DEF Untouched
<1>4. /\ pc' = "top" /\ verbo' = 5 /\ rules' = <<>>
      /\ name' = NoText /\ prefix' = NoText /\ code' = <<>>
  BY <1>2 DEF CreateParser, Untouched
<1>5. Parsed' = <<>>
  BY <1>3, <1>4 DEF Parsed
<1>6. HistoryInv'
  BY <1>3, <1>4, <1>5 DEF HistoryInv, InParser
<1>7. TreeInv'
  <2>1. Unparse(<<>>) = <<>>
    BY DEF Unparse, FlattenSeq
  <2>2. Built' = <<>>
    BY <1>4, <2>1 DEF Built
  <2> QED BY <1>5, <2>2, NothingRead DEF TreeInv
<1>8. SettingsInv'
  <2>1. <<>> \in Seq(Token)
    OBVIOUS
  <2>2. SettingsOf(<<>>, 5, NoText, NoText, <<>>)
    BY NothingRead DEF SettingsOf, LastOr
  <2>3. SettingsOf(Append(<<>>, t), 5, NoText, NoText, <<>>)
    BY <1>3, <2>1, <2>2, SettingsPass
  <2> QED BY <1>3, <1>4, <2>3 DEF SettingsInv
<1> QED BY <1>6, <1>7, <1>8

(* A rule that only has a name stands for one token.                       *)
LEMMA NewRuleTokens ==
  ASSUME NEW t \in Token, t.type = "SYMBOL"
  PROVE  RuleAsTokens([name |-> t.str, patterns |-> <<>>]) = <<t>>
<1> DEFINE r == [name |-> t.str, patterns |-> <<>>]
<1>1. [type |-> "SYMBOL", str |-> t.str] = t
  BY DEF Token, DirectiveTypes, Colon, BadDirective, BadChar, EndToken
<1>2. FlattenSeq([p \in DOMAIN r.patterns |-> PatternTokens(r.patterns[p])]) = <<>>
  BY DEF FlattenSeq
<1>3. RuleAsTokens(r) = <<[type |-> "SYMBOL", str |-> r.name]>> \o <<>>
  BY <1>2 DEF RuleAsTokens
<1>4. <<t>> \o <<>> = <<t>>
  OBVIOUS
<1> QED BY <1>1, <1>3, <1>4

(* The name of a rule: the token that was still to be looked at.           *)
LEMMA BeginRuleMeans ==
  ASSUME MeaningInv, BeginRule
  PROVE  HistoryInv' /\ TreeInv' /\ SettingsInv'
<1>1. /\ pc = "top" /\ errors = 0 /\ tok.type = "SYMBOL" /\ pc' = "alternatives"
      /\ rule' = [name |-> tok.str, patterns |-> <<>>]
      /\ UNCHANGED <<tok, errors, rules, verbo, name, prefix, code, input>>
  BY DEF BeginRule, AtTop, pstate
<1>2. input \in Seq(Token) /\ tok \in Token /\ rules \in Seq(Rule)
  BY DEF MeaningInv, IInv, TypeOK
<1>3. /\ input # <<>> /\ Last(input) = tok
      /\ (Front(input) # <<>> => Last(Front(input)).type \notin DirectiveTypes)
      /\ Unparse(rules) \o <<>> = RuleTokens(Front(input))
      /\ SettingsOf(input, verbo, name, prefix, code)
  BY <1>1 DEF MeaningInv, HistoryInv, TreeInv, SettingsInv, InParser, Parsed, Built
<1>4. Front(input) \in Seq(Token) /\ input = Append(Front(input), tok)
  BY <1>2, <1>3, FrontLast
<1>5. ~PassedOver(Front(input), tok)
  BY <1>1, <1>3 DEF PassedOver, DirectiveTypes
<1>6. RuleTokens(input) = RuleTokens(Front(input)) \o <<tok>>
  BY <1>2, <1>4, <1>5, RuleTokensAppend
<1>7. RuleAsTokens(rule') = <<tok>>
  BY <1>1, <1>2, NewRuleTokens
<1>8. Built' = RuleTokens(input)
  <2>1. Unparse(rules) \in Seq(AnyToken)
    BY <1>2, UnparseIs
  <2>2. Built' = Unparse(rules) \o <<tok>>
    BY <1>1, <1>7 DEF Built
  <2> QED BY <1>3, <1>6, <2>1, <2>2
<1>9. Parsed' = input /\ InParser'
  BY <1>1 DEF Parsed, InParser
<1> QED BY <1>1, <1>3, <1>8, <1>9
        DEF HistoryInv, TreeInv, SettingsInv, PlainTypes, DirectiveTypes

(* A colon after the name of a rule or after a pattern.                    *)
LEMMA BeginPatternMeans ==
  ASSUME MeaningInv, BeginPattern, errors = 0
  PROVE  HistoryInv' /\ TreeInv' /\ SettingsInv'
<1>1. /\ pc = "alternatives" /\ pc' = "elems" /\ elems' = <<>>
      /\ Colon \in NextTokens /\ Read(Colon)
      /\ UNCHANGED <<errors, rule, rules, verbo, name, prefix, code>>
  BY DEF BeginPattern, pstate
<1>2. /\ tok' = Colon /\ input' # <<>> /\ Last(input') = Colon /\ Colon \in Token
  BY <1>1, CleanRead
<1>3. Colon.type \notin DirectiveTypes /\ Colon.type \in PlainTypes
  BY DEF Colon, DirectiveTypes, PlainTypes
<1>4. /\ RuleTokens(input') = RuleTokens(input) \o <<Colon>>
      /\ SettingsOf(input, verbo, name, prefix, code) =>
           SettingsOf(input', verbo, name, prefix, code)
  BY <1>1, <1>3, PlainRead
<1>5. /\ Parsed' = input' /\ Parsed = input /\ InParser' /\ InParser
      /\ pc' \notin {"create", "top", "done"}
  BY <1>1 DEF Parsed, InParser
<1>6. /\ Unparse(rules) \in Seq(AnyToken) /\ RuleAsTokens(rule) \in Seq(AnyToken)
      /\ Colon \in AnyToken
  <2>1. rules \in Seq(Rule) /\ rule \in Rule
    BY <1>1 DEF MeaningInv, IInv, TypeOK
  <2> QED BY <1>2, <2>1, UnparseIs, RulesAreTokens DEF AnyToken
<1>7. Unparse(rules) \o RuleAsTokens(rule) = RuleTokens(input)
  BY <1>1, <1>5 DEF MeaningInv, TreeInv, Built
<1>8. Built' = Unparse(rules) \o (RuleAsTokens(rule) \o <<Colon>>)
  <2>1. OpenPattern(elems') = <<Colon>>
    BY <1>1, OpenPatternAppend DEF OpenPattern
  <2> QED BY <1>1, <2>1 DEF Built
<1>9. Built' = RuleTokens(input')
  <2>1. <<Colon>> \in Seq(AnyToken)
    BY <1>6
  <2>2. Unparse(rules) \o (RuleAsTokens(rule) \o <<Colon>>) =
          (Unparse(rules) \o RuleAsTokens(rule)) \o <<Colon>>
    BY <1>6, <2>1, ConcatFour
  <2> QED BY <1>4, <1>7, <1>8, <2>2
<1> QED BY <1>1, <1>2, <1>3, <1>4, <1>5, <1>9
        DEF MeaningInv, HistoryInv, TreeInv, SettingsInv

(* One more element of a pattern.                                          *)
LEMMA AddElemMeans ==
  ASSUME MeaningInv, AddElem, errors = 0
  PROVE  HistoryInv' /\ TreeInv' /\ SettingsInv'
<1>1. /\ pc = "elems" /\ pc' = "elems"
      /\ UNCHANGED <<errors, rule, rules, verbo, name, prefix, code>>
  BY DEF AddElem, pstate
<1>2. PICK t \in NextTokens :
        t.type = "SYMBOL" /\ Read(t) /\ elems' = Append(elems, NewElem(t.str))
  BY DEF AddElem, ElemsWith
<1>3. /\ tok' = t /\ input' # <<>> /\ Last(input') = t /\ t \in Token
  BY <1>1, <1>2, CleanRead
<1>4. t.type \notin DirectiveTypes /\ t.type \in PlainTypes
  BY <1>2 DEF DirectiveTypes, PlainTypes
<1>5. /\ RuleTokens(input') = RuleTokens(input) \o <<t>>
      /\ SettingsOf(input, verbo, name, prefix, code) =>
           SettingsOf(input', verbo, name, prefix, code)
  BY <1>1, <1>2, <1>4, PlainRead
<1>6. /\ Parsed' = input' /\ Parsed = input /\ InParser' /\ InParser
      /\ pc' \notin {"create", "top", "done"}
  BY <1>1 DEF Parsed, InParser
<1>7. /\ Unparse(rules) \in Seq(AnyToken) /\ RuleAsTokens(rule) \in Seq(AnyToken)
      /\ t \in AnyToken /\ elems \in Seq(PatElem)
  <2>1. rules \in Seq(Rule) /\ rule \in Rule /\ elems \in Seq(PatElem)
    BY <1>1 DEF MeaningInv, IInv, TypeOK
  <2> QED BY <1>3, <2>1, UnparseIs, RulesAreTokens DEF AnyToken
<1>8. /\ OpenPattern(elems') = OpenPattern(elems) \o <<t>>
      /\ OpenPattern(elems) \in Seq(AnyToken)
  <2>1. t.str \in Symbols /\ [type |-> "SYMBOL", str |-> t.str] = t
    BY <1>2, <1>3 DEF Token, DirectiveTypes, Colon, BadDirective, BadChar, EndToken
  <2>2. /\ OpenPattern(elems) \in Seq(Token)
        /\ OpenPattern(Append(elems, NewElem(t.str))) = OpenPattern(elems) \o <<t>>
    BY <1>7, <2>1, OpenPatternAppend
  <2>3. elems' = Append(elems, NewElem(t.str))
    BY <1>2
  <2>4. OpenPattern(elems') = OpenPattern(Append(elems, NewElem(t.str)))
    BY <2>3 DEF OpenPattern
  <2>5. OpenPattern(elems) \in Seq(AnyToken)
    BY <1>7, OpenPatternIs
  <2> QED BY <2>2, <2>4, <2>5
<1>9. /\ Unparse(rules) \o (RuleAsTokens(rule) \o OpenPattern(elems)) =
           RuleTokens(input)
      /\ Built' = Unparse(rules) \o
           (RuleAsTokens(rule) \o (OpenPattern(elems) \o <<t>>))
  BY <1>1, <1>6, <1>8 DEF MeaningInv, TreeInv, Built
<1>10. Built' = RuleTokens(input')
  <2> DEFINE w == Unparse(rules)
             x == RuleAsTokens(rule)
             y == OpenPattern(elems)
             z == <<t>>
  <2>1. /\ w \in Seq(AnyToken) /\ x \in Seq(AnyToken)
        /\ y \in Seq(AnyToken) /\ z \in Seq(AnyToken)
    BY <1>7, <1>8
  <2>2. /\ w \o (x \o y) = RuleTokens(input)
        /\ Built' = w \o (x \o (y \o z))
        /\ RuleTokens(input') = RuleTokens(input) \o z
    BY <1>5, <1>9
  <2> HIDE DEF w, x, y, z
  <2>3. w \o (x \o (y \o z)) = (w \o (x \o y)) \o z
    BY <2>1, ConcatFour, SMTT(30)
  <2> QED BY <2>2, <2>3
<1>11. TreeInv'
  BY <1>6, <1>10 DEF TreeInv
<1>12. HistoryInv'
  BY <1>1, <1>3, <1>4, <1>6 DEF HistoryInv
<1>13. SettingsInv'
  BY <1>1, <1>5, <1>6 DEF MeaningInv, SettingsInv
<1> QED BY <1>11, <1>12, <1>13

(* The code block of a pattern, which completes it.                        *)
LEMMA EndPatternMeans ==
  ASSUME MeaningInv, EndPattern, errors = 0, errors' = 0
  PROVE  HistoryInv' /\ TreeInv' /\ SettingsInv'
<1>1. /\ pc = "elems" /\ pc' = "alternatives"
      /\ UNCHANGED <<rules, verbo, name, prefix, code>>
  BY DEF EndPattern, pstate
<1>2. PICK t \in NextTokens :
        /\ Read(t)
        /\ rule' = [rule EXCEPT !.patterns =
                      Append(@, [elems |-> elems, code |-> CodeOf(t)])]
        /\ errors' = errors + ScanErrors(t) + PatternErrors(t)
  BY DEF EndPattern
<1>3. /\ tok' = t /\ input' # <<>> /\ Last(input') = t /\ t \in Token
  BY <1>1, <1>2, CleanRead
<1>4. t.type = "BLOCK"
  <2>1. ScanErrors(t) \in Nat /\ PatternErrors(t) \in Nat
    BY Reports
  <2>2. PatternErrors(t) = 0
    BY <1>2, <2>1
  <2> QED BY <2>2, Reports
<1>5. t.type \notin DirectiveTypes /\ t.type \in PlainTypes
  BY <1>4 DEF DirectiveTypes, PlainTypes
<1>6. /\ RuleTokens(input') = RuleTokens(input) \o <<t>>
      /\ SettingsOf(input, verbo, name, prefix, code) =>
           SettingsOf(input', verbo, name, prefix, code)
  BY <1>1, <1>2, <1>5, PlainRead
<1>7. /\ Parsed' = input' /\ Parsed = input /\ InParser' /\ InParser
      /\ pc' \notin {"create", "top", "done"}
  BY <1>1 DEF Parsed, InParser
<1> DEFINE p == [elems |-> elems, code |-> t.str]
<1>8. /\ rules \in Seq(Rule) /\ rule \in Rule /\ elems \in Seq(PatElem)
      /\ t.str \in Blocks /\ [type |-> "BLOCK", str |-> t.str] = t
  <2>1. rules \in Seq(Rule) /\ rule \in Rule /\ elems \in Seq(PatElem)
    BY <1>1 DEF MeaningInv, IInv, TypeOK
  <2>2. t.str \in Blocks /\ [type |-> "BLOCK", str |-> t.str] = t
    BY <1>3, <1>4
    DEF Token, DirectiveTypes, Colon, BadDirective, BadChar, EndToken
  <2> QED BY <2>1, <2>2
<1>9. p \in Pattern /\ rule' = [rule EXCEPT !.patterns = Append(rule.patterns, p)]
  BY <1>2, <1>4, <1>8 DEF Pattern, CodeOf
<1>10. /\ PatternTokens(p) = OpenPattern(elems) \o <<t>>
       /\ PatternTokens(p) \in Seq(AnyToken)
  <2>1. p.elems = elems /\ p.code = t.str
    OBVIOUS
  <2> QED BY <1>8, <1>9, <2>1, PatternTokensAre
<1> HIDE DEF p
<1>11. RuleAsTokens(rule') = RuleAsTokens(rule) \o (OpenPattern(elems) \o <<t>>)
  <2>1. RuleAsTokens([rule EXCEPT !.patterns = Append(rule.patterns, p)]) =
          RuleAsTokens(rule) \o PatternTokens(p)
    BY <1>8, <1>9, RuleAsTokensAppend
  <2>2. RuleAsTokens(rule') =
          RuleAsTokens([rule EXCEPT !.patterns = Append(rule.patterns, p)])
    BY <1>9
  <2> QED BY <1>10, <2>1, <2>2
<1>12. /\ Unparse(rules) \in Seq(AnyToken) /\ RuleAsTokens(rule) \in Seq(AnyToken)
       /\ <<t>> \in Seq(AnyToken) /\ OpenPattern(elems) \in Seq(AnyToken)
  <2>1. Unparse(rules) \in Seq(AnyToken) /\ RuleAsTokens(rule) \in Seq(AnyToken)
    BY <1>8, UnparseIs, RulesAreTokens
  <2>2. <<t>> \in Seq(AnyToken)
    BY <1>3 DEF AnyToken
  <2>3. OpenPattern(elems) \in Seq(AnyToken)
    BY <1>8, OpenPatternIs
  <2> QED BY <2>1, <2>2, <2>3
<1>13. /\ Unparse(rules) \o (RuleAsTokens(rule) \o OpenPattern(elems)) =
            RuleTokens(input)
       /\ Built' = Unparse(rules) \o
            (RuleAsTokens(rule) \o (OpenPattern(elems) \o <<t>>))
  BY <1>1, <1>7, <1>11 DEF MeaningInv, TreeInv, Built
<1>14. Built' = RuleTokens(input')
  <2>1. Unparse(rules) \o (RuleAsTokens(rule) \o (OpenPattern(elems) \o <<t>>)) =
          (Unparse(rules) \o (RuleAsTokens(rule) \o OpenPattern(elems))) \o <<t>>
    BY <1>12, ConcatFour
  <2> QED BY <1>6, <1>13, <2>1
<1> QED BY <1>1, <1>3, <1>5, <1>6, <1>7, <1>14
        DEF MeaningInv, HistoryInv, TreeInv, SettingsInv

(* The token after a rule, which hands the rule over.                      *)
LEMMA EndRuleMeans ==
  ASSUME MeaningInv, EndRule, errors = 0, errors' = 0
  PROVE  HistoryInv' /\ TreeInv' /\ SettingsInv'
<1>1. /\ pc = "alternatives" /\ pc' = "top" /\ rules' = Append(rules, rule)
      /\ UNCHANGED <<verbo, name, prefix, code>>
  BY DEF EndRule
<1>2. PICK t \in NextTokens : Read(t)
  BY DEF EndRule
<1>3. /\ tok' = t /\ input' # <<>> /\ Last(input') = t /\ Front(input') = input
  BY <1>1, <1>2, CleanRead
<1>4. /\ tok.type \notin DirectiveTypes
      /\ SettingsOf(input, verbo, name, prefix, code) =>
           SettingsOf(input', verbo, name, prefix, code)
  BY <1>1, <1>2, PlainRead
<1>5. Parsed' = input /\ Parsed = input /\ InParser' /\ InParser
  BY <1>1, <1>3 DEF Parsed, InParser
<1>6. rules \in Seq(Rule) /\ rule \in Rule
  BY <1>1 DEF MeaningInv, IInv, TypeOK
<1>7. Unparse(rules') = Unparse(rules) \o RuleAsTokens(rule)
  BY <1>1, <1>6, UnparseAppend DEF Unparse
<1>8. Built' = Built
  <2>1. Unparse(rules) \o RuleAsTokens(rule) \in Seq(AnyToken)
    BY <1>6, UnparseIs, RulesAreTokens
  <2>2. Built' = Unparse(rules') \o <<>>
    BY <1>1 DEF Built
  <2>3. Built = Unparse(rules) \o RuleAsTokens(rule)
    BY <1>1 DEF Built
  <2> QED BY <1>7, <2>1, <2>2, <2>3
<1> QED BY <1>1, <1>3, <1>4, <1>5, <1>8
        DEF MeaningInv, HistoryInv, TreeInv, SettingsInv

(* The argument of a directive: it is set, and no rule token.              *)
LEMMA ArgumentMeans ==
  ASSUME MeaningInv, ParseVerbo \/ ParsePrefix \/ ParseName \/ ParseCode,
         errors = 0, errors' = 0
  PROVE  HistoryInv' /\ TreeInv' /\ SettingsInv'
<1>0. \A t : errors' # errors + ScanErrors(t) + 1
  <2>1. \A t : ScanErrors(t) \in Nat
    BY Reports
  <2> QED BY <2>1
<1>1. /\ pc = "top" /\ pc' = "skip" /\ tok.type \in DirectiveTypes
      /\ UNCHANGED rules
  BY DEF ParseVerbo, ParsePrefix, ParseName, ParseCode, ParseArgument, AtTop,
         DirectiveTypes
<1>2. /\ input # <<>> /\ Last(input) = tok
      /\ Built = RuleTokens(Front(input))
      /\ SettingsOf(input, verbo, name, prefix, code)
  BY <1>1 DEF MeaningInv, HistoryInv, TreeInv, SettingsInv, InParser, Parsed
<1>3. input \in Seq(Token) /\ tok \in Token /\ rules \in Seq(Rule)
  BY DEF MeaningInv, IInv, TypeOK
<1>4. /\ \E t \in NextTokens :
           /\ Read(t) /\ t.type = Argument[tok.type]
           /\ SettingsOf(Append(input, t), verbo', name', prefix', code')
  <2>1. CASE ParseVerbo
    <3>1. PICK t \in NextTokens :
            /\ Read(t) /\ t.type = "NUMBER" /\ verbo' = ToInt(Strtol(t.str))
      BY <2>1, <1>0 DEF ParseVerbo, ParseArgument
    <3>2. t.str \in Numerals /\ t \in Token
      BY <3>1, TokenTexts, NextTokensAreTokens, <1>3
    <3>3. /\ tok.type = "VERBOSITY" /\ UNCHANGED <<name, prefix, code>>
          /\ t.type = Argument[tok.type]
      BY <2>1, <3>1 DEF ParseVerbo, ParseArgument, AtTop, Argument
    <3>4. VerboOf(verbo', t.str)
      BY <3>1, <3>2, VerbosityIsCongruent DEF VerboOf
    <3>5. SettingsOf(Append(input, t), verbo', name, prefix, code)
      BY <1>2, <1>3, <3>2, <3>3, <3>4, SettingsTake
    <3> QED BY <3>1, <3>3, <3>5
  <2>2. CASE ParsePrefix
    <3>1. PICK t \in NextTokens :
            Read(t) /\ t.type = "STRG" /\ prefix' = t.str
      BY <2>2, <1>0 DEF ParsePrefix, ParseArgument
    <3>2. /\ tok.type = "PREFIX" /\ UNCHANGED <<name, verbo, code>>
          /\ t.type = Argument[tok.type] /\ t \in Token
      BY <2>2, <3>1, <1>3, NextTokensAreTokens
      DEF ParsePrefix, ParseArgument, AtTop, Argument
    <3>3. SettingsOf(Append(input, t), verbo, name, t.str, code)
      BY <1>2, <1>3, <3>2, SettingsTake
    <3> QED BY <3>1, <3>2, <3>3
  <2>3. CASE ParseName
    <3>1. PICK t \in NextTokens :
            Read(t) /\ t.type = "STRG" /\ name' = t.str
      BY <2>3, <1>0 DEF ParseName, ParseArgument
    <3>2. /\ tok.type = "NAME" /\ UNCHANGED <<prefix, verbo, code>>
          /\ t.type = Argument[tok.type] /\ t \in Token
      BY <2>3, <3>1, <1>3, NextTokensAreTokens
      DEF ParseName, ParseArgument, AtTop, Argument
    <3>3. SettingsOf(Append(input, t), verbo, t.str, prefix, code)
      BY <1>2, <1>3, <3>2, SettingsTake
    <3> QED BY <3>1, <3>2, <3>3
  <2>4. CASE ParseCode
    <3>1. PICK t \in NextTokens :
            Read(t) /\ t.type = "BLOCK" /\ code' = Append(code, t.str)
      BY <2>4, <1>0 DEF ParseCode, ParseArgument
    <3>2. /\ tok.type = "CODE" /\ UNCHANGED <<prefix, verbo, name>>
          /\ t.type = Argument[tok.type] /\ t \in Token
      BY <2>4, <3>1, <1>3, NextTokensAreTokens
      DEF ParseCode, ParseArgument, AtTop, Argument
    <3>3. SettingsOf(Append(input, t), verbo, name, prefix, Append(code, t.str))
      BY <1>2, <1>3, <3>2, SettingsTake
    <3> QED BY <3>1, <3>2, <3>3
  <2> QED BY <2>1, <2>2, <2>3, <2>4
<1>5. PICK t \in NextTokens :
           /\ Read(t) /\ t.type = Argument[tok.type]
           /\ SettingsOf(Append(input, t), verbo', name', prefix', code')
  BY <1>4
<1>6. t.type \in PlainTypes /\ t.type \notin DirectiveTypes
  BY <1>1, <1>5 DEF Argument, DirectiveTypes, PlainTypes
<1>7. /\ tok' = t /\ input' # <<>> /\ Last(input') = t /\ t \in Token
      /\ input' = Append(input, t)
  BY <1>1, <1>5, CleanRead
<1>8. Parsed' = input' /\ InParser' /\ pc' \notin {"create", "top", "done"}
  BY <1>1 DEF Parsed, InParser
<1>9. RuleTokens(input') = RuleTokens(Front(input))
  <2>1. Front(input) \in Seq(Token) /\ input = Append(Front(input), tok)
    BY <1>2, <1>3, FrontLast
  <2>2. /\ RuleTokens(Front(input)) \in Seq(AnyToken)
        /\ RuleTokens(input) = RuleTokens(Front(input)) \o <<>>
    BY <1>1, <1>3, <2>1, RuleTokensAppend DEF PassedOver
  <2>3. PassedOver(input, t)
    BY <1>1, <1>2 DEF PassedOver
  <2>4. RuleTokens(input') = RuleTokens(input) \o <<>>
    BY <1>3, <1>7, <2>3, RuleTokensAppend
  <2> QED BY <2>2, <2>4
<1>10. Built' = Built
  BY <1>1 DEF Built
<1> QED BY <1>1, <1>2, <1>5, <1>6, <1>7, <1>8, <1>9, <1>10
        DEF HistoryInv, TreeInv, SettingsInv

(* The token after a directive's argument is still to be looked at.        *)
LEMMA SkipMeans ==
  ASSUME MeaningInv, SkipArgument, errors = 0, errors' = 0
  PROVE  HistoryInv' /\ TreeInv' /\ SettingsInv'
<1>1. /\ pc = "skip" /\ pc' = "top"
      /\ UNCHANGED <<rule, rules, verbo, name, prefix, code>>
  BY DEF SkipArgument, pstate
<1>2. PICK t \in NextTokens : Read(t)
  BY DEF SkipArgument
<1>3. /\ tok' = t /\ input' # <<>> /\ Last(input') = t /\ Front(input') = input
  BY <1>1, <1>2, CleanRead
<1>4. /\ tok.type \notin DirectiveTypes
      /\ SettingsOf(input, verbo, name, prefix, code) =>
           SettingsOf(input', verbo, name, prefix, code)
  BY <1>1, <1>2, PlainRead
<1>5. /\ Parsed' = input /\ Parsed = input /\ InParser' /\ InParser
      /\ Built' = Built
  BY <1>1, <1>3 DEF Parsed, InParser, Built
<1> QED BY <1>1, <1>3, <1>4, <1>5
        DEF MeaningInv, HistoryInv, TreeInv, SettingsInv

(* The steps that read nothing.                                            *)
LEMMA StillMeans ==
  ASSUME MeaningInv, errors' = 0,
         Finish \/ Unexpected \/ ScannerStops \/ UNCHANGED parserVars
  PROVE  HistoryInv' /\ TreeInv' /\ SettingsInv'
<1>1. errors \in Nat
  BY DEF MeaningInv, IInv, TypeOK
<1>2. CASE UNCHANGED parserVars
  BY <1>2 DEF MeaningInv, parserVars, HistoryInv, TreeInv, SettingsInv, InParser,
              Parsed, Built, Untouched
<1>3. CASE Unexpected
  BY <1>1, <1>3 DEF Unexpected, AtTop
<1>4. CASE ScannerStops
  BY <1>1, <1>4 DEF ScannerStops, HistoryInv, TreeInv, SettingsInv, InParser
<1>5. CASE Finish
  <2>1. /\ pc = "top" /\ pc' = "done"
        /\ UNCHANGED <<tok, errors, rule, elems, rules, verbo, name, prefix,
                       code, input>>
    BY <1>5 DEF Finish, pstate
  <2>2. Parsed' = Parsed /\ Built' = Built /\ InParser
    BY <2>1 DEF Parsed, Built, InParser
  <2> QED BY <2>1, <2>2 DEF MeaningInv, HistoryInv, TreeInv, SettingsInv
<1> QED BY <1>2, <1>3, <1>4, <1>5

(* Every step keeps the meaning of what was read.                          *)
LEMMA StepMeans == MeaningInv /\ [Next]_parserVars => MeaningInv'
<1> SUFFICES ASSUME MeaningInv, [Next]_parserVars PROVE MeaningInv'
  OBVIOUS
<1>1. IInv'
  BY StepIInv DEF MeaningInv
<1>2. CASE errors' # 0
  <2>1. pc' # "create"
    <3>1. pc = "create" => Untouched
      BY DEF MeaningInv, HistoryInv
    <3> QED BY <1>2, <3>1 DEF Untouched, Next, ParseStep, ReadStep, LocalStep, CreateParser,
            BeginRule, BeginPattern, AddElem, EndPattern, EndRule,
            ParseVerbo, ParsePrefix, ParseName, ParseCode, ParseArgument,
            SkipArgument, Unexpected, Finish, ScannerStops, Terminated,
            Stopped, Exited, AtTop, parserVars
  <2> QED BY <1>1, <1>2, <2>1
          DEF MeaningInv, HistoryInv, TreeInv, SettingsInv, InParser
<1>3. CASE errors' = 0
  <2>1. errors = 0
    <3>1. IInv
      BY DEF MeaningInv
    <3>2. CASE Next
      BY <1>3, <3>1, <3>2, ErrorsStay
    <3>3. CASE UNCHANGED parserVars
      BY <1>3, <3>3 DEF parserVars
    <3> QED BY <3>2, <3>3
  <2>2. HistoryInv' /\ TreeInv' /\ SettingsInv'
    BY <1>3, <2>1, CreateMeans, BeginRuleMeans, BeginPatternMeans, AddElemMeans,
       EndPatternMeans, EndRuleMeans, ArgumentMeans, SkipMeans, StillMeans
    DEF Next, ParseStep, ReadStep, LocalStep, Terminated
  <2> QED BY <1>1, <2>2 DEF MeaningInv
<1> QED BY <1>2, <1>3

(* MeaningInv holds before the first token.                                *)
LEMMA InitMeans == Init => MeaningInv
<1> SUFFICES ASSUME Init PROVE MeaningInv
  OBVIOUS
<1>1. IInv
  BY InitIInv
<1> QED BY <1>1
        DEF Init, MeaningInv, HistoryInv, TreeInv, SettingsInv, InParser, Untouched

(* MeaningInv holds in every reachable state.                              *)
THEOREM MeaningIsKept == Spec => []MeaningInv
<1> QED BY InitMeans, StepMeans, PTL DEF Spec

(***************************************************************************)
(* Whatever the input and wherever its directives stand: between two rules *)
(* or directives, and at the end, the rule list written out again is the   *)
(* rule tokens read so far.                                                *)
(***************************************************************************)
THEOREM TreeIsTheInput == Spec => []TreeMatchesInput
<1>1. MeaningInv => TreeMatchesInput
  <2> SUFFICES ASSUME MeaningInv, pc \in {"top", "done"}, errors = 0
               PROVE  Unparse(rules) = RuleTokens(Front(input))
    BY DEF TreeMatchesInput
  <2>1. Unparse(rules) \o <<>> = RuleTokens(Front(input))
    BY DEF MeaningInv, TreeInv, InParser, Built, Parsed
  <2>2. rules \in Seq(Rule)
    BY DEF MeaningInv, IInv, TypeOK
  <2>3. Unparse(rules) \in Seq(AnyToken)
    BY <2>2, UnparseIs
  <2> QED BY <2>1, <2>3
<1> QED BY <1>1, MeaningIsKept, PTL

(***************************************************************************)
(* For every input and every width of int and long: the settings are those *)
(* of the last directives, and the verbosity is the int congruent to the   *)
(* saturated number.                                                       *)
(***************************************************************************)
THEOREM SettingsAreTheInputs == Spec => []SettingsMatchInput
<1>1. MeaningInv => SettingsMatchInput
  <2>1. MeaningInv /\ InParser => SettingsMatchInput
    BY SettingsAre DEF MeaningInv, SettingsInv
  <2>2. ~InParser => SettingsMatchInput
    BY DEF InParser, SettingsMatchInput
  <2> QED BY <2>1, <2>2
<1> QED BY <1>1, MeaningIsKept, PTL

-----------------------------------------------------------------------------
(***************************************************************************)
(* SplitsInto, for the two kinds of pieces that the grammar cuts into.     *)
(* R[i] are the places where a piece that starts at i may end, and g[i]    *)
(* says that what starts at i can be cut into pieces.                      *)
(***************************************************************************)
IsEnds(R, n) == R \in [1 .. n + 1 -> SUBSET Nat] /\ \A i \in 1 .. n + 1 : R[i] \subseteq i .. n

CutsAt(g, R, n) ==
  \A i \in 1 .. n + 1 : g[i] <=> (i = n + 1 \/ \E j \in R[i] : g[j + 1])

(* A way to cut what starts at i: places that begin a piece which ends     *)
(* before another of them.                                                 *)
IsCut(C, R, n, i) ==
  /\ C \subseteq i .. n + 1 /\ i \in C
  /\ \A c \in C : c = n + 1 \/ \E j \in R[c] : j + 1 \in C

(* The places from which a cut reaches the end obey the law of CutsAt.     *)
LEMMA CutsExist ==
  ASSUME NEW n \in Nat, NEW R, IsEnds(R, n)
  PROVE  LET h == [i \in 1 .. n + 1 |-> \E C \in SUBSET (1 .. n + 1) : IsCut(C, R, n, i)]
         IN  CutsAt(h, R, n)
<1> DEFINE P == SUBSET (1 .. n + 1)
           h == [i \in 1 .. n + 1 |-> \E C \in P : IsCut(C, R, n, i)]
<1> SUFFICES ASSUME NEW i \in 1 .. n + 1
             PROVE  h[i] <=> (i = n + 1 \/ \E j \in R[i] : h[j + 1])
  BY DEF CutsAt
<1>1. R[i] \subseteq i .. n /\ \A j \in R[i] : j + 1 \in 1 .. n + 1
  BY DEF IsEnds
<1>2. h[i] <=> \E C \in P : IsCut(C, R, n, i)
  OBVIOUS
<1>3. \A j \in R[i] : h[j + 1] <=> \E C \in P : IsCut(C, R, n, j + 1)
  BY <1>1
<1> HIDE DEF h
<1>4. ASSUME NEW C \in P, IsCut(C, R, n, i), i # n + 1
      PROVE  \E j \in R[i] : h[j + 1]
  <2>1. PICK j \in R[i] : j + 1 \in C
    BY <1>4 DEF IsCut
  <2> DEFINE D == {c \in C : c >= j + 1}
  <2>2. D \in P /\ D \subseteq (j + 1) .. n + 1 /\ j + 1 \in D
    <3>1. C \subseteq 1 .. n + 1 /\ j \in Nat
      BY <1>1, <1>4
    <3>2. \A c \in D : c \in C /\ c >= j + 1
      OBVIOUS
    <3>3. \A c \in C : c >= j + 1 => c \in D
      OBVIOUS
    <3> HIDE DEF D
    <3>4. \A c \in D : c \in 1 .. n + 1 /\ c >= j + 1
      BY <3>1, <3>2
    <3>5. D \subseteq (j + 1) .. n + 1
      BY <3>1, <3>4
    <3>6. D \in P
      BY <3>4
    <3>7. j + 1 \in D
      BY <2>1, <3>1, <3>3
    <3> QED BY <3>5, <3>6, <3>7
  <2>3. ASSUME NEW c \in D PROVE c = n + 1 \/ \E k \in R[c] : k + 1 \in D
    <3>1. c \in C /\ c \in 1 .. n + 1 /\ c >= j + 1 /\ j \in Nat
      BY <1>1, <1>4, <2>1, <2>3 DEF IsCut
    <3>2. SUFFICES ASSUME c # n + 1 PROVE \E k \in R[c] : k + 1 \in D
      OBVIOUS
    <3>3. PICK k \in R[c] : k + 1 \in C
      BY <1>4, <3>1, <3>2 DEF IsCut
    <3>4. k \in c .. n
      BY <3>1, <3>3 DEF IsEnds
    <3>5. k + 1 >= j + 1
      BY <3>1, <3>4
    <3> QED BY <3>3, <3>5
  <2>4. IsCut(D, R, n, j + 1)
    BY <2>2, <2>3 DEF IsCut
  <2> QED BY <1>3, <2>1, <2>2, <2>4
<1>5. CASE i = n + 1
  <2>1. {n + 1} \in P /\ IsCut({n + 1}, R, n, i)
    BY <1>5 DEF IsCut
  <2> QED BY <1>2, <1>5, <2>1
<1>6. ASSUME NEW j \in R[i], h[j + 1]
      PROVE  h[i]
  <2>1. PICK C \in P : IsCut(C, R, n, j + 1)
    BY <1>3, <1>6
  <2>2. j \in i .. n /\ i \in Nat
    BY <1>1
  <2>3. C \cup {i} \in P /\ C \cup {i} \subseteq i .. n + 1 /\ i \in C \cup {i}
    BY <2>1, <2>2 DEF IsCut
  <2>4. \A c \in C \cup {i} : c = n + 1 \/ \E k \in R[c] : k + 1 \in C \cup {i}
    BY <2>1, <1>6 DEF IsCut
  <2>5. IsCut(C \cup {i}, R, n, i)
    BY <2>3, <2>4 DEF IsCut
  <2> QED BY <1>2, <2>3, <2>5
<1> QED BY <1>2, <1>4, <1>5, <1>6

(* What can be cut reaches its end in every set of places that is closed   *)
(* under the pieces.                                                       *)
LEMMA CutsReachTheEnd ==
  ASSUME NEW n \in Nat, NEW R, IsEnds(R, n), NEW g, CutsAt(g, R, n), g[1],
         NEW G, 1 \in G, \A c \in G : \A j \in R[c] : j + 1 \in G
  PROVE  n + 1 \in G
<1> DEFINE T == {m \in Nat : m \in 0 .. n /\ n + 1 - m \in G /\ g[n + 1 - m]}
<1>1. T # {}
  <2>1. n \in T
    OBVIOUS
  <2> QED BY <2>1
<1>2. PICK m \in T : \A k \in 0 .. m - 1 : k \notin T
  BY <1>1, LeastNumber
<1> DEFINE c == n + 1 - m
<1>3. m \in 0 .. n /\ c \in G /\ g[c] /\ c \in 1 .. n + 1
  BY <1>2
<1>4. ASSUME c # n + 1 PROVE FALSE
  <2>1. PICK j \in R[c] : g[j + 1]
    BY <1>3, <1>4 DEF CutsAt
  <2>2. j \in c .. n
    BY <1>3 DEF IsEnds
  <2>3. j + 1 \in G
    BY <1>3, <2>1
  <2>4. n - j \in 0 .. m - 1 /\ n + 1 - (n - j) = j + 1 /\ n - j \in 0 .. n
    BY <1>3, <2>2
  <2>5. n - j \in T
    BY <2>1, <2>3, <2>4
  <2> QED BY <1>2, <2>4, <2>5
<1> QED BY <1>3, <1>4

(* One more piece at the end.                                              *)
LEMMA CutsGrow ==
  ASSUME NEW n \in Nat, NEW R, IsEnds(R, n), NEW g, CutsAt(g, R, n), g[1],
         NEW m \in Nat, NEW S, IsEnds(S, m), NEW h, CutsAt(h, S, m), n < m,
         \A i \in 1 .. n : R[i] \subseteq S[i], m \in S[n + 1]
  PROVE  h[1]
<1> DEFINE G == {i \in 1 .. n + 1 : ~h[i]}
<1>1. h[m + 1]
  BY DEF CutsAt
<1>2. h[n + 1]
  BY <1>1 DEF CutsAt
<1>3. SUFFICES ASSUME ~h[1] PROVE FALSE
  OBVIOUS
<1>4. \A c \in G : \A j \in R[c] : j + 1 \in G
  <2> SUFFICES ASSUME NEW c \in G, NEW j \in R[c] PROVE j + 1 \in G
    OBVIOUS
  <2>1. c \in 1 .. n /\ ~h[c] /\ j \in c .. n
    BY <1>2 DEF IsEnds
  <2>2. j \in S[c] /\ c \in 1 .. m + 1
    BY <2>1
  <2>3. ~h[j + 1]
    BY <2>1, <2>2 DEF CutsAt
  <2> QED BY <2>1, <2>3
<1>5. 1 \in G
  BY <1>3
<1> HIDE DEF G
<1>6. n + 1 \in G
  BY <1>4, <1>5, CutsReachTheEnd
<1> QED BY <1>2, <1>6 DEF G

(* Where a pattern, a rule or a directive that starts at i may end.        *)
PatternEnds(s) ==
  [i \in 1 .. Len(s) + 1 |-> {j \in i .. Len(s) : IsPattern(SubSeq(s, i, j))}]
PartEnds(s) ==
  [i \in 1 .. Len(s) + 1 |->
     {j \in i .. Len(s) : IsRuleOrDirective(SubSeq(s, i, j))}]

(* Cutting into patterns is a matter of the places PatternEnds.            *)
LEMMA PatternCuts ==
  ASSUME NEW s, Len(s) \in Nat
  PROVE  /\ IsEnds(PatternEnds(s), Len(s))
         /\ \E g : /\ CutsAt(g, PatternEnds(s), Len(s))
                   /\ SplitsInto(s, IsPattern) <=> g[1]
<1> DEFINE n == Len(s)
           R == PatternEnds(s)
           Law(g) == g = [i \in 1 .. n + 1 |->
                            \/ i = n + 1
                            \/ \E j \in i .. n : IsPattern(SubSeq(s, i, j)) /\ g[j + 1]]
<1>1. IsEnds(R, n)
  BY DEF IsEnds, PatternEnds
<1>2. \E h : Law(h)
  <2> DEFINE h == [i \in 1 .. n + 1 |->
                     \E C \in SUBSET (1 .. n + 1) : IsCut(C, R, n, i)]
  <2>1. CutsAt(h, R, n)
    BY <1>1, CutsExist
  <2>2. h = [i \in 1 .. n + 1 |-> h[i]] /\ \A i \in 1 .. n + 1 : h[i] \in BOOLEAN
    OBVIOUS
  <2> HIDE DEF h
  <2>3. \A i \in 1 .. n + 1 :
          h[i] = (\/ i = n + 1
                  \/ \E j \in i .. n : IsPattern(SubSeq(s, i, j)) /\ h[j + 1])
    BY <2>1, <2>2 DEF CutsAt, PatternEnds
  <2>4. Law(h)
    BY <2>2, <2>3
  <2> QED BY <2>4
<1>3. \A g : Law(g) => CutsAt(g, R, n)
  BY DEF CutsAt, PatternEnds
<1>4. SplitsInto(s, IsPattern) <=> (CHOOSE g : Law(g))[1]
  BY DEF SplitsInto
<1> HIDE DEF Law
<1>5. Law(CHOOSE g : Law(g))
  BY <1>2
<1>6. CutsAt(CHOOSE g : Law(g), R, n)
  BY <1>3, <1>5
<1> QED BY <1>1, <1>4, <1>6

(* Cutting into rules and directives is a matter of the places PartEnds.   *)
LEMMA PartCuts ==
  ASSUME NEW s, Len(s) \in Nat
  PROVE  /\ IsEnds(PartEnds(s), Len(s))
         /\ \E g : /\ CutsAt(g, PartEnds(s), Len(s))
                   /\ SplitsInto(s, IsRuleOrDirective) <=> g[1]
<1> DEFINE n == Len(s)
           R == PartEnds(s)
           Law(g) == g = [i \in 1 .. n + 1 |->
                            \/ i = n + 1
                            \/ \E j \in i .. n :
                                 IsRuleOrDirective(SubSeq(s, i, j)) /\ g[j + 1]]
<1>1. IsEnds(R, n)
  BY DEF IsEnds, PartEnds
<1>2. \E h : Law(h)
  <2> DEFINE h == [i \in 1 .. n + 1 |->
                     \E C \in SUBSET (1 .. n + 1) : IsCut(C, R, n, i)]
  <2>1. CutsAt(h, R, n)
    BY <1>1, CutsExist
  <2>2. h = [i \in 1 .. n + 1 |-> h[i]] /\ \A i \in 1 .. n + 1 : h[i] \in BOOLEAN
    OBVIOUS
  <2> HIDE DEF h
  <2>3. \A i \in 1 .. n + 1 :
          h[i] = (\/ i = n + 1
                  \/ \E j \in i .. n :
                       IsRuleOrDirective(SubSeq(s, i, j)) /\ h[j + 1])
    BY <2>1, <2>2 DEF CutsAt, PartEnds
  <2>4. Law(h)
    BY <2>2, <2>3
  <2> QED BY <2>4
<1>3. \A g : Law(g) => CutsAt(g, R, n)
  BY DEF CutsAt, PartEnds
<1>4. SplitsInto(s, IsRuleOrDirective) <=> (CHOOSE g : Law(g))[1]
  BY DEF SplitsInto
<1> HIDE DEF Law
<1>5. Law(CHOOSE g : Law(g))
  BY <1>2
<1>6. CutsAt(CHOOSE g : Law(g), R, n)
  BY <1>3, <1>5
<1> QED BY <1>1, <1>4, <1>6

(* A part of a sequence that was made longer.                              *)
LEMMA PiecesStay ==
  ASSUME NEW S, NEW s \in Seq(S), NEW x \in Seq(S)
  PROVE  /\ \A i \in 1 .. Len(s), j \in 1 .. Len(s) :
              SubSeq(s \o x, i, j) = SubSeq(s, i, j)
         /\ SubSeq(s \o x, Len(s) + 1, Len(s) + Len(x)) = x
OBVIOUS

(* One more pattern behind a list of patterns is a list of patterns.       *)
LEMMA PatternsGrow ==
  ASSUME NEW s \in Seq(Token), NEW x \in Seq(Token),
         SplitsInto(s, IsPattern), IsPattern(x)
  PROVE  SplitsInto(s \o x, IsPattern)
<1> DEFINE n == Len(s)
           m == Len(s \o x)
<1>1. n \in Nat /\ m \in Nat /\ m = n + Len(x) /\ Len(x) >= 2
  BY DEF IsPattern
<1>2. PICK g : CutsAt(g, PatternEnds(s), n) /\ g[1]
  BY <1>1, PatternCuts
<1>3. PICK h : /\ CutsAt(h, PatternEnds(s \o x), m)
               /\ SplitsInto(s \o x, IsPattern) <=> h[1]
  BY <1>1, PatternCuts
<1>4. IsEnds(PatternEnds(s), n) /\ IsEnds(PatternEnds(s \o x), m)
  BY <1>1, PatternCuts
<1>5. \A i \in 1 .. n : PatternEnds(s)[i] \subseteq PatternEnds(s \o x)[i]
  <2> SUFFICES ASSUME NEW i \in 1 .. n, NEW j \in PatternEnds(s)[i]
               PROVE  j \in PatternEnds(s \o x)[i]
    OBVIOUS
  <2>1. j \in i .. n /\ IsPattern(SubSeq(s, i, j))
    BY DEF PatternEnds
  <2>2. SubSeq(s \o x, i, j) = SubSeq(s, i, j)
    BY <2>1, PiecesStay
  <2>3. i \in 1 .. m + 1 /\ j \in i .. m
    BY <1>1, <2>1
  <2> QED BY <2>1, <2>2, <2>3 DEF PatternEnds
<1>6. m \in PatternEnds(s \o x)[n + 1]
  <2>1. SubSeq(s \o x, n + 1, m) = x
    BY <1>1, PiecesStay
  <2>2. n + 1 \in 1 .. m + 1 /\ m \in (n + 1) .. m
    BY <1>1
  <2> QED BY <2>1, <2>2 DEF PatternEnds
<1>7. n < m
  BY <1>1
<1> HIDE DEF n, m
<1>8. h[1]
  BY <1>1, <1>2, <1>3, <1>4, <1>5, <1>6, <1>7, CutsGrow
<1> QED BY <1>3, <1>8

(* One more part behind a list of parts is a list of parts.                *)
LEMMA PartsGrow ==
  ASSUME NEW s \in Seq(Token), NEW x \in Seq(Token),
         SplitsInto(s, IsRuleOrDirective), IsRuleOrDirective(x)
  PROVE  SplitsInto(s \o x, IsRuleOrDirective)
<1> DEFINE n == Len(s)
           m == Len(s \o x)
<1>1. n \in Nat /\ m \in Nat /\ m = n + Len(x) /\ Len(x) >= 2
  BY DEF IsRuleOrDirective, IsRule, IsDirective
<1>2. PICK g : CutsAt(g, PartEnds(s), n) /\ g[1]
  BY <1>1, PartCuts
<1>3. PICK h : /\ CutsAt(h, PartEnds(s \o x), m)
               /\ SplitsInto(s \o x, IsRuleOrDirective) <=> h[1]
  BY <1>1, PartCuts
<1>4. IsEnds(PartEnds(s), n) /\ IsEnds(PartEnds(s \o x), m)
  BY <1>1, PartCuts
<1>5. \A i \in 1 .. n : PartEnds(s)[i] \subseteq PartEnds(s \o x)[i]
  <2> SUFFICES ASSUME NEW i \in 1 .. n, NEW j \in PartEnds(s)[i]
               PROVE  j \in PartEnds(s \o x)[i]
    OBVIOUS
  <2>1. j \in i .. n /\ IsRuleOrDirective(SubSeq(s, i, j))
    BY DEF PartEnds
  <2>2. SubSeq(s \o x, i, j) = SubSeq(s, i, j)
    BY <2>1, PiecesStay
  <2>3. i \in 1 .. m + 1 /\ j \in i .. m
    BY <1>1, <2>1
  <2> QED BY <2>1, <2>2, <2>3 DEF PartEnds
<1>6. m \in PartEnds(s \o x)[n + 1]
  <2>1. SubSeq(s \o x, n + 1, m) = x
    BY <1>1, PiecesStay
  <2>2. n + 1 \in 1 .. m + 1 /\ m \in (n + 1) .. m
    BY <1>1
  <2> QED BY <2>1, <2>2 DEF PartEnds
<1>7. n < m
  BY <1>1
<1> HIDE DEF n, m
<1>8. h[1]
  BY <1>1, <1>2, <1>3, <1>4, <1>5, <1>6, <1>7, CutsGrow
<1> QED BY <1>3, <1>8

(* Nothing is cut into no pieces.                                          *)
LEMMA NothingSplits ==
  SplitsInto(<<>>, IsPattern) /\ SplitsInto(<<>>, IsRuleOrDirective)
<1>1. Len(<<>>) \in Nat /\ Len(<<>>) = 0
  OBVIOUS
<1>2. PICK g : /\ CutsAt(g, PatternEnds(<<>>), Len(<<>>))
               /\ SplitsInto(<<>>, IsPattern) <=> g[1]
  BY <1>1, PatternCuts
<1>3. PICK h : /\ CutsAt(h, PartEnds(<<>>), Len(<<>>))
               /\ SplitsInto(<<>>, IsRuleOrDirective) <=> h[1]
  BY <1>1, PartCuts
<1> QED BY <1>1, <1>2, <1>3 DEF CutsAt

-----------------------------------------------------------------------------
(***************************************************************************)
(* A reading of the tokens from left to right, to show what cannot be a    *)
(* grammar file: "top" and "closed" are between two parts ("closed" after  *)
(* a pattern), "named" is after a rule's name, "open" within a pattern,    *)
(* the directives are before their arguments, "bad" is past repair.        *)
(***************************************************************************)
ReadingStates == {"top", "named", "open", "closed", "bad"} \cup DirectiveTypes
Between == {"top", "closed"}

After(q, t) ==
  IF q \in Between /\ t.type = "SYMBOL" THEN "named"
  ELSE IF q \in Between /\ t.type \in DirectiveTypes THEN t.type
  ELSE IF q \in {"named", "closed"} /\ t = Colon THEN "open"
  ELSE IF q = "open" /\ t.type = "SYMBOL" THEN "open"
  ELSE IF q = "open" /\ t.type = "BLOCK" THEN "closed"
  ELSE IF q \in DirectiveTypes /\ t.type = Argument[q] THEN "top"
  ELSE "bad"

IsReading(f, s) ==
  /\ f[0] = "top"
  /\ \A i \in 1 .. Len(s) : f[i] = After(f[i - 1], s[i])

Reads(s, q) == \E f : IsReading(f, s) /\ f[Len(s)] = q

(* The reading of nothing is at the top.                                   *)
LEMMA ReadsNothing == Reads(<<>>, "top")
<1> DEFINE f == [i \in {0} |-> "top"]
<1>1. IsReading(f, <<>>) /\ f[Len(<<>>)] = "top"
  BY DEF IsReading
<1> QED BY <1>1 DEF Reads

(* The reading of one more token.                                          *)
LEMMA ReadsMore ==
  ASSUME NEW s \in Seq(Token), NEW t \in Token, NEW q, Reads(s, q)
  PROVE  Reads(Append(s, t), After(q, t))
<1> DEFINE n == Len(s)
           u == Append(s, t)
<1>1. PICK f : IsReading(f, s) /\ f[n] = q
  BY DEF Reads
<1>2. /\ n \in Nat /\ Len(u) = n + 1 /\ u[n + 1] = t
      /\ \A i \in 1 .. n : u[i] = s[i]
  OBVIOUS
<1> DEFINE g == [i \in 0 .. n + 1 |-> IF i = n + 1 THEN After(q, t) ELSE f[i]]
<1>3. \A i \in 0 .. n : g[i] = f[i]
  BY <1>2
<1>4. g[n + 1] = After(q, t)
  BY <1>2
<1> HIDE DEF g, n, u
<1>5. ASSUME NEW i \in 1 .. n + 1 PROVE g[i] = After(g[i - 1], u[i])
  <2>1. i - 1 \in 0 .. n
    BY <1>2
  <2>2. CASE i \in 1 .. n
    <3>1. f[i] = After(f[i - 1], s[i])
      BY <1>1, <2>2 DEF IsReading, n
    <3>2. i \in 0 .. n
      BY <1>2, <2>2
    <3> QED BY <1>2, <1>3, <2>1, <2>2, <3>1, <3>2
  <2>3. CASE i = n + 1
    <3>1. i - 1 = n
      BY <1>2, <2>3
    <3> QED BY <1>1, <1>2, <1>3, <1>4, <2>1, <2>3, <3>1
  <2> QED BY <1>2, <2>2, <2>3
<1>6. g[0] = "top"
  BY <1>1, <1>2, <1>3 DEF IsReading
<1>7. IsReading(g, u) /\ g[Len(u)] = After(q, t)
  BY <1>2, <1>4, <1>5, <1>6 DEF IsReading
<1> QED BY <1>7 DEF Reads, u

(* The members of a piece.                                                 *)
LEMMA PieceMembers ==
  ASSUME NEW S, NEW s \in Seq(S), NEW i \in 1 .. Len(s), NEW j \in i .. Len(s)
  PROVE  /\ SubSeq(s, i, j) \in Seq(S) /\ Len(SubSeq(s, i, j)) = j - i + 1
         /\ \A k \in 1 .. j - i + 1 : SubSeq(s, i, j)[k] = s[i + k - 1]
         /\ \A k \in i .. j : s[k] = SubSeq(s, i, j)[k - i + 1]
<1>1. i \in Int /\ j \in Int /\ i <= j /\ \A k \in i .. j : s[k] \in S
  OBVIOUS
<1>2. /\ SubSeq(s, i, j) \in Seq(S)
      /\ Len(SubSeq(s, i, j)) = IF i <= j THEN j - i + 1 ELSE 0
      /\ \A k \in 1 .. j - i + 1 : SubSeq(s, i, j)[k] = s[i + k - 1]
  BY <1>1, SubSeqProperties
<1>3. \A k \in i .. j : s[k] = SubSeq(s, i, j)[k - i + 1]
  <2> SUFFICES ASSUME NEW k \in i .. j PROVE s[k] = SubSeq(s, i, j)[k - i + 1]
    OBVIOUS
  <2>1. k - i + 1 \in 1 .. j - i + 1 /\ i + (k - i + 1) - 1 = k
    BY <1>1
  <2> QED BY <1>2, <2>1
<1> QED BY <1>1, <1>2, <1>3

(* A pattern is read from a rule's name or from another pattern.           *)
LEMMA ReadsPattern ==
  ASSUME NEW S, NEW s \in Seq(S), NEW f, IsReading(f, s),
         NEW i \in 1 .. Len(s), NEW j \in i .. Len(s),
         IsPattern(SubSeq(s, i, j)), f[i - 1] \in {"named", "closed"}
  PROVE  f[j] = "closed"
<1> DEFINE x == SubSeq(s, i, j)
<1>1. /\ Len(x) = j - i + 1
      /\ \A k \in i .. j : s[k] = x[k - i + 1]
  BY PieceMembers
<1>2. i \in Nat /\ j \in Nat /\ 1 <= i /\ j >= i + 1 /\ j <= Len(s)
  BY <1>1 DEF IsPattern
<1>3. s[i] = Colon /\ s[j].type = "BLOCK"
  <2>1. i - i + 1 = 1 /\ j - i + 1 = Len(x)
    BY <1>1, <1>2
  <2> QED BY <1>1, <1>2, <2>1 DEF IsPattern
<1>4. \A k \in i + 1 .. j - 1 : s[k].type = "SYMBOL"
  <2> SUFFICES ASSUME NEW k \in i + 1 .. j - 1 PROVE s[k].type = "SYMBOL"
    OBVIOUS
  <2>1. k \in i .. j /\ k - i + 1 \in 2 .. Len(x) - 1
    BY <1>1, <1>2
  <2> QED BY <1>1, <2>1 DEF IsPattern
<1> HIDE DEF x
<1>5. \A k \in 1 .. Len(s) : f[k] = After(f[k - 1], s[k])
  BY DEF IsReading
<1>6. f[i] = "open"
  <2>1. f[i] = After(f[i - 1], Colon)
    BY <1>3, <1>5
  <2> QED BY <2>1 DEF After, Between, Colon, DirectiveTypes
<1> DEFINE T == {k \in Nat : k \in i .. j - 1 /\ f[k] # "open"}
<1>7. T = {}
  <2>1. SUFFICES ASSUME T # {} PROVE FALSE
    OBVIOUS
  <2>2. PICK k \in T : \A m \in 0 .. k - 1 : m \notin T
    BY <2>1, LeastNumber
  <2>3. k \in i + 1 .. j - 1 /\ f[k] # "open"
    BY <1>2, <1>6
  <2>4. k - 1 \in 0 .. k - 1 /\ k - 1 \in i .. j - 1 /\ k \in 1 .. Len(s)
    BY <1>2, <2>3
  <2>5. \A m \in i .. j - 1 : m \notin T => f[m] = "open"
    BY <1>2
  <2> HIDE DEF T
  <2>6. f[k - 1] = "open"
    BY <2>2, <2>4, <2>5
  <2>7. f[k] = After("open", s[k]) /\ s[k].type = "SYMBOL"
    BY <1>4, <1>5, <2>3, <2>4, <2>6
  <2> QED BY <2>3, <2>7 DEF After, Between, DirectiveTypes, Colon
<1>8. f[j - 1] = "open"
  <2>1. j - 1 \in i .. j - 1 /\ j - 1 \in Nat
    BY <1>2
  <2> QED BY <1>7, <2>1
<1>9. f[j] = After("open", s[j])
  BY <1>2, <1>5, <1>8
<1> QED BY <1>3, <1>9 DEF After, Between, DirectiveTypes, Colon

(* A rule is read from between two parts, its patterns one by one.         *)
LEMMA ReadsRule ==
  ASSUME NEW S, NEW s \in Seq(S), NEW f, IsReading(f, s),
         NEW i \in 1 .. Len(s), NEW j \in i .. Len(s),
         IsRule(SubSeq(s, i, j)), f[i - 1] \in Between
  PROVE  f[j] = "closed"
<1> DEFINE x == SubSeq(s, i, j)
           y == Tail(x)
           n == j - i
<1>1. /\ x \in Seq(S) /\ Len(x) = n + 1
      /\ \A k \in 1 .. n + 1 : x[k] = s[i + k - 1]
  BY PieceMembers
<1>2. n \in Nat /\ n >= 2 /\ i \in Nat /\ 1 <= i /\ j = i + n /\ j <= Len(s)
  BY <1>1 DEF IsRule
<1>3. s[i].type = "SYMBOL" /\ SplitsInto(y, IsPattern)
  <2>1. x[1] = s[i]
    BY <1>1, <1>2
  <2> QED BY <2>1 DEF IsRule
<1> HIDE DEF n
<1>4. /\ y \in Seq(S) /\ Len(y) = n
      /\ \A k \in 1 .. n : y[k] = s[i + k]
  <2>1. y \in Seq(S) /\ Len(y) = n /\ \A k \in 1 .. n : y[k] = x[k + 1]
    BY <1>1, <1>2
  <2>2. \A k \in 1 .. n : k + 1 \in 1 .. n + 1 /\ i + (k + 1) - 1 = i + k
    BY <1>2
  <2> QED BY <1>1, <2>1, <2>2
<1> HIDE DEF x, y
<1>5. f[i] = "named"
  <2>1. f[i] = After(f[i - 1], s[i])
    BY DEF IsReading
  <2> QED BY <1>3, <2>1 DEF After
<1> DEFINE G == {c \in 1 .. n + 1 : f[i + c - 1] = IF c = 1 THEN "named" ELSE "closed"}
<1>6. 1 \in G
  BY <1>2, <1>5
<1>7. ASSUME NEW c \in G, NEW k \in PatternEnds(y)[c]
      PROVE  k + 1 \in G
  <2>1. c \in 1 .. n + 1 /\ c \in Nat /\ f[i + c - 1] \in {"named", "closed"}
    BY <1>7
  <2>2. k \in c .. n /\ IsPattern(SubSeq(y, c, k))
    BY <1>4, <1>7, <2>1 DEF PatternEnds
  <2>3. c \in 1 .. Len(y) /\ k \in c .. Len(y) /\ k \in Nat
    BY <1>2, <1>4, <2>1, <2>2
  <2>4. i + c \in 1 .. Len(s) /\ i + k \in i + c .. Len(s)
    BY <1>2, <2>1, <2>2
  <2>5. SubSeq(y, c, k) = SubSeq(s, i + c, i + k)
    <3>1. /\ SubSeq(y, c, k) \in Seq(S) /\ Len(SubSeq(y, c, k)) = k - c + 1
          /\ \A m \in 1 .. k - c + 1 : SubSeq(y, c, k)[m] = y[c + m - 1]
      BY <1>4, <2>3, PieceMembers
    <3>2. /\ SubSeq(s, i + c, i + k) \in Seq(S)
          /\ Len(SubSeq(s, i + c, i + k)) = (i + k) - (i + c) + 1
          /\ \A m \in 1 .. (i + k) - (i + c) + 1 :
               SubSeq(s, i + c, i + k)[m] = s[(i + c) + m - 1]
      BY <2>4, PieceMembers
    <3>3. (i + k) - (i + c) + 1 = k - c + 1
      BY <1>2, <2>2, <2>3
    <3>4. \A m \in 1 .. k - c + 1 : y[c + m - 1] = s[(i + c) + m - 1]
      <4> SUFFICES ASSUME NEW m \in 1 .. k - c + 1
                   PROVE  y[c + m - 1] = s[(i + c) + m - 1]
        OBVIOUS
      <4>1. c + m - 1 \in 1 .. n /\ i + (c + m - 1) = (i + c) + m - 1
        BY <1>2, <2>1, <2>2, <2>3
      <4> QED BY <1>4, <4>1
    <3> DEFINE a == SubSeq(y, c, k)
               b == SubSeq(s, i + c, i + k)
    <3>5. a \in Seq(S) /\ b \in Seq(S) /\ Len(a) = Len(b)
      BY <3>1, <3>2, <3>3
    <3>6. \A m \in 1 .. Len(a) : a[m] = b[m]
      BY <3>1, <3>2, <3>3, <3>4
    <3> HIDE DEF a, b
    <3>7. a = b
      <4>1. DOMAIN a = 1 .. Len(a) /\ DOMAIN b = 1 .. Len(a)
        BY <3>5
      <4> QED BY <3>5, <3>6, <4>1
    <3> QED BY <3>7 DEF a, b
  <2>6. f[(i + c) - 1] \in {"named", "closed"}
    BY <2>1
  <2>7. f[i + k] = "closed"
    BY <2>2, <2>4, <2>5, <2>6, ReadsPattern
  <2>8. k + 1 \in 1 .. n + 1 /\ k + 1 # 1 /\ i + (k + 1) - 1 = i + k
    BY <1>2, <2>1, <2>2, <2>3
  <2> QED BY <2>7, <2>8
<1> HIDE DEF G
<1>8. Len(y) \in Nat
  BY <1>2, <1>4
<1>9. PICK g : CutsAt(g, PatternEnds(y), n) /\ g[1]
  BY <1>3, <1>4, <1>8, PatternCuts
<1>10. IsEnds(PatternEnds(y), n)
  BY <1>4, <1>8, PatternCuts
<1>11. n + 1 \in G
  BY <1>2, <1>6, <1>7, <1>9, <1>10, CutsReachTheEnd
<1>12. n + 1 # 1 /\ i + (n + 1) - 1 = j
  BY <1>2
<1> QED BY <1>11, <1>12 DEF G

(* A directive and its argument.                                           *)
LEMMA ReadsDirective ==
  ASSUME NEW S, NEW s \in Seq(S), NEW f, IsReading(f, s),
         NEW i \in 1 .. Len(s), NEW j \in i .. Len(s),
         IsDirective(SubSeq(s, i, j)), f[i - 1] \in Between
  PROVE  f[j] = "top"
<1> DEFINE x == SubSeq(s, i, j)
<1>1. /\ Len(x) = j - i + 1
      /\ \A k \in i .. j : s[k] = x[k - i + 1]
  BY PieceMembers
<1>2. j = i + 1 /\ i \in Nat
  BY <1>1 DEF IsDirective
<1>3. /\ s[i].type \in DirectiveTypes /\ s[j].type = Argument[s[i].type]
  <2>1. i \in i .. j /\ j \in i .. j /\ i - i + 1 = 1 /\ j - i + 1 = 2
    BY <1>2
  <2> QED BY <1>1, <2>1 DEF IsDirective
<1>4. f[i] = After(f[i - 1], s[i]) /\ f[j] = After(f[i], s[j])
  <2>1. j \in 1 .. Len(s) /\ j - 1 = i
    BY <1>2
  <2> QED BY <2>1 DEF IsReading
<1>5. f[i] = s[i].type
  BY <1>3, <1>4 DEF After, DirectiveTypes
<1> QED BY <1>3, <1>4, <1>5 DEF After, DirectiveTypes, Between, Argument, Colon

(* What can be cut into rules and directives is read to the end of one.    *)
LEMMA PartsAreRead ==
  ASSUME NEW S, NEW s \in Seq(S), NEW q, Reads(s, q),
         SplitsInto(s, IsRuleOrDirective)
  PROVE  q \in Between
<1> DEFINE n == Len(s)
<1>1. n \in Nat
  OBVIOUS
<1>2. PICK f : IsReading(f, s) /\ f[n] = q
  BY DEF Reads
<1>3. PICK g : CutsAt(g, PartEnds(s), n) /\ g[1]
  BY <1>1, PartCuts
<1>4. IsEnds(PartEnds(s), n)
  BY <1>1, PartCuts
<1> DEFINE G == {c \in 1 .. n + 1 : f[c - 1] \in Between}
<1>5. 1 \in G
  BY <1>1, <1>2 DEF IsReading, Between
<1>6. ASSUME NEW c \in G, NEW k \in PartEnds(s)[c]
      PROVE  k + 1 \in G
  <2>1. k \in c .. n /\ IsRuleOrDirective(SubSeq(s, c, k)) /\ c \in 1 .. n + 1
        /\ f[c - 1] \in Between
    BY <1>6 DEF PartEnds
  <2>2. c \in 1 .. Len(s) /\ k \in c .. Len(s)
    BY <1>1, <2>1
  <2>3. f[k] \in Between
    BY <1>2, <2>1, <2>2, ReadsRule, ReadsDirective DEF IsRuleOrDirective, Between
  <2>4. k + 1 \in 1 .. n + 1 /\ (k + 1) - 1 = k
    BY <1>1, <2>1
  <2> QED BY <2>3, <2>4
<1> HIDE DEF G, n
<1>7. n + 1 \in G
  BY <1>1, <1>3, <1>4, <1>5, <1>6, CutsReachTheEnd
<1>8. (n + 1) - 1 = n
  BY <1>1
<1> QED BY <1>2, <1>7, <1>8 DEF G, n

-----------------------------------------------------------------------------
(* The input cannot be continued to a grammar file, nor is it one.         *)
DeadEnd(s) ==
  /\ s # <<>> /\ Reads(s, "bad")
  /\ Last(s).type = "END_OF_INPUT" =>
       \E q \in ReadingStates \ Between : Reads(Front(s), q)

(* A reading that has gone wrong stays wrong.                              *)
LEMMA BadStays ==
  ASSUME NEW s \in Seq(Token), NEW t \in Token, Reads(s, "bad")
  PROVE  Reads(Append(s, t), "bad")
<1>1. After("bad", t) = "bad"
  BY DEF After, Between, DirectiveTypes
<1>2. Reads(Append(s, t), After("bad", t))
  BY ReadsMore
<1> QED BY <1>1, <1>2

(* What follows a dead end is a dead end.                                  *)
LEMMA DeadGrows ==
  ASSUME NEW s \in Seq(Token), NEW t \in Token, DeadEnd(s)
  PROVE  DeadEnd(Append(s, t))
<1>1. Append(s, t) # <<>> /\ Front(Append(s, t)) = s
  BY FrontLast
<1>2. Reads(s, "bad") /\ Reads(Append(s, t), "bad")
  BY BadStays DEF DeadEnd
<1>3. "bad" \in ReadingStates \ Between
  BY DEF ReadingStates, Between
<1> QED BY <1>1, <1>2, <1>3 DEF DeadEnd

(* No grammar file begins with a dead end.                                 *)
LEMMA DeadIsNotViable ==
  ASSUME NEW s \in Seq(Token), DeadEnd(s)
  PROVE  ~Viable(s)
<1>1. ~Grammatical(s)
  <2> SUFFICES ASSUME Grammatical(s) PROVE FALSE
    OBVIOUS
  <2>1. Last(s) = EndToken /\ s # <<>> /\ SplitsInto(Front(s), IsRuleOrDirective)
    BY DEF Grammatical
  <2>2. PICK q \in ReadingStates \ Between : Reads(Front(s), q)
    BY <2>1 DEF DeadEnd, EndToken
  <2>3. Front(s) \in Seq(Token)
    <3>1. EndToken \in Token
      BY DEF Token
    <3> QED BY <2>1, <3>1, FrontLast
  <2> QED BY <2>1, <2>2, <2>3, PartsAreRead
<1>2. ASSUME NEW u \in Seq(Token), Reads(u, "bad"), Grammatical(u \o <<EndToken>>)
      PROVE  FALSE
  <2>1. EndToken \in Token
    BY DEF Token
  <2>2. u \o <<EndToken>> = Append(u, EndToken)
    BY <2>1
  <2>3. Front(Append(u, EndToken)) = u
    BY <2>1, FrontLast
  <2>4. SplitsInto(u, IsRuleOrDirective)
    BY <1>2, <2>2, <2>3 DEF Grammatical
  <2>5. "bad" \in Between
    BY <1>2, <2>4, PartsAreRead
  <2> QED BY <2>5 DEF Between
<1>3. ASSUME NEW c \in Completions, Grammatical(s \o c \o <<EndToken>>)
      PROVE  FALSE
  <2>1. Reads(s, "bad") /\ Colon \in Token
    BY DEF DeadEnd, Token
  <2>2. CASE c = <<>>
    <3>1. s \o c = s
      BY <2>2
    <3> QED BY <1>2, <1>3, <2>1, <3>1
  <2>3. CASE \E t \in Token : c = <<t>>
    <3>1. PICK t \in Token : c = <<t>>
      BY <2>3
    <3>2. s \o c = Append(s, t) /\ Append(s, t) \in Seq(Token)
      BY <3>1
    <3>3. Reads(Append(s, t), "bad")
      BY <2>1, BadStays
    <3> QED BY <1>2, <1>3, <3>2, <3>3
  <2>4. CASE \E t \in Token : c = <<Colon, t>>
    <3>1. PICK t \in Token : c = <<Colon, t>>
      BY <2>4
    <3>2. /\ Append(s, Colon) \in Seq(Token)
          /\ Append(Append(s, Colon), t) \in Seq(Token)
      BY <2>1
    <3>3. s \o c = Append(Append(s, Colon), t)
      BY <2>1, <3>1
    <3>4. Reads(Append(s, Colon), "bad")
      BY <2>1, BadStays
    <3>5. Reads(Append(Append(s, Colon), t), "bad")
      BY <3>2, <3>4, BadStays
    <3> QED BY <1>2, <1>3, <3>2, <3>3, <3>5
  <2> QED BY <2>2, <2>3, <2>4 DEF Completions
<1> QED BY <1>1, <1>3 DEF Viable

(* No grammar file begins with a dead end, whatever tokens come behind it. *)
LEMMA DeadBeginsNothing ==
  ASSUME NEW S, NEW s \in Seq(S), NEW u \in Seq(Token), DeadEnd(u),
         Len(u) <= Len(s), \A k \in 1 .. Len(u) : s[k] = u[k]
  PROVE  ~Grammatical(s)
<1> DEFINE n == Len(u)
           m == Len(s)
<1>1. n \in Nat /\ m \in Nat /\ n <= m /\ n # 0 /\ \A k \in 1 .. n : s[k] = u[k]
  BY DEF DeadEnd
<1>2. CASE n = m
  <2>1. s = u
    BY <1>1, <1>2
  <2> QED BY <2>1, DeadIsNotViable DEF Viable
<1>3. CASE n # m
  <2> SUFFICES ASSUME Grammatical(s) PROVE FALSE
    OBVIOUS
  <2> DEFINE v == Front(s)
  <2>1. SplitsInto(v, IsRuleOrDirective)
    BY DEF Grammatical
  <2>2. v \in Seq(S) /\ Len(v) = m - 1 /\ \A k \in 1 .. m - 1 : v[k] = s[k]
    BY <1>1, <1>3 DEF Front
  <2>3. PICK f : IsReading(f, u) /\ f[n] = "bad"
    BY DEF DeadEnd, Reads
  <2> DEFINE g == [i \in 0 .. m |-> IF i <= n THEN f[i] ELSE "bad"]
  <2>4. /\ \A i \in 0 .. n : g[i] = f[i]
        /\ \A i \in n .. m : g[i] = "bad"
    BY <1>1, <2>3
  <2> HIDE DEF n, m, v, g
  <2>5. g[0] = "top"
    BY <1>1, <2>3, <2>4 DEF IsReading
  <2>6. ASSUME NEW i \in 1 .. m - 1 PROVE g[i] = After(g[i - 1], v[i])
    <3>1. CASE i <= n
      <4>1. i \in 1 .. n /\ i - 1 \in 0 .. n /\ i \in 0 .. n
        BY <1>1, <3>1
      <4>2. f[i] = After(f[i - 1], u[i])
        BY <2>3, <4>1 DEF IsReading, n
      <4>3. v[i] = u[i]
        BY <1>1, <2>2, <4>1
      <4> QED BY <2>4, <4>1, <4>2, <4>3
    <3>2. CASE ~(i <= n)
      <4>1. i \in n .. m /\ i - 1 \in n .. m
        BY <1>1, <3>2
      <4>2. After("bad", v[i]) = "bad"
        BY DEF After, Between, DirectiveTypes
      <4> QED BY <2>4, <4>1, <4>2
    <3> QED BY <3>1, <3>2
  <2>7. m - 1 \in n .. m
    BY <1>1, <1>3
  <2>8. IsReading(g, v) /\ g[Len(v)] = "bad"
    BY <2>2, <2>4, <2>5, <2>6, <2>7 DEF IsReading
  <2>9. Reads(v, "bad")
    BY <2>8 DEF Reads
  <2>10. "bad" \in Between
    BY <2>1, <2>2, <2>9, PartsAreRead
  <2> QED BY <2>10 DEF Between
<1> QED BY <1>2, <1>3

-----------------------------------------------------------------------------
(* A rule under construction, written out: its name and whole patterns.    *)
PartialRule(r) ==
  /\ RuleAsTokens(r) \in Seq(Token) /\ RuleAsTokens(r) # <<>>
  /\ RuleAsTokens(r)[1].type = "SYMBOL"
  /\ SplitsInto(Tail(RuleAsTokens(r)), IsPattern)
  /\ r.patterns # <<>> => Len(RuleAsTokens(r)) >= 3

(* A well formed pattern is written as the grammar wants a pattern.        *)
LEMMA PatternIsPattern ==
  ASSUME NEW p \in Pattern, PatternWellFormed(p)
  PROVE  PatternTokens(p) \in Seq(Token) /\ IsPattern(PatternTokens(p))
<1> DEFINE f == [e \in DOMAIN p.elems |->
                   [type |-> "SYMBOL", str |-> p.elems[e].str]]
           b == [type |-> "BLOCK", str |-> p.code]
           n == Len(p.elems)
<1>1. p.elems \in Seq(PatElem) /\ p.code \in Blocks
  BY DEF Pattern, PatternWellFormed
<1>2. /\ n \in Nat /\ f \in Seq(Token) /\ Len(f) = n
      /\ \A i \in 1 .. n : f[i].type = "SYMBOL"
  <2>1. \A e \in PatElem : e.str \in Symbols
    BY DEF PatElem
  <2>2. \A i \in DOMAIN p.elems : p.elems[i].str \in Symbols
    BY <1>1, <2>1
  <2>3. \A i \in DOMAIN p.elems : f[i] \in Token /\ f[i].type = "SYMBOL"
    BY <2>2 DEF Token
  <2>4. DOMAIN p.elems = 1 .. n /\ n \in Nat
    BY <1>1
  <2>5. f \in [1 .. n -> Token]
    BY <2>3, <2>4
  <2> QED BY <2>3, <2>4, <2>5
<1>3. b \in Token /\ b.type = "BLOCK" /\ Colon \in Token
  BY <1>1 DEF Token
<1>4. PatternTokens(p) = <<Colon>> \o f \o <<b>>
  BY DEF PatternTokens
<1> HIDE DEF f, b, n
<1> DEFINE x == <<Colon>> \o f \o <<b>>
<1>5. x \in Seq(Token) /\ Len(x) = n + 2 /\ x[1] = Colon /\ x[n + 2] = b
  BY <1>2, <1>3
<1>6. \A i \in 2 .. n + 1 : x[i].type = "SYMBOL"
  <2> SUFFICES ASSUME NEW i \in 2 .. n + 1 PROVE x[i].type = "SYMBOL"
    OBVIOUS
  <2>1. i - 1 \in 1 .. n
    BY <1>2
  <2>2. x[i] = f[i - 1]
    BY <1>2, <1>3, <2>1
  <2> QED BY <1>2, <2>1, <2>2
<1> HIDE DEF x
<1>7. IsPattern(x)
  <2>1. Len(x) - 1 = n + 1 /\ Len(x) >= 2
    BY <1>2, <1>5
  <2> QED BY <1>3, <1>5, <1>6, <2>1 DEF IsPattern
<1> QED BY <1>4, <1>5, <1>7 DEF x

(* A rule stays one when it gets a well formed pattern.                    *)
LEMMA PartialRuleGrows ==
  ASSUME NEW r \in Rule, NEW p \in Pattern, PartialRule(r), PatternWellFormed(p),
         NEW q, q = [r EXCEPT !.patterns = Append(r.patterns, p)]
  PROVE  PartialRule(q)
<1> DEFINE x == RuleAsTokens(r)
           y == PatternTokens(p)
<1>1. RuleAsTokens(q) = x \o y
  BY RuleAsTokensAppend
<1>2. /\ x \in Seq(Token) /\ x # <<>> /\ x[1].type = "SYMBOL"
      /\ SplitsInto(Tail(x), IsPattern)
  BY DEF PartialRule
<1>3. y \in Seq(Token) /\ IsPattern(y) /\ Len(y) >= 2
  BY PatternIsPattern DEF IsPattern
<1> HIDE DEF x, y
<1>4. /\ x \o y \in Seq(Token) /\ x \o y # <<>> /\ (x \o y)[1] = x[1]
      /\ Len(x \o y) >= 3
  BY <1>2, <1>3
<1>5. Tail(x \o y) = Tail(x) \o y /\ Tail(x) \in Seq(Token)
  BY <1>2, <1>3
<1>6. SplitsInto(Tail(x \o y), IsPattern)
  BY <1>2, <1>3, <1>5, PatternsGrow
<1> QED BY <1>1, <1>2, <1>4, <1>6 DEF PartialRule

(* A rule that has a pattern is a whole one.                               *)
LEMMA PartialRuleIsRule ==
  ASSUME NEW r, PartialRule(r), r.patterns # <<>>
  PROVE  IsRule(RuleAsTokens(r))
BY DEF PartialRule, IsRule

-----------------------------------------------------------------------------
(***************************************************************************)
(* How the input was read, step by step: without a report it is cut into   *)
(* whole rules and directives up to the part under construction; after a   *)
(* report it is a dead end.                                                *)
(***************************************************************************)
RuleSoFar ==
  RuleAsTokens(rule) \o (IF pc = "elems" THEN OpenPattern(elems) ELSE <<>>)

StateInRule ==
  IF pc = "elems" THEN "open"
  ELSE IF rule.patterns = <<>> THEN "named" ELSE "closed"

BetweenParts ==
  /\ SplitsInto(Front(input), IsRuleOrDirective)
  /\ \E q \in Between :
       Reads(Front(input), q) /\ (q = "closed" => tok.type # "COLON")

BehindArgument ==
  SplitsInto(input, IsRuleOrDirective) /\ Reads(input, "top")

WithinRule ==
  /\ Reads(input, StateInRule)
  /\ PartialRule(rule)
  /\ \E b \in Seq(Token) :
       SplitsInto(b, IsRuleOrDirective) /\ input = b \o RuleSoFar

VerdictInv ==
  /\ InParser =>
       /\ pc \in {"top", "done"} => BetweenParts
       /\ pc = "done" => tok.type = "END_OF_INPUT"
       /\ pc = "skip" => BehindArgument
       /\ pc \in {"alternatives", "elems"} => WithinRule
  /\ errors # 0 /\ pc \notin {"fatal", "nomemory", "hung"} => DeadEnd(input)

FullInv == MeaningInv /\ VerdictInv

(* A step reads one token or none.                                         *)
LEMMA InputGrows ==
  ASSUME IInv, [Next]_parserVars
  PROVE  input' = input \/ \E t \in Token : input' = Append(input, t)
<1>1. CASE \E t \in NextTokens : Read(t)
  BY <1>1, NextTokensAreTokens DEF Read, IInv, TypeOK
<1>2. CASE UNCHANGED input
  BY <1>2
<1>3. BeginPattern => \E t \in NextTokens : Read(t)
  BY DEF BeginPattern
<1> QED BY <1>1, <1>2, <1>3
        DEF Next, ParseStep, ReadStep, LocalStep, CreateParser, BeginRule,
            AddElem, EndPattern, EndRule, ParseVerbo, ParsePrefix,
            ParseName, ParseCode, ParseArgument, SkipArgument, Unexpected,
            Finish, ScannerStops, Terminated, parserVars

(* After a report the input stays a dead end.                              *)
LEMMA DeadStays ==
  ASSUME FullInv, [Next]_parserVars, errors # 0
  PROVE  VerdictInv'
<1>1. IInv /\ input \in Seq(Token) /\ errors \in Nat
  BY DEF FullInv, MeaningInv, IInv, TypeOK
<1>2. errors' # 0
  <2>1. CASE Next
    BY <1>1, <2>1, ErrorsStay
  <2>2. CASE UNCHANGED parserVars
    BY <2>2 DEF parserVars
  <2> QED BY <2>1, <2>2
<1>3. CASE pc \in {"fatal", "nomemory", "hung"}
  <2>1. pc' = pc
    BY <1>3 DEF Next, ParseStep, ReadStep, LocalStep, CreateParser, BeginRule,
            BeginPattern, AddElem, EndPattern, EndRule, ParseVerbo, ParsePrefix,
            ParseName, ParseCode, ParseArgument, SkipArgument, Unexpected,
            Finish, ScannerStops, Terminated, Stopped, Exited, Consuming, AtTop,
            parserVars
  <2> QED BY <1>2, <1>3, <2>1 DEF VerdictInv, InParser
<1>4. CASE pc \notin {"fatal", "nomemory", "hung"}
  <2>1. DeadEnd(input)
    BY <1>4 DEF FullInv, VerdictInv
  <2>2. DeadEnd(input')
    <3>1. CASE input' = input
      BY <2>1, <3>1 DEF DeadEnd, Last, Front, Reads, IsReading
    <3>2. CASE \E t \in Token : input' = Append(input, t)
      <4>1. PICK t \in Token : input' = Append(input, t)
        BY <3>2
      <4>2. DeadEnd(Append(input, t))
        BY <1>1, <2>1, DeadGrows
      <4> QED BY <4>1, <4>2 DEF DeadEnd, Last, Front, Reads, IsReading
    <3> QED BY <1>1, <3>1, <3>2, InputGrows
  <2> QED BY <1>2, <2>2 DEF VerdictInv, InParser
<1> QED BY <1>3, <1>4

(* A token that makes the reading go wrong, and is not the end of an input *)
(* whose reading stood between two parts, leaves a dead end.               *)
LEMMA WrongToken ==
  ASSUME NEW s \in Seq(Token), NEW t \in Token, NEW q \in ReadingStates,
         Reads(s, q), After(q, t) = "bad",
         t.type = "END_OF_INPUT" => q \notin Between
  PROVE  DeadEnd(Append(s, t))
<1>1. /\ Append(s, t) # <<>> /\ Front(Append(s, t)) = s
      /\ Last(Append(s, t)) = t
  BY FrontLast
<1>2. Reads(Append(s, t), "bad")
  BY ReadsMore
<1> QED BY <1>1, <1>2 DEF DeadEnd

(* The first token of all.                                                 *)
LEMMA CreateVerdict ==
  ASSUME FullInv, CreateParser, errors = 0
  PROVE  VerdictInv'
<1>1. MeaningInv /\ Untouched /\ pc = "create" /\ pc' = "top"
  BY DEF CreateParser, FullInv, MeaningInv, HistoryInv
<1>2. PICK t \in NextTokens : Read(t) /\ errors' = errors + ScanErrors(t)
  BY DEF CreateParser
<1>3. /\ t \in Token /\ tok' = t /\ input' = Append(<<>>, t)
      /\ Front(input') = <<>>
  BY <1>1, <1>2, CleanRead DEF Untouched
<1>4. BetweenParts'
  BY <1>3, NothingSplits, ReadsNothing DEF BetweenParts, Between
<1>5. ASSUME errors' # 0 PROVE DeadEnd(input')
  <2>1. t.type = "ERROR"
    BY <1>2, <1>5 DEF ScanErrors, Report
  <2>2. After("top", t) = "bad"
    BY <2>1 DEF After, Between, DirectiveTypes, Colon
  <2>3. <<>> \in Seq(Token) /\ "top" \in ReadingStates
    BY DEF ReadingStates
  <2>4. DeadEnd(Append(<<>>, t))
    BY <1>3, <2>1, <2>2, <2>3, ReadsNothing, WrongToken
  <2> QED BY <1>3, <2>4
<1> QED BY <1>1, <1>4, <1>5 DEF VerdictInv

(* The name of a rule after whole parts.                                   *)
LEMMA BeginRuleVerdict ==
  ASSUME FullInv, BeginRule
  PROVE  VerdictInv'
<1>1. /\ pc = "top" /\ errors = 0 /\ tok.type = "SYMBOL" /\ pc' = "alternatives"
      /\ rule' = [name |-> tok.str, patterns |-> <<>>]
      /\ UNCHANGED <<tok, errors, input>>
  BY DEF BeginRule, AtTop
<1>2. /\ input \in Seq(Token) /\ tok \in Token /\ input # <<>> /\ Last(input) = tok
      /\ BetweenParts
  BY <1>1 DEF FullInv, MeaningInv, IInv, TypeOK, HistoryInv, VerdictInv, InParser
<1>3. Front(input) \in Seq(Token) /\ input = Append(Front(input), tok)
  BY <1>2, FrontLast
<1>4. RuleAsTokens(rule') = <<tok>>
  BY <1>1, <1>2, NewRuleTokens
<1>5. Reads(input, "named")
  <2>1. PICK q \in Between : Reads(Front(input), q)
    BY <1>2 DEF BetweenParts
  <2>2. After(q, tok) = "named"
    BY <1>1 DEF After
  <2>3. Reads(Append(Front(input), tok), After(q, tok))
    BY <1>2, <1>3, <2>1, ReadsMore
  <2> QED BY <1>3, <2>2, <2>3
<1>6. PartialRule(rule')
  <2>1. /\ <<tok>> \in Seq(Token) /\ <<tok>> # <<>> /\ <<tok>>[1] = tok
        /\ Tail(<<tok>>) = <<>>
    BY <1>2
  <2>2. rule'.patterns = <<>>
    BY <1>1
  <2> QED BY <1>1, <1>4, <2>1, <2>2, NothingSplits DEF PartialRule
<1>7. input = Front(input) \o (RuleAsTokens(rule') \o <<>>)
  BY <1>2, <1>3, <1>4
<1>8. WithinRule'
  <2>1. RuleSoFar' = RuleAsTokens(rule') \o <<>> /\ StateInRule' = "named"
    BY <1>1 DEF RuleSoFar, StateInRule
  <2>2. SplitsInto(Front(input), IsRuleOrDirective)
    BY <1>2 DEF BetweenParts
  <2>3. PartialRule(rule)'
    BY <1>6 DEF PartialRule, RuleAsTokens
  <2> QED BY <1>1, <1>3, <1>5, <1>7, <2>1, <2>2, <2>3 DEF WithinRule
<1> QED BY <1>1, <1>8 DEF VerdictInv

(* The tokens of an unfinished pattern, and how parts are put together.    *)
LEMMA OpenPatternIsTokens ==
  ASSUME NEW es \in Seq(PatElem)
  PROVE  OpenPattern(es) \in Seq(Token)
<1> DEFINE f == [e \in DOMAIN es |-> [type |-> "SYMBOL", str |-> es[e].str]]
<1>1. f \in Seq(Token)
  <2>1. \A e \in PatElem : e.str \in Symbols
    BY DEF PatElem
  <2>2. \A i \in DOMAIN es : es[i].str \in Symbols
    BY <2>1
  <2>3. \A i \in DOMAIN es : [type |-> "SYMBOL", str |-> es[i].str] \in Token
    BY <2>2 DEF Token
  <2>4. DOMAIN es = 1 .. Len(es) /\ Len(es) \in Nat
    OBVIOUS
  <2> QED BY <2>3, <2>4
<1>2. Colon \in Token
  BY DEF Token
<1>3. OpenPattern(es) = <<Colon>> \o f
  BY DEF OpenPattern
<1> HIDE DEF f
<1> QED BY <1>1, <1>2, <1>3

(* Concatenation associates, stated for tokens.                            *)
LEMMA TokensAssociate ==
  ASSUME NEW x \in Seq(Token), NEW y \in Seq(Token), NEW z \in Seq(Token)
  PROVE  x \o (y \o z) = (x \o y) \o z
BY ConcatAssociative, SMTT(30)

(* What VerdictInv says within a rule, and what the next token adds to it. *)
LEMMA WithinRuleRead ==
  ASSUME FullInv, errors = 0, pc \in {"alternatives", "elems"},
         NEW t \in NextTokens, Read(t)
  PROVE  /\ t \in Token /\ tok' = t /\ input \in Seq(Token)
         /\ input' = Append(input, t) /\ Front(input') = input
         /\ Reads(input, StateInRule) /\ StateInRule \in ReadingStates \ {"top"}
         /\ Reads(input', After(StateInRule, t))
         /\ rule \in Rule /\ PartialRule(rule) /\ elems \in Seq(PatElem)
         /\ \E b \in Seq(Token) :
              SplitsInto(b, IsRuleOrDirective) /\ input = b \o RuleSoFar
         /\ RuleSoFar \in Seq(Token)
<1>1. MeaningInv /\ WithinRule
  BY DEF FullInv, VerdictInv, InParser
<1>2. /\ t \in Token /\ tok' = t /\ input \in Seq(Token)
      /\ input' = Append(input, t) /\ Front(input') = input
  BY <1>1, CleanRead
<1>3. Reads(input', After(StateInRule, t))
  <2>1. Reads(Append(input, t), After(StateInRule, t))
    BY <1>1, <1>2, ReadsMore DEF WithinRule
  <2> QED BY <1>2, <2>1
<1>4. rule \in Rule /\ elems \in Seq(PatElem)
  BY <1>1 DEF MeaningInv, IInv, TypeOK
<1>5. StateInRule \in ReadingStates \ {"top"}
  BY DEF StateInRule, ReadingStates
<1>6. RuleSoFar \in Seq(Token)
  <2>1. RuleAsTokens(rule) \in Seq(Token)
    BY <1>1 DEF WithinRule, PartialRule
  <2>2. OpenPattern(elems) \in Seq(Token)
    BY <1>4, OpenPatternIsTokens
  <2> QED BY <2>1, <2>2 DEF RuleSoFar
<1> QED BY <1>1, <1>2, <1>3, <1>4, <1>5, <1>6 DEF WithinRule

(* After the colon the rule goes on with an empty pattern.                 *)
LEMMA BeginPatternVerdict ==
  ASSUME FullInv, BeginPattern, errors = 0
  PROVE  VerdictInv'
<1>1. /\ pc = "alternatives" /\ pc' = "elems" /\ elems' = <<>>
      /\ Colon \in NextTokens /\ Read(Colon)
      /\ UNCHANGED <<errors, rule>>
  BY DEF BeginPattern
<1>2. /\ input \in Seq(Token) /\ input' = Append(input, Colon)
      /\ Reads(input', After(StateInRule, Colon))
      /\ PartialRule(rule) /\ Colon \in Token
  BY <1>1, WithinRuleRead
<1>3. After(StateInRule, Colon) = "open" /\ StateInRule' = "open"
  BY <1>1 DEF StateInRule, After, Between, Colon, DirectiveTypes
<1>4. PICK b \in Seq(Token) :
        SplitsInto(b, IsRuleOrDirective) /\ input = b \o RuleSoFar
  BY <1>1, WithinRuleRead
<1>5. RuleAsTokens(rule) \in Seq(Token)
  BY <1>2 DEF PartialRule
<1>6. RuleSoFar = RuleAsTokens(rule) /\ RuleSoFar' = RuleAsTokens(rule) \o <<Colon>>
  <2>1. OpenPattern(elems') = <<Colon>>
    BY <1>1, OpenPatternAppend
  <2>2. RuleSoFar = RuleAsTokens(rule) \o <<>>
    BY <1>1 DEF RuleSoFar
  <2>3. RuleAsTokens(rule) \o <<>> = RuleAsTokens(rule)
    BY <1>5
  <2>4. RuleSoFar' = RuleAsTokens(rule) \o <<Colon>>
    BY <1>1, <2>1 DEF RuleSoFar
  <2> QED BY <2>2, <2>3, <2>4
<1>7. input' = b \o RuleSoFar'
  <2>1. input' = (b \o RuleAsTokens(rule)) \o <<Colon>>
    <3>1. Append(input, Colon) = input \o <<Colon>>
      BY <1>2
    <3> QED BY <1>2, <1>4, <1>6, <3>1
  <2>2. b \o (RuleAsTokens(rule) \o <<Colon>>) = (b \o RuleAsTokens(rule)) \o <<Colon>>
    BY <1>2, <1>5, TokensAssociate
  <2> QED BY <1>6, <2>1, <2>2
<1>8. PartialRule(rule)'
  BY <1>1, <1>2
<1>9. WithinRule'
  BY <1>2, <1>3, <1>4, <1>7, <1>8 DEF WithinRule
<1> QED BY <1>1, <1>9 DEF VerdictInv

(* A symbol continues the open pattern.                                    *)
LEMMA AddElemVerdict ==
  ASSUME FullInv, AddElem, errors = 0
  PROVE  VerdictInv'
<1>1. /\ pc = "elems" /\ pc' = "elems" /\ UNCHANGED <<errors, rule>>
  BY DEF AddElem
<1>2. PICK t \in NextTokens :
        t.type = "SYMBOL" /\ Read(t) /\ elems' = Append(elems, NewElem(t.str))
  BY DEF AddElem, ElemsWith
<1>3. /\ t \in Token /\ input \in Seq(Token) /\ input' = Append(input, t)
      /\ Reads(input', After(StateInRule, t))
      /\ PartialRule(rule) /\ elems \in Seq(PatElem)
  BY <1>1, <1>2, WithinRuleRead
<1>4. After(StateInRule, t) = "open" /\ StateInRule' = "open"
  BY <1>1, <1>2 DEF StateInRule, After, Between, Colon, DirectiveTypes
<1>5. PICK b \in Seq(Token) :
        SplitsInto(b, IsRuleOrDirective) /\ input = b \o RuleSoFar
  BY <1>1, <1>2, WithinRuleRead
<1>6. RuleAsTokens(rule) \in Seq(Token) /\ OpenPattern(elems) \in Seq(Token)
  BY <1>3, OpenPatternIsTokens DEF PartialRule
<1>7. OpenPattern(elems') = OpenPattern(elems) \o <<t>>
  <2>1. t.str \in Symbols /\ [type |-> "SYMBOL", str |-> t.str] = t
    BY <1>2, <1>3 DEF Token, DirectiveTypes, Colon, BadDirective, BadChar, EndToken
  <2>2. OpenPattern(Append(elems, NewElem(t.str))) = OpenPattern(elems) \o <<t>>
    BY <1>3, <2>1, OpenPatternAppend
  <2> QED BY <1>2, <2>2
<1>8. /\ RuleSoFar = RuleAsTokens(rule) \o OpenPattern(elems)
      /\ RuleSoFar' = RuleAsTokens(rule) \o (OpenPattern(elems) \o <<t>>)
  BY <1>1, <1>7 DEF RuleSoFar
<1>9. input' = b \o RuleSoFar'
  <2>1. input' = (b \o RuleSoFar) \o <<t>> /\ <<t>> \in Seq(Token)
    BY <1>3, <1>5
  <2>2. RuleSoFar \in Seq(Token)
    BY <1>6, <1>8
  <2>3. RuleSoFar' = RuleSoFar \o <<t>>
    BY <1>6, <1>8, <2>1, TokensAssociate
  <2>4. b \o (RuleSoFar \o <<t>>) = (b \o RuleSoFar) \o <<t>>
    BY <2>1, <2>2, TokensAssociate
  <2> QED BY <2>1, <2>3, <2>4
<1>10. PartialRule(rule)'
  BY <1>1, <1>3
<1>11. WithinRule'
  BY <1>3, <1>4, <1>5, <1>9, <1>10 DEF WithinRule
<1> QED BY <1>1, <1>11 DEF VerdictInv

(* A block closes the pattern; any other token ends in a dead end.         *)
LEMMA EndPatternVerdict ==
  ASSUME FullInv, EndPattern, errors = 0
  PROVE  VerdictInv'
<1>1. pc = "elems" /\ pc' = "alternatives"
  BY DEF EndPattern
<1>2. PICK t \in NextTokens :
        /\ t.type # "SYMBOL" /\ Read(t)
        /\ rule' = [rule EXCEPT !.patterns =
                      Append(@, [elems |-> elems, code |-> CodeOf(t)])]
        /\ errors' = errors + ScanErrors(t) + PatternErrors(t)
  BY DEF EndPattern
<1>3. /\ t \in Token /\ input \in Seq(Token) /\ input' = Append(input, t)
      /\ Reads(input, StateInRule) /\ Reads(input', After(StateInRule, t))
      /\ rule \in Rule /\ PartialRule(rule) /\ elems \in Seq(PatElem)
  BY <1>1, <1>2, WithinRuleRead
<1>4. StateInRule = "open"
  BY <1>1 DEF StateInRule
<1>5. ASSUME errors' # 0 PROVE DeadEnd(input')
  <2>1. t.type # "BLOCK"
    BY <1>2, <1>5 DEF ScanErrors, PatternErrors, Report
  <2>2. After("open", t) = "bad" /\ "open" \in ReadingStates \ Between
    BY <1>2, <2>1 DEF After, Between, DirectiveTypes, Colon, ReadingStates
  <2>3. DeadEnd(Append(input, t))
    BY <1>3, <1>4, <2>2, WrongToken
  <2> QED BY <1>3, <2>3
<1>6. ASSUME errors' = 0 PROVE WithinRule'
  <2>1. t.type = "BLOCK"
    <3>1. ScanErrors(t) \in Nat /\ PatternErrors(t) \in Nat
      BY Reports
    <3>2. PatternErrors(t) = 0
      BY <1>2, <1>6, <3>1
    <3> QED BY <3>2, Reports
  <2> DEFINE p == [elems |-> elems, code |-> t.str]
  <2>2. t.str \in Blocks /\ [type |-> "BLOCK", str |-> t.str] = t
    BY <1>3, <2>1 DEF Token, DirectiveTypes, Colon, BadDirective, BadChar, EndToken
  <2>3. /\ p \in Pattern /\ PatternWellFormed(p)
        /\ rule' = [rule EXCEPT !.patterns = Append(rule.patterns, p)]
    BY <1>2, <1>3, <2>1, <2>2 DEF Pattern, CodeOf, PatternWellFormed
  <2>4. PatternTokens(p) = OpenPattern(elems) \o <<t>>
    <3>1. p.elems = elems /\ p.code = t.str
      OBVIOUS
    <3> QED BY <2>2, <2>3, <3>1, PatternTokensAre
  <2> HIDE DEF p
  <2>5. PartialRule(rule')
    BY <1>3, <2>3, PartialRuleGrows
  <2>6. RuleAsTokens(rule') = RuleAsTokens(rule) \o (OpenPattern(elems) \o <<t>>)
    <3>1. RuleAsTokens([rule EXCEPT !.patterns = Append(rule.patterns, p)]) =
            RuleAsTokens(rule) \o PatternTokens(p)
      BY <1>3, <2>3, RuleAsTokensAppend
    <3> QED BY <2>3, <2>4, <3>1
  <2>7. PICK b \in Seq(Token) :
          SplitsInto(b, IsRuleOrDirective) /\ input = b \o RuleSoFar
    BY <1>1, <1>2, WithinRuleRead
  <2>8. /\ RuleAsTokens(rule) \in Seq(Token) /\ OpenPattern(elems) \in Seq(Token)
        /\ RuleAsTokens(rule') \in Seq(Token)
    BY <1>3, <2>5, OpenPatternIsTokens DEF PartialRule
  <2>9. /\ RuleSoFar = RuleAsTokens(rule) \o OpenPattern(elems)
        /\ RuleSoFar' = RuleAsTokens(rule')
    <3>1. RuleSoFar' = RuleAsTokens(rule') \o <<>>
      BY <1>1 DEF RuleSoFar
    <3>2. RuleSoFar' = RuleAsTokens(rule')
      BY <2>8, <3>1
    <3> QED BY <1>1, <3>2 DEF RuleSoFar
  <2>10. input' = b \o RuleSoFar'
    <3>1. input' = (b \o RuleSoFar) \o <<t>> /\ <<t>> \in Seq(Token)
      <4>1. Append(input, t) = input \o <<t>> /\ <<t>> \in Seq(Token)
        BY <1>3
      <4> QED BY <1>3, <2>7, <4>1
    <3>2. RuleSoFar \in Seq(Token)
      BY <2>8, <2>9
    <3>3. RuleSoFar' = RuleSoFar \o <<t>>
      BY <2>6, <2>8, <2>9, <3>1, TokensAssociate
    <3>4. b \o (RuleSoFar \o <<t>>) = (b \o RuleSoFar) \o <<t>>
      BY <3>1, <3>2, TokensAssociate
    <3> QED BY <3>1, <3>3, <3>4
  <2>11. StateInRule' = "closed" /\ After(StateInRule, t) = "closed"
    <3>1. rule'.patterns # <<>>
      <4>1. rule.patterns \in Seq(Pattern) /\ rule'.patterns = Append(rule.patterns, p)
        BY <1>3, <2>3 DEF Rule
      <4> QED BY <4>1
    <3>2. After("open", t) = "closed"
      BY <2>1 DEF After, Between, DirectiveTypes, Colon
    <3> QED BY <1>1, <1>4, <3>1, <3>2 DEF StateInRule
  <2>12. PartialRule(rule)'
    BY <2>5
  <2> QED BY <1>3, <2>7, <2>10, <2>11, <2>12 DEF WithinRule
<1>7. CASE errors' = 0
  BY <1>1, <1>6, <1>7 DEF VerdictInv
<1>8. CASE errors' # 0
  BY <1>1, <1>5, <1>8 DEF VerdictInv, InParser
<1> QED BY <1>7, <1>8

(* A rule with patterns is one more part; one without is a dead end.       *)
LEMMA EndRuleVerdict ==
  ASSUME FullInv, EndRule, errors = 0
  PROVE  VerdictInv'
<1>1. pc = "alternatives" /\ pc' = "top"
  BY DEF EndRule
<1>2. PICK t \in NextTokens :
        /\ t.type # "COLON" /\ Read(t)
        /\ errors' = errors + ScanErrors(t) + RuleErrors(rule)
  BY DEF EndRule
<1>3. /\ t \in Token /\ tok' = t /\ input \in Seq(Token)
      /\ input' = Append(input, t) /\ Front(input') = input
      /\ Reads(input, StateInRule) /\ PartialRule(rule)
  BY <1>1, <1>2, WithinRuleRead
<1>4. StateInRule = IF rule.patterns = <<>> THEN "named" ELSE "closed"
  BY <1>1 DEF StateInRule
<1>5. ASSUME errors' # 0 PROVE DeadEnd(input')
  <2>1. After(StateInRule, t) = "bad" /\ StateInRule \in ReadingStates
        /\ (t.type = "END_OF_INPUT" => StateInRule \notin Between)
    <3>1. t # Colon
      BY <1>2 DEF Colon
    <3>2. CASE rule.patterns = <<>>
      BY <1>4, <3>1, <3>2 DEF After, Between, DirectiveTypes, ReadingStates
    <3>3. CASE rule.patterns # <<>>
      <4>1. t.type = "ERROR"
        BY <1>2, <1>5, <3>3 DEF ScanErrors, RuleErrors, Report
      <4> QED BY <1>4, <3>1, <3>3, <4>1
              DEF After, Between, DirectiveTypes, ReadingStates
    <3> QED BY <3>2, <3>3
  <2>2. DeadEnd(Append(input, t))
    BY <1>3, <2>1, WrongToken
  <2> QED BY <1>3, <2>2
<1>6. ASSUME errors' = 0 PROVE BetweenParts'
  <2>1. rule.patterns # <<>>
    <3>1. ScanErrors(t) \in Nat /\ RuleErrors(rule) \in Nat
      BY Reports DEF RuleErrors, Report
    <3>2. RuleErrors(rule) = 0
      BY <1>2, <1>6, <3>1
    <3> QED BY <3>2 DEF RuleErrors, Report
  <2>2. IsRuleOrDirective(RuleAsTokens(rule)) /\ RuleAsTokens(rule) \in Seq(Token)
    BY <1>3, <2>1, PartialRuleIsRule DEF IsRuleOrDirective, PartialRule
  <2>3. PICK b \in Seq(Token) :
          SplitsInto(b, IsRuleOrDirective) /\ input = b \o RuleSoFar
    BY <1>1, <1>2, WithinRuleRead
  <2>4. RuleSoFar = RuleAsTokens(rule)
    <3>1. RuleSoFar = RuleAsTokens(rule) \o <<>>
      BY <1>1 DEF RuleSoFar
    <3> QED BY <2>2, <3>1
  <2>5. SplitsInto(b \o RuleAsTokens(rule), IsRuleOrDirective)
    BY <2>2, <2>3, PartsGrow
  <2>6. SplitsInto(input, IsRuleOrDirective)
    BY <2>3, <2>4, <2>5
  <2>7. Reads(input, "closed") /\ "closed" \in Between
    BY <1>3, <1>4, <2>1 DEF Between
  <2>8. tok'.type # "COLON" /\ Front(input') = input
    BY <1>2, <1>3
  <2> QED BY <2>6, <2>7, <2>8 DEF BetweenParts
<1>7. CASE errors' = 0
  BY <1>1, <1>6, <1>7 DEF VerdictInv
<1>8. CASE errors' # 0
  BY <1>1, <1>5, <1>8 DEF VerdictInv, InParser
<1> QED BY <1>7, <1>8

(* A directive with its argument is one more part.                         *)
LEMMA ArgumentVerdict ==
  ASSUME FullInv, ParseVerbo \/ ParsePrefix \/ ParseName \/ ParseCode, errors = 0
  PROVE  VerdictInv'
<1>1. pc = "top" /\ pc' = "skip" /\ tok.type \in DirectiveTypes
  BY DEF ParseVerbo, ParsePrefix, ParseName, ParseCode, ParseArgument, AtTop,
         DirectiveTypes
<1>2. MeaningInv /\ BetweenParts
  BY <1>1 DEF FullInv, VerdictInv, InParser
<1>3. PICK t \in NextTokens :
        /\ Read(t)
        /\ t.type = Argument[tok.type] => errors' = errors
        /\ t.type # Argument[tok.type] => errors' = errors + ScanErrors(t) + 1
  BY DEF ParseVerbo, ParsePrefix, ParseName, ParseCode, ParseArgument, AtTop,
         Argument
<1>4. /\ t \in Token /\ input' = Append(input, t) /\ input \in Seq(Token)
  BY <1>1, <1>2, <1>3, CleanRead
<1>5. tok \in Token /\ input # <<>> /\ Last(input) = tok
  BY <1>1, <1>2 DEF MeaningInv, IInv, TypeOK, HistoryInv, InParser
<1>6. Front(input) \in Seq(Token) /\ input = Append(Front(input), tok)
  BY <1>4, <1>5, FrontLast
<1>7. Reads(input, tok.type) /\ tok.type \in ReadingStates \ Between
  <2>1. PICK q \in Between : Reads(Front(input), q)
    BY <1>2 DEF BetweenParts
  <2>2. After(q, tok) = tok.type
    BY <1>1 DEF After, DirectiveTypes
  <2>3. Reads(Append(Front(input), tok), After(q, tok))
    BY <1>5, <1>6, <2>1, ReadsMore
  <2> QED BY <1>1, <1>6, <2>2, <2>3 DEF ReadingStates, Between, DirectiveTypes
<1>8. ASSUME errors' # 0 PROVE DeadEnd(input')
  <2>1. t.type # Argument[tok.type]
    BY <1>3, <1>8
  <2>2. After(tok.type, t) = "bad"
    BY <1>1, <2>1 DEF After, Between, DirectiveTypes
  <2>3. DeadEnd(Append(input, t))
    BY <1>4, <1>7, <2>2, WrongToken
  <2> QED BY <1>4, <2>3
<1>9. ASSUME errors' = 0 PROVE BehindArgument'
  <2>1. t.type = Argument[tok.type]
    <3>1. ScanErrors(t) \in Nat
      BY Reports
    <3> QED BY <1>3, <1>9, <3>1
  <2>2. After(tok.type, t) = "top"
    BY <1>1, <2>1 DEF After, Between, DirectiveTypes, Argument, Colon
  <2>3. Reads(input', "top")
    <3>1. Reads(Append(input, t), After(tok.type, t))
      BY <1>4, <1>7, ReadsMore
    <3> QED BY <1>4, <2>2, <3>1
  <2>4. IsRuleOrDirective(<<tok, t>>) /\ <<tok, t>> \in Seq(Token)
    BY <1>1, <1>4, <1>5, <2>1 DEF IsRuleOrDirective, IsDirective
  <2>5. input' = Front(input) \o <<tok, t>>
    <3>1. Append(Append(Front(input), tok), t) = Front(input) \o <<tok, t>>
      BY <1>4, <1>5, <1>6
    <3> QED BY <1>4, <1>6, <3>1
  <2>6. SplitsInto(Front(input), IsRuleOrDirective)
    BY <1>2 DEF BetweenParts
  <2>7. SplitsInto(Front(input) \o <<tok, t>>, IsRuleOrDirective)
    BY <1>6, <2>4, <2>6, PartsGrow
  <2>8. SplitsInto(input', IsRuleOrDirective)
    BY <2>5, <2>7
  <2> QED BY <2>3, <2>8 DEF BehindArgument
<1>10. CASE errors' = 0
  BY <1>1, <1>9, <1>10 DEF VerdictInv
<1>11. CASE errors' # 0
  BY <1>1, <1>8, <1>11 DEF VerdictInv, InParser
<1> QED BY <1>10, <1>11

(* Behind an argument any token but an erroneous one can follow.           *)
LEMMA SkipVerdict ==
  ASSUME FullInv, SkipArgument, errors = 0
  PROVE  VerdictInv'
<1>1. pc = "skip" /\ pc' = "top"
  BY DEF SkipArgument
<1>2. MeaningInv /\ BehindArgument
  BY <1>1 DEF FullInv, VerdictInv, InParser
<1>3. PICK t \in NextTokens : Read(t) /\ errors' = errors + ScanErrors(t)
  BY DEF SkipArgument
<1>4. /\ t \in Token /\ input \in Seq(Token) /\ input' = Append(input, t)
      /\ Front(input') = input
  BY <1>1, <1>2, <1>3, CleanRead
<1>5. ASSUME errors' # 0 PROVE DeadEnd(input')
  <2>1. t.type = "ERROR"
    BY <1>3, <1>5 DEF ScanErrors, Report
  <2>2. After("top", t) = "bad" /\ "top" \in ReadingStates
    BY <2>1 DEF After, Between, DirectiveTypes, Colon, ReadingStates
  <2>3. DeadEnd(Append(input, t))
    BY <1>2, <1>4, <2>1, <2>2, WrongToken DEF BehindArgument
  <2> QED BY <1>4, <2>3
<1>6. BetweenParts'
  BY <1>2, <1>4 DEF BetweenParts, BehindArgument, Between
<1> QED BY <1>1, <1>5, <1>6 DEF VerdictInv

(* Where no rule or directive can begin, nothing can be read on.           *)
LEMMA UnexpectedVerdict ==
  ASSUME FullInv, Unexpected, errors = 0
  PROVE  VerdictInv'
<1>1. /\ pc = "top" /\ pc' = "top" /\ errors' = 1 /\ UNCHANGED <<tok, input>>
      /\ tok.type \in {"ERROR", "BLOCK", "COLON", "STRG", "NUMBER"}
  BY DEF Unexpected, AtTop
<1>2. /\ input \in Seq(Token) /\ tok \in Token /\ input # <<>> /\ Last(input) = tok
      /\ BetweenParts
  BY <1>1 DEF FullInv, MeaningInv, IInv, TypeOK, HistoryInv, VerdictInv, InParser
<1>3. Front(input) \in Seq(Token) /\ input = Append(Front(input), tok)
  BY <1>2, FrontLast
<1>4. PICK q \in Between :
        Reads(Front(input), q) /\ (q = "closed" => tok.type # "COLON")
  BY <1>2 DEF BetweenParts
<1>5. After(q, tok) = "bad" /\ q \in ReadingStates
  BY <1>1, <1>4 DEF After, Between, DirectiveTypes, Colon, ReadingStates
<1>6. DeadEnd(Append(Front(input), tok))
  BY <1>1, <1>2, <1>3, <1>4, <1>5, WrongToken
<1>7. DeadEnd(input')
  BY <1>1, <1>3, <1>6
<1> QED BY <1>1, <1>7 DEF VerdictInv, InParser

(* Steps that read nothing keep the verdict.                               *)
LEMMA StillVerdict ==
  ASSUME FullInv, errors = 0, Finish \/ ScannerStops \/ UNCHANGED parserVars
  PROVE  VerdictInv'
<1>1. CASE UNCHANGED parserVars
  BY <1>1 DEF FullInv, parserVars, VerdictInv, InParser, BetweenParts,
              BehindArgument, WithinRule, RuleSoFar, StateInRule
<1>2. CASE ScannerStops
  BY <1>2 DEF ScannerStops, VerdictInv, InParser
<1>3. CASE Finish
  <2>1. /\ pc = "top" /\ pc' = "done" /\ tok.type = "END_OF_INPUT"
        /\ UNCHANGED <<tok, errors, input>>
    BY <1>3 DEF Finish
  <2>2. BetweenParts
    BY <2>1 DEF FullInv, VerdictInv, InParser
  <2>3. BetweenParts'
    BY <2>1, <2>2 DEF BetweenParts
  <2> QED BY <2>1, <2>3 DEF VerdictInv
<1> QED BY <1>1, <1>2, <1>3

(* Every step keeps the reading of the input.                              *)
LEMMA StepFull == FullInv /\ [Next]_parserVars => FullInv'
<1> SUFFICES ASSUME FullInv, [Next]_parserVars PROVE FullInv'
  OBVIOUS
<1>1. MeaningInv'
  BY StepMeans DEF FullInv
<1>2. VerdictInv'
  <2>1. CASE errors # 0
    BY <2>1, DeadStays
  <2>2. CASE errors = 0
    BY <2>2, CreateVerdict, BeginRuleVerdict, BeginPatternVerdict,
       AddElemVerdict, EndPatternVerdict, EndRuleVerdict, ArgumentVerdict,
       SkipVerdict, UnexpectedVerdict, StillVerdict
    DEF Next, ParseStep, ReadStep, LocalStep, Terminated
  <2> QED BY <2>1, <2>2
<1> QED BY <1>1, <1>2 DEF FullInv

(* FullInv holds before the first token.                                   *)
LEMMA InitFull == Init => FullInv
<1>1. Init => VerdictInv
  BY DEF Init, VerdictInv, InParser
<1> QED BY <1>1, InitMeans DEF FullInv

(* FullInv holds in every reachable state.                                 *)
THEOREM ReadingIsKept == Spec => []FullInv
<1> QED BY InitFull, StepFull, PTL DEF Spec

(* When parse_input returns, what it has read decides the verdict.         *)
LEMMA ReadingDecides == FullInv => VerdictIsRight
<1> SUFFICES ASSUME FullInv, pc = "done"
             PROVE  IF errors = 0 THEN Grammatical(input) ELSE ~Viable(input)
  BY DEF VerdictIsRight
<1>1. input \in Seq(Token) /\ tok \in Token
  BY DEF FullInv, MeaningInv, IInv, TypeOK
<1>2. CASE errors = 0
  <2>1. /\ input # <<>> /\ Last(input) = tok /\ tok.type = "END_OF_INPUT"
        /\ SplitsInto(Front(input), IsRuleOrDirective)
    BY <1>2 DEF FullInv, MeaningInv, HistoryInv, VerdictInv, InParser, BetweenParts
  <2>2. tok = EndToken
    BY <1>1, <2>1 DEF Token, DirectiveTypes, Colon, BadDirective, BadChar, EndToken
  <2> QED BY <1>2, <2>1, <2>2 DEF Grammatical
<1>3. CASE errors # 0
  <2>1. DeadEnd(input)
    BY <1>3 DEF FullInv, VerdictInv
  <2> QED BY <1>1, <1>3, <2>1, DeadIsNotViable
<1> QED BY <1>2, <1>3

(***************************************************************************)
(* The parser decides the language, for inputs of any length: when it      *)
(* returns without errors it has read a grammar file, and when it returns  *)
(* with errors what it has read begins none.                               *)
(***************************************************************************)
THEOREM ParserDecidesTheLanguage == Spec => []VerdictIsRight
<1> QED BY ReadingDecides, ReadingIsKept, PTL

-----------------------------------------------------------------------------
(* The places of a token sequence where a rule is named, where a symbol is *)
(* used, and where a pattern has nothing to match.                         *)

NameAt(s, i) ==
  i \in 1 .. Len(s) - 1 /\ s[i].type = "SYMBOL" /\ s[i + 1] = Colon
UseAt(s, i) == i \in 1 .. Len(s) /\ s[i].type = "SYMBOL" /\ ~NameAt(s, i)
HoleAt(s, i) ==
  i \in 1 .. Len(s) - 1 /\ s[i] = Colon /\ s[i + 1].type = "BLOCK"

(* One more token adds at most one such place, the last one.               *)
LEMMA PlacesGrow ==
  ASSUME NEW s \in Seq(Token), NEW t \in Token
  PROVE  /\ \A i : NameAt(Append(s, t), i) <=>
                     \/ NameAt(s, i)
                     \/ i = Len(s) /\ s # <<>> /\ s[i].type = "SYMBOL" /\ t = Colon
         /\ \A i : HoleAt(Append(s, t), i) <=>
                     \/ HoleAt(s, i)
                     \/ i = Len(s) /\ s # <<>> /\ s[i] = Colon /\ t.type = "BLOCK"
<1> DEFINE u == Append(s, t)
           n == Len(s)
<1>1. /\ n \in Nat /\ Len(u) = n + 1 /\ u[n + 1] = t
      /\ \A i \in 1 .. n : u[i] = s[i]
      /\ (s = <<>> <=> n = 0)
  OBVIOUS
<1> HIDE DEF u, n
<1>2. ASSUME NEW i
      PROVE  NameAt(u, i) <=>
               \/ NameAt(s, i)
               \/ i = n /\ s # <<>> /\ s[i].type = "SYMBOL" /\ t = Colon
  <2>1. i \in 1 .. Len(u) - 1 <=> i \in 1 .. n - 1 \/ (i = n /\ n # 0)
    BY <1>1
  <2>2. CASE i \in 1 .. n - 1
    <3>1. u[i] = s[i] /\ u[i + 1] = s[i + 1] /\ i # n
      BY <1>1, <2>2
    <3> QED BY <2>1, <2>2, <3>1 DEF NameAt, n
  <2>3. CASE i = n /\ n # 0
    <3>1. u[i] = s[i] /\ u[i + 1] = t /\ i \notin 1 .. n - 1
      BY <1>1, <2>3
    <3> QED BY <1>1, <2>1, <2>3, <3>1 DEF NameAt, n
  <2> QED BY <1>1, <2>1, <2>2, <2>3 DEF NameAt, n
<1>3. ASSUME NEW i
      PROVE  HoleAt(u, i) <=>
               \/ HoleAt(s, i)
               \/ i = n /\ s # <<>> /\ s[i] = Colon /\ t.type = "BLOCK"
  <2>1. i \in 1 .. Len(u) - 1 <=> i \in 1 .. n - 1 \/ (i = n /\ n # 0)
    BY <1>1
  <2>2. CASE i \in 1 .. n - 1
    <3>1. u[i] = s[i] /\ u[i + 1] = s[i + 1] /\ i # n
      BY <1>1, <2>2
    <3> QED BY <2>1, <2>2, <3>1 DEF HoleAt, n
  <2>3. CASE i = n /\ n # 0
    <3>1. u[i] = s[i] /\ u[i + 1] = t /\ i \notin 1 .. n - 1
      BY <1>1, <2>3
    <3> QED BY <1>1, <2>1, <2>3, <3>1 DEF HoleAt, n
  <2> QED BY <1>1, <2>1, <2>2, <2>3 DEF HoleAt, n
<1> QED BY <1>2, <1>3 DEF u, n

-----------------------------------------------------------------------------
(* What a sequence of tokens says of names, uses and empty patterns.       *)

(* The symbols that are used, and whether some pattern is empty.           *)
Uses(s, x) == \E i : UseAt(s, i) /\ s[i].str = x
HasHole(s) == \E i : HoleAt(s, i)

(* The k-th name of h stands at the k-th place of a name.                  *)
IsPlacing(f, s, h) ==
  /\ f \in [1 .. Len(h) -> 1 .. Len(s)]
  /\ \A j, k \in 1 .. Len(h) : j < k => f[j] < f[k]
  /\ \A k \in 1 .. Len(h) : NameAt(s, f[k]) /\ s[f[k]].str = h[k]
  /\ \A i : NameAt(s, i) => \E k \in 1 .. Len(h) : f[k] = i

Names(s, h) == \E f : IsPlacing(f, s, h)

(* A token that is no colon behind a symbol names nothing.                 *)
LEMMA NamesStay ==
  ASSUME NEW s \in Seq(Token), NEW t \in Token, NEW h, Names(s, h),
         t = Colon => s = <<>> \/ Last(s).type # "SYMBOL"
  PROVE  /\ Names(Append(s, t), h)
         /\ \A x : Uses(Append(s, t), x) <=>
                     Uses(s, x) \/ (t.type = "SYMBOL" /\ t.str = x)
<1> DEFINE u == Append(s, t)
           n == Len(s)
<1>1. /\ n \in Nat /\ Len(u) = n + 1 /\ u[n + 1] = t
      /\ \A i \in 1 .. n : u[i] = s[i]
      /\ (s = <<>> <=> n = 0)
  OBVIOUS
<1>2. \A i : NameAt(u, i) <=> NameAt(s, i)
  <2>1. t = Colon => s = <<>> \/ s[n].type # "SYMBOL"
    BY DEF Last
  <2>2. \A i : NameAt(u, i) <=>
           \/ NameAt(s, i)
           \/ i = n /\ s # <<>> /\ s[i].type = "SYMBOL" /\ t = Colon
    BY PlacesGrow
  <2> QED BY <2>1, <2>2
<1> HIDE DEF u
<1>3. Names(u, h)
  <2>1. PICK f : IsPlacing(f, s, h)
    BY DEF Names
  <2>2. \A k \in 1 .. Len(h) : f[k] \in 1 .. n
    BY <2>1 DEF IsPlacing
  <2>3. f \in [1 .. Len(h) -> 1 .. Len(u)]
    <3>1. 1 .. n \subseteq 1 .. Len(u)
      BY <1>1
    <3> QED BY <2>1, <3>1 DEF IsPlacing
  <2>4. \A k \in 1 .. Len(h) : u[f[k]] = s[f[k]]
    BY <1>1, <2>2
  <2>5. IsPlacing(f, u, h)
    BY <1>2, <2>1, <2>3, <2>4 DEF IsPlacing
  <2> QED BY <2>5 DEF Names
<1>4. ASSUME NEW x
      PROVE  Uses(u, x) <=> Uses(s, x) \/ (t.type = "SYMBOL" /\ t.str = x)
  <2>1. \A i \in 1 .. n : UseAt(u, i) <=> UseAt(s, i)
    BY <1>1, <1>2 DEF UseAt
  <2>2. UseAt(u, n + 1) <=> t.type = "SYMBOL"
    <3>1. ~NameAt(s, n + 1) /\ n + 1 \in 1 .. Len(u)
      BY <1>1 DEF NameAt
    <3> QED BY <1>1, <1>2, <3>1 DEF UseAt
  <2>3. \A i : UseAt(u, i) => i \in 1 .. n \/ i = n + 1
    BY <1>1 DEF UseAt
  <2>4. \A i : UseAt(s, i) => i \in 1 .. n
    BY DEF UseAt
  <2> QED BY <1>1, <2>1, <2>2, <2>3, <2>4 DEF Uses
<1> QED BY <1>3, <1>4 DEF u

IsOneMore(g, h, x) ==
  /\ Len(h) \in Nat /\ Len(g) = Len(h) + 1 /\ g[Len(h) + 1] = x
  /\ \A k \in 1 .. Len(h) : g[k] = h[k]

(* A symbol and a colon add one name, and use nothing.                     *)
LEMMA NameIsAdded ==
  ASSUME NEW s \in Seq(Token), NEW t \in Token, t.type = "SYMBOL",
         NEW h, Names(s, h), NEW g, IsOneMore(g, h, t.str)
  PROVE  /\ Names(Append(Append(s, t), Colon), g)
         /\ \A x : Uses(Append(Append(s, t), Colon), x) <=> Uses(s, x)
<1> DEFINE u == Append(s, t)
           v == Append(u, Colon)
           n == Len(s)
           m == Len(h)
<1> USE DEF IsOneMore
<1>1. /\ n \in Nat /\ Len(v) = n + 2 /\ v[n + 1] = t /\ v[n + 2] = Colon
      /\ \A i \in 1 .. n : v[i] = s[i]
  BY DEF Token
<1>2. /\ u \in Seq(Token) /\ Colon \in Token /\ u # <<>> /\ Len(u) = n + 1
      /\ u[n + 1] = t /\ t # Colon
  BY DEF Token, Colon
<1>3. \A i : NameAt(u, i) <=> NameAt(s, i)
  BY <1>2, PlacesGrow
<1>4. \A i : NameAt(v, i) <=> NameAt(s, i) \/ i = n + 1
  <2> HIDE DEF u
  <2>1. \A i : NameAt(v, i) <=>
          \/ NameAt(u, i)
          \/ i = Len(u) /\ u # <<>> /\ u[i].type = "SYMBOL" /\ Colon = Colon
    BY <1>2, PlacesGrow
  <2> QED BY <1>2, <1>3, <2>1
<1> HIDE DEF u, v, n
<1>5. Names(v, g)
  <2> HIDE DEF m
  <2>1. PICK f : IsPlacing(f, s, h)
    BY DEF Names
  <2> DEFINE e == [k \in 1 .. m + 1 |-> IF k = m + 1 THEN n + 1 ELSE f[k]]
  <2>2. m \in Nat /\ \A k \in 1 .. m : f[k] \in 1 .. n
    BY <2>1 DEF IsPlacing, m, n
  <2>3. /\ e \in [1 .. m + 1 -> 1 .. n + 2] /\ e[m + 1] = n + 1
        /\ \A k \in 1 .. m : e[k] = f[k] /\ f[k] < n + 1
    BY <1>1, <2>2
  <2> HIDE DEF e
  <2>4. \A j, k \in 1 .. m + 1 : j < k => e[j] < e[k]
    <3> SUFFICES ASSUME NEW j \in 1 .. m + 1, NEW k \in 1 .. m + 1, j < k
                 PROVE  e[j] < e[k]
      OBVIOUS
    <3>1. j \in 1 .. m
      BY <2>2
    <3>2. CASE k = m + 1
      BY <2>3, <3>1, <3>2
    <3>3. CASE k # m + 1
      <4>1. \A a, b \in 1 .. m : a < b => f[a] < f[b]
        BY <2>1 DEF IsPlacing, m
      <4>2. k \in 1 .. m
        BY <2>2, <3>3
      <4> QED BY <2>3, <3>1, <4>1, <4>2
    <3> QED BY <3>2, <3>3
  <2>5. \A k \in 1 .. m + 1 : NameAt(v, e[k]) /\ v[e[k]].str = g[k]
    <3>1. NameAt(v, e[m + 1]) /\ v[e[m + 1]].str = g[m + 1]
      BY <1>1, <1>4, <2>3 DEF m
    <3>2. ASSUME NEW k \in 1 .. m
          PROVE  NameAt(v, e[k]) /\ v[e[k]].str = g[k]
      <4>1. NameAt(s, f[k]) /\ s[f[k]].str = h[k] /\ g[k] = h[k]
        BY <2>1 DEF IsPlacing, m
      <4>2. v[f[k]] = s[f[k]]
        BY <1>1, <2>2
      <4> QED BY <1>4, <2>3, <4>1, <4>2
    <3> QED BY <2>2, <3>1, <3>2
  <2>6. \A i : NameAt(v, i) => \E k \in 1 .. m + 1 : e[k] = i
    <3> SUFFICES ASSUME NEW i, NameAt(v, i) PROVE \E k \in 1 .. m + 1 : e[k] = i
      OBVIOUS
    <3>1. CASE i = n + 1
      <4>1. m + 1 \in 1 .. m + 1
        BY <2>2
      <4> QED BY <2>3, <3>1, <4>1
    <3>2. CASE NameAt(s, i)
      <4>1. PICK k \in 1 .. m : f[k] = i
        BY <2>1, <3>2 DEF IsPlacing, m
      <4>2. k \in 1 .. m + 1 /\ e[k] = i
        BY <2>2, <2>3, <4>1
      <4> QED BY <4>2
    <3> QED BY <1>4, <3>1, <3>2
  <2>7. Len(g) = m + 1
    BY DEF m
  <2>8. IsPlacing(e, v, g)
    BY <1>1, <2>3, <2>4, <2>5, <2>6, <2>7 DEF IsPlacing
  <2> QED BY <2>8 DEF Names
<1>6. ASSUME NEW x PROVE Uses(v, x) <=> Uses(s, x)
  <2>1. \A i : UseAt(s, i) => i \in 1 .. n /\ i # n + 1
    BY <1>1 DEF UseAt, n
  <2>2. \A i \in 1 .. n : UseAt(v, i) <=> UseAt(s, i)
    <3>1. \A i \in 1 .. n : i \in 1 .. Len(v) /\ i # n + 1
      BY <1>1
    <3> QED BY <1>1, <1>4, <3>1 DEF UseAt, n
  <2>3. \A i : UseAt(v, i) => i \in 1 .. n
    <3>1. \A i \in 1 .. n + 2 : i \in 1 .. n \/ i = n + 1 \/ i = n + 2
      BY <1>1
    <3>2. ~UseAt(v, n + 1) /\ ~UseAt(v, n + 2)
      BY <1>1, <1>4 DEF UseAt, Colon
    <3> QED BY <1>1, <3>1, <3>2 DEF UseAt
  <2> QED BY <1>1, <2>1, <2>2, <2>3 DEF Uses
<1> QED BY <1>5, <1>6 DEF u, v

-----------------------------------------------------------------------------
(* The same of the rules.                                                  *)

UsedInElems(es, x) == \E e \in DOMAIN es : es[e].str = x
UsedInRule(r, x) == \E p \in DOMAIN r.patterns : UsedInElems(r.patterns[p].elems, x)
UsedInRules(rs, x) == \E r \in DOMAIN rs : UsedInRule(rs[r], x)

HoleInRule(r) == \E p \in DOMAIN r.patterns : r.patterns[p].elems = <<>>
HoleInRules(rs) == \E r \in DOMAIN rs : HoleInRule(rs[r])

CleanElems(es) == \A e \in DOMAIN es : ~es[e].is_terminal
CleanRule(r) == \A p \in DOMAIN r.patterns : CleanElems(r.patterns[p].elems)
CleanRules(rs) == \A r \in DOMAIN rs : CleanRule(rs[r])

NameList(rs) == [k \in 1 .. Len(rs) |-> rs[k].name]

(* An element, a pattern and a rule that are appended to what there is.    *)
LEMMA ElemAppended ==
  ASSUME NEW es \in Seq(PatElem), NEW y \in PatElem, y.is_terminal = FALSE
  PROVE  /\ \A x : UsedInElems(Append(es, y), x) <=> UsedInElems(es, x) \/ y.str = x
         /\ CleanElems(es) => CleanElems(Append(es, y))
<1> DEFINE fs == Append(es, y)
           n == Len(es)
<1>1. /\ n \in Nat /\ DOMAIN es = 1 .. n /\ DOMAIN fs = 1 .. n + 1
      /\ fs[n + 1] = y /\ \A i \in 1 .. n : fs[i] = es[i]
  BY AppendMembers
<1> HIDE DEF fs, n
<1>2. DOMAIN fs = DOMAIN es \cup {n + 1}
  BY <1>1
<1> QED BY <1>1, <1>2 DEF UsedInElems, CleanElems, fs

(* A pattern is appended to a rule.                                        *)
LEMMA PatternAppended ==
  ASSUME NEW r \in Rule, NEW p \in Pattern,
         NEW q, q.patterns = Append(r.patterns, p)
  PROVE  /\ q.patterns # <<>>
         /\ \A x : UsedInRule(q, x) <=> UsedInRule(r, x) \/ UsedInElems(p.elems, x)
         /\ HoleInRule(q) <=> HoleInRule(r) \/ p.elems = <<>>
         /\ CleanRule(r) /\ CleanElems(p.elems) => CleanRule(q)
<1> DEFINE ps == r.patterns
           n == Len(ps)
<1>1. ps \in Seq(Pattern)
  BY DEF Rule
<1>2. q.patterns = Append(ps, p)
  OBVIOUS
<1> DEFINE qs == q.patterns
<1>3. /\ n \in Nat /\ DOMAIN ps = 1 .. n /\ DOMAIN qs = 1 .. n + 1
      /\ qs[n + 1] = p /\ \A i \in 1 .. n : qs[i] = ps[i]
  BY <1>1, <1>2, AppendMembers
<1>4. qs # <<>>
  BY <1>1, <1>2
<1> HIDE DEF ps, qs, n
<1>5. DOMAIN qs = DOMAIN ps \cup {n + 1}
  BY <1>3
<1>6. ASSUME NEW x
      PROVE  UsedInRule(q, x) <=> UsedInRule(r, x) \/ UsedInElems(p.elems, x)
  BY <1>3, <1>5 DEF UsedInRule, ps, qs
<1>7. HoleInRule(q) <=> HoleInRule(r) \/ p.elems = <<>>
  BY <1>3, <1>5 DEF HoleInRule, ps, qs
<1>8. CleanRule(r) /\ CleanElems(p.elems) => CleanRule(q)
  BY <1>3, <1>5 DEF CleanRule, ps, qs
<1> QED BY <1>4, <1>6, <1>7, <1>8 DEF qs

(* A rule is appended to the rule list.                                    *)
LEMMA RuleAppended ==
  ASSUME NEW rs \in Seq(Rule), NEW r \in Rule
  PROVE  /\ \A x : UsedInRules(Append(rs, r), x) <=>
                     UsedInRules(rs, x) \/ UsedInRule(r, x)
         /\ HoleInRules(Append(rs, r)) <=> HoleInRules(rs) \/ HoleInRule(r)
         /\ CleanRules(rs) /\ CleanRule(r) => CleanRules(Append(rs, r))
         /\ NameList(rs) \in Seq(Symbols) /\ Len(NameList(rs)) = Len(rs)
         /\ NameList(Append(rs, r)) = Append(NameList(rs), r.name)
<1> DEFINE ss == Append(rs, r)
           n == Len(rs)
<1>1. /\ n \in Nat /\ DOMAIN rs = 1 .. n /\ DOMAIN ss = 1 .. n + 1
      /\ ss[n + 1] = r /\ \A i \in 1 .. n : ss[i] = rs[i]
      /\ Len(ss) = n + 1
  BY AppendMembers
<1>2. r.name \in Symbols /\ \A i \in 1 .. n : rs[i].name \in Symbols
  <2>1. \A q \in Rule : q.name \in Symbols
    BY DEF Rule
  <2> QED BY <2>1
<1>3. NameList(rs) \in Seq(Symbols) /\ Len(NameList(rs)) = n
  <2> HIDE DEF n
  <2>1. NameList(rs) = [k \in 1 .. n |-> rs[k].name]
    BY DEF NameList, n
  <2>2. NameList(rs) \in [1 .. n -> Symbols]
    BY <1>2, <2>1
  <2> QED BY <1>1, <2>1, <2>2
<1> HIDE DEF ss, n
<1>4. DOMAIN ss = DOMAIN rs \cup {n + 1}
  BY <1>1
<1>5. NameList(ss) = Append(NameList(rs), r.name)
  <2> DEFINE f == NameList(rs)
             g == NameList(ss)
             s == r.name
  <2>1. g = [k \in 1 .. n + 1 |-> ss[k].name] /\ f = [k \in 1 .. n |-> rs[k].name]
    BY <1>1 DEF NameList, n
  <2>2. \A k \in 1 .. n + 1 : ss[k].name \in Symbols
    <3>1. \A k \in 1 .. n + 1 : k \in 1 .. n \/ k = n + 1
      BY <1>1
    <3> QED BY <1>1, <1>2, <3>1
  <2>3. g \in [1 .. n + 1 -> Symbols] /\ g[n + 1] = s
    BY <1>1, <2>1, <2>2
  <2>4. \A k \in 1 .. n : g[k] = f[k]
    BY <1>1, <2>1
  <2> HIDE DEF f, g, s
  <2>5. g \in Seq(Symbols) /\ Len(g) = n + 1
    BY <1>1, <2>3
  <2>6. f \in Seq(Symbols) /\ Len(f) = n /\ s \in Symbols
    BY <1>2, <1>3 DEF f, s
  <2>7. g = Append(f, s)
    BY <1>1, <2>3, <2>4, <2>5, <2>6
  <2> QED BY <2>7 DEF f, g, s
<1>6. \A x : UsedInRules(ss, x) <=> UsedInRules(rs, x) \/ UsedInRule(r, x)
  BY <1>1, <1>4 DEF UsedInRules
<1>7. HoleInRules(ss) <=> HoleInRules(rs) \/ HoleInRule(r)
  BY <1>1, <1>4 DEF HoleInRules
<1>8. CleanRules(rs) /\ CleanRule(r) => CleanRules(ss)
  BY <1>1, <1>4 DEF CleanRules
<1> QED BY <1>3, <1>5, <1>6, <1>7, <1>8 DEF ss, n

-----------------------------------------------------------------------------
(***************************************************************************)
(* While parse_input reads without a report, the names, uses and empty     *)
(* patterns of the rules are those of the tokens.  Two tokens tell a name  *)
(* from a use, so the name of a rule that has no pattern yet, and the      *)
(* token that parse_input is about to look at, are left aside.             *)
(***************************************************************************)
InRule == pc \in {"alternatives", "elems"}
NameWaits == pc = "alternatives" /\ rule.patterns = <<>>

Settled == IF pc \in {"top", "done"} \/ NameWaits THEN Front(input) ELSE input
Headings ==
  IF InRule /\ ~NameWaits THEN Append(NameList(rules), rule.name)
  ELSE NameList(rules)

UsedSoFar(x) ==
  \/ UsedInRules(rules, x)
  \/ InRule /\ UsedInRule(rule, x)
  \/ pc = "elems" /\ UsedInElems(elems, x)
HoleSoFar == HoleInRules(rules) \/ (InRule /\ HoleInRule(rule))

TokenFits ==
  /\ NameWaits => tok = [type |-> "SYMBOL", str |-> rule.name]
  /\ pc = "alternatives" /\ ~NameWaits => tok.type = "BLOCK"
  /\ pc = "elems" => IF elems = <<>> THEN tok = Colon ELSE tok.type = "SYMBOL"

PlacesFit ==
  /\ Names(Settled, Headings)
  /\ \A x : Uses(Settled, x) <=> UsedSoFar(x)
  /\ HasHole(Settled) <=> HoleSoFar

CleanInv == CleanRules(rules) /\ CleanRule(rule) /\ CleanElems(elems)

PlacesInv == InParser => TokenFits /\ PlacesFit

(* The last token of an empty history is no symbol and no colon.           *)
LEMMA NothingIsSettled ==
  /\ Names(<<>>, NameList(<<>>))
  /\ \A x : ~Uses(<<>>, x)
  /\ ~HasHole(<<>>)
<1>1. \A i : ~NameAt(<<>>, i) /\ ~UseAt(<<>>, i) /\ ~HoleAt(<<>>, i)
  BY DEF NameAt, UseAt, HoleAt
<1>2. NameList(<<>>) = <<>>
  BY DEF NameList
<1>3. IsPlacing(<<>>, <<>>, <<>>)
  BY <1>1 DEF IsPlacing
<1> QED BY <1>1, <1>2, <1>3 DEF Names, Uses, HasHole

(* What is known of a state in which parse_input still reads.              *)
LEMMA ReadingKnown ==
  ASSUME MeaningInv, InParser
  PROVE  /\ input \in Seq(Token) /\ input # <<>> /\ Last(input) = tok
         /\ tok \in Token /\ rules \in Seq(Rule) /\ elems \in Seq(PatElem)
         /\ InRule => rule \in Rule
         /\ Front(input) \in Seq(Token) /\ input = Append(Front(input), tok)
         /\ Settled \in Seq(Token)
<1>1. /\ input \in Seq(Token) /\ input # <<>> /\ Last(input) = tok
      /\ tok \in Token /\ rules \in Seq(Rule) /\ elems \in Seq(PatElem)
      /\ InRule => rule \in Rule
  BY DEF MeaningInv, IInv, TypeOK, HistoryInv, InRule
<1>2. Front(input) \in Seq(Token) /\ input = Append(Front(input), tok)
  BY <1>1, FrontLast
<1> QED BY <1>1, <1>2 DEF Settled

(* create_parser: the first token is still to be looked at.                *)
LEMMA CreatePlaces ==
  ASSUME MeaningInv, CreateParser, errors = 0
  PROVE  TokenFits' /\ PlacesFit'
<1>1. pc = "create" /\ pc' = "top" /\ UNCHANGED rules
  BY DEF CreateParser
<1>2. input = <<>> /\ rules = <<>>
  BY <1>1 DEF MeaningInv, HistoryInv, Untouched
<1>3. PICK t \in NextTokens : Read(t)
  BY DEF CreateParser
<1>4. Front(input') = <<>>
  BY <1>1, <1>2, <1>3, CleanRead
<1>5. Settled' = <<>> /\ Headings' = NameList(<<>>)
  BY <1>1, <1>2, <1>4 DEF Settled, Headings, InRule, NameWaits
<1>6. \A x : ~UsedSoFar(x)'
  BY <1>1, <1>2 DEF UsedSoFar, UsedInRules, InRule
<1>7. ~HoleSoFar'
  BY <1>1, <1>2 DEF HoleSoFar, HoleInRules, InRule
<1>8. PlacesFit'
  BY <1>5, <1>6, <1>7, NothingIsSettled DEF PlacesFit
<1> QED BY <1>1, <1>8 DEF TokenFits, NameWaits

(* parse_rule begins: the token that was set aside is the rule's name.     *)
LEMMA BeginRulePlaces ==
  ASSUME MeaningInv, PlacesInv, BeginRule, errors = 0
  PROVE  TokenFits' /\ PlacesFit'
<1>1. /\ pc = "top" /\ pc' = "alternatives" /\ tok.type = "SYMBOL"
      /\ rule' = [name |-> tok.str, patterns |-> <<>>]
      /\ UNCHANGED <<tok, elems, rules, input>>
  BY DEF BeginRule, AtTop, pstate
<1>2. InParser /\ tok \in Token
  BY <1>1 DEF InParser, MeaningInv, IInv, TypeOK
<1>3. PlacesFit
  BY <1>2 DEF PlacesInv
<1>4. NameWaits' /\ rule'.patterns = <<>> /\ rule'.name = tok.str
  BY <1>1 DEF NameWaits
<1>5. Settled' = Settled /\ Headings' = Headings
  BY <1>1, <1>4 DEF Settled, Headings, InRule
<1>6. \A x : UsedSoFar(x)' <=> UsedSoFar(x)
  BY <1>1, <1>4 DEF UsedSoFar, InRule, UsedInRule
<1>7. HoleSoFar' <=> HoleSoFar
  BY <1>1, <1>4 DEF HoleSoFar, InRule, HoleInRule
<1>8. PlacesFit'
  BY <1>3, <1>5, <1>6, <1>7 DEF PlacesFit
<1>9. tok = [type |-> "SYMBOL", str |-> tok.str]
  BY <1>1, <1>2 DEF Token, DirectiveTypes, Colon, BadDirective, BadChar, EndToken
<1> QED BY <1>1, <1>4, <1>8, <1>9 DEF TokenFits

(* A colon behind the rule's name makes it a name; another colon does not. *)
LEMMA BeginPatternPlaces ==
  ASSUME MeaningInv, PlacesInv, BeginPattern, errors = 0
  PROVE  TokenFits' /\ PlacesFit'
<1>1. /\ pc = "alternatives" /\ pc' = "elems" /\ elems' = <<>>
      /\ Colon \in NextTokens /\ Read(Colon)
      /\ UNCHANGED <<rule, rules>>
  BY DEF BeginPattern, pstate
<1>2. InParser /\ InRule /\ InRule' /\ ~NameWaits'
  BY <1>1 DEF InParser, InRule, NameWaits
<1>3. TokenFits /\ PlacesFit
  BY <1>2 DEF PlacesInv
<1>4. /\ input' = Append(input, Colon) /\ tok' = Colon /\ Colon \in Token
  BY <1>1, CleanRead
<1>5. /\ input \in Seq(Token) /\ Last(input) = tok /\ tok \in Token
      /\ rules \in Seq(Rule) /\ rule \in Rule
      /\ Front(input) \in Seq(Token) /\ input = Append(Front(input), tok)
  BY <1>2, ReadingKnown
<1>6. Settled' = input' /\ Headings' = Append(NameList(rules), rule.name)
  BY <1>1, <1>2 DEF Settled, Headings
<1>7. NameList(rules) \in Seq(Symbols) /\ rule.name \in Symbols
  <2>1. NameList(rules) \in Seq(Symbols)
    BY <1>5, RuleAppended
  <2> QED BY <1>5, <2>1 DEF Rule
<1>8. \A x : UsedSoFar(x)' <=> UsedSoFar(x)
  BY <1>1, <1>2 DEF UsedSoFar, InRule, UsedInElems
<1>9. HoleSoFar' <=> HoleSoFar
  BY <1>1, <1>2 DEF HoleSoFar, InRule
<1>10. TokenFits'
  BY <1>1, <1>2, <1>4 DEF TokenFits
<1>11. HasHole(input') <=> HasHole(Settled)
  <2>1. \A i : HoleAt(Append(input, Colon), i) <=> HoleAt(input, i)
    BY <1>4, <1>5, PlacesGrow DEF Colon
  <2>2. CASE NameWaits
    <3>1. Settled = Front(input) /\ tok.type = "SYMBOL"
      BY <1>3, <2>2 DEF Settled, TokenFits
    <3>2. \A i : HoleAt(Append(Front(input), tok), i) <=> HoleAt(Front(input), i)
      BY <1>5, <3>1, PlacesGrow
    <3> QED BY <1>4, <1>5, <2>1, <3>1, <3>2 DEF HasHole
  <2>3. CASE ~NameWaits
    BY <1>1, <1>4, <2>1, <2>3 DEF HasHole, Settled
  <2> QED BY <2>2, <2>3
<1>12. /\ Names(input', Headings')
       /\ \A x : Uses(input', x) <=> Uses(Settled, x)
  <2> DEFINE h == NameList(rules)
             g == Append(h, rule.name)
  <2>1. CASE NameWaits
    <3>1. /\ Settled = Front(input) /\ Headings = h
          /\ tok.type = "SYMBOL" /\ tok.str = rule.name
      BY <1>3, <2>1 DEF Settled, Headings, TokenFits
    <3>2. IsOneMore(g, h, tok.str)
      BY <1>7, <3>1 DEF IsOneMore
    <3>3. Names(Front(input), h)
      BY <1>3, <3>1 DEF PlacesFit
    <3> HIDE DEF g, h
    <3>4. /\ Names(Append(Append(Front(input), tok), Colon), g)
          /\ \A x : Uses(Append(Append(Front(input), tok), Colon), x)
                      <=> Uses(Front(input), x)
      BY <1>5, <3>1, <3>2, <3>3, NameIsAdded
    <3> QED BY <1>4, <1>5, <1>6, <3>1, <3>4 DEF g, h
  <2>2. CASE ~NameWaits
    <3>1. Settled = input /\ Headings = g /\ Last(input).type # "SYMBOL"
      BY <1>1, <1>2, <1>3, <1>5, <2>2 DEF Settled, Headings, TokenFits
    <3>2. Names(input, g)
      BY <1>3, <3>1 DEF PlacesFit
    <3> HIDE DEF g
    <3>3. /\ Names(Append(input, Colon), g)
          /\ \A x : Uses(Append(input, Colon), x) <=>
                      Uses(input, x) \/ (Colon.type = "SYMBOL" /\ Colon.str = x)
      BY <1>4, <1>5, <3>1, <3>2, NamesStay
    <3>4. Colon.type # "SYMBOL"
      BY DEF Colon
    <3> QED BY <1>4, <1>6, <3>1, <3>3, <3>4 DEF g
  <2> QED BY <2>1, <2>2
<1> QED BY <1>3, <1>6, <1>8, <1>9, <1>10, <1>11, <1>12 DEF PlacesFit

(* A token that is no colon and that nothing turns into a name is a use,   *)
(* or nothing; with a colon before it a block leaves a hole.               *)
LEMMA TokenSettles ==
  ASSUME NEW s \in Seq(Token), NEW t \in Token, NEW h, Names(s, h), s # <<>>,
         t # Colon
  PROVE  /\ Names(Append(s, t), h)
         /\ \A x : Uses(Append(s, t), x) <=>
                     Uses(s, x) \/ (t.type = "SYMBOL" /\ t.str = x)
         /\ HasHole(Append(s, t)) <=>
              HasHole(s) \/ (Last(s) = Colon /\ t.type = "BLOCK")
<1>1. /\ Names(Append(s, t), h)
      /\ \A x : Uses(Append(s, t), x) <=>
                  Uses(s, x) \/ (t.type = "SYMBOL" /\ t.str = x)
  BY NamesStay
<1>2. HasHole(Append(s, t)) <=>
        HasHole(s) \/ (Last(s) = Colon /\ t.type = "BLOCK")
  <2>1. \A i : HoleAt(Append(s, t), i) <=>
           \/ HoleAt(s, i)
           \/ i = Len(s) /\ s # <<>> /\ s[i] = Colon /\ t.type = "BLOCK"
    BY PlacesGrow
  <2>2. Last(s) = s[Len(s)]
    BY DEF Last
  <2> QED BY <2>1, <2>2 DEF HasHole
<1> QED BY <1>1, <1>2

(* parse_pattern: the symbol is one more use.                              *)
LEMMA AddElemPlaces ==
  ASSUME MeaningInv, PlacesInv, AddElem, errors = 0
  PROVE  TokenFits' /\ PlacesFit'
<1>1. pc = "elems" /\ pc' = "elems" /\ UNCHANGED <<rule, rules>>
  BY DEF AddElem, pstate
<1>2. PICK t \in NextTokens :
        t.type = "SYMBOL" /\ Read(t) /\ elems' = Append(elems, NewElem(t.str))
  BY DEF AddElem, ElemsWith
<1>3. /\ InParser /\ InRule /\ InRule' /\ ~NameWaits /\ ~NameWaits'
  BY <1>1 DEF InParser, InRule, NameWaits
<1>4. TokenFits /\ PlacesFit
  BY <1>3 DEF PlacesInv
<1>5. input' = Append(input, t) /\ tok' = t /\ t \in Token
  BY <1>1, <1>2, CleanRead
<1>6. /\ input \in Seq(Token) /\ input # <<>> /\ elems \in Seq(PatElem)
      /\ t # Colon
  BY <1>2, <1>3, ReadingKnown DEF Colon
<1>7. Settled = input /\ Settled' = input' /\ Headings' = Headings
  BY <1>1, <1>3 DEF Settled, Headings
<1>8. /\ Names(input', Headings)
      /\ \A x : Uses(input', x) <=> Uses(input, x) \/ t.str = x
      /\ HasHole(input') <=> HasHole(input)
  BY <1>2, <1>4, <1>5, <1>6, <1>7, TokenSettles DEF PlacesFit
<1>9. \A x : UsedInElems(elems', x) <=> UsedInElems(elems, x) \/ t.str = x
  <2>1. t.str \in Symbols
    BY <1>2, <1>5, TokenTexts
  <2>2. NewElem(t.str) \in PatElem /\ NewElem(t.str).str = t.str
        /\ NewElem(t.str).is_terminal = FALSE
    BY <2>1 DEF NewElem, PatElem
  <2> QED BY <1>2, <1>6, <2>2, ElemAppended
<1>10. \A x : UsedSoFar(x)' <=> UsedSoFar(x) \/ t.str = x
  BY <1>1, <1>3, <1>9 DEF UsedSoFar
<1>11. HoleSoFar' <=> HoleSoFar
  BY <1>1, <1>3 DEF HoleSoFar
<1>12. elems' # <<>>
  BY <1>2, <1>6
<1> QED BY <1>1, <1>2, <1>3, <1>4, <1>5, <1>7, <1>8, <1>10, <1>11, <1>12
        DEF PlacesFit, TokenFits

(* parse_pattern: the block makes the pattern, empty or not.               *)
LEMMA EndPatternPlaces ==
  ASSUME MeaningInv, PlacesInv, EndPattern, errors = 0, errors' = 0
  PROVE  TokenFits' /\ PlacesFit'
<1>1. /\ pc = "elems" /\ pc' = "alternatives" /\ elems' = <<>>
      /\ UNCHANGED rules
  BY DEF EndPattern, pstate
<1>2. PICK t \in NextTokens :
        /\ t.type # "SYMBOL" /\ Read(t)
        /\ rule' = [rule EXCEPT !.patterns =
                      Append(@, [elems |-> elems, code |-> CodeOf(t)])]
        /\ errors' = errors + ScanErrors(t) + PatternErrors(t)
  BY DEF EndPattern
<1>3. t.type = "BLOCK"
  <2>1. ScanErrors(t) \in Nat /\ PatternErrors(t) \in Nat
    BY Reports
  <2>2. PatternErrors(t) = 0
    BY <1>2, <2>1
  <2> QED BY <2>2, Reports
<1>4. /\ InParser /\ InRule /\ InRule' /\ ~NameWaits
  BY <1>1 DEF InParser, InRule, NameWaits
<1>5. TokenFits /\ PlacesFit
  BY <1>4 DEF PlacesInv
<1>6. input' = Append(input, t) /\ tok' = t /\ t \in Token
  BY <1>1, <1>2, CleanRead
<1>7. /\ input \in Seq(Token) /\ input # <<>> /\ Last(input) = tok
      /\ elems \in Seq(PatElem) /\ rule \in Rule /\ t # Colon
  BY <1>3, <1>4, ReadingKnown DEF Colon
<1> DEFINE p == [elems |-> elems, code |-> CodeOf(t)]
<1>8. p \in Pattern /\ p.elems = elems
  <2>1. CodeOf(t) \in Blocks
    BY <1>3, <1>6, TokenTexts DEF CodeOf
  <2> QED BY <1>7, <2>1 DEF Pattern
<1>9. rule'.name = rule.name /\ rule'.patterns = Append(rule.patterns, p)
  BY <1>2, <1>7 DEF Rule
<1> HIDE DEF p
<1>10. /\ rule'.name = rule.name /\ rule'.patterns # <<>>
       /\ \A x : UsedInRule(rule', x) <=> UsedInRule(rule, x) \/ UsedInElems(elems, x)
       /\ HoleInRule(rule') <=> HoleInRule(rule) \/ elems = <<>>
  <2>1. /\ rule'.patterns # <<>>
        /\ \A x : UsedInRule(rule', x) <=>
                    UsedInRule(rule, x) \/ UsedInElems(p.elems, x)
        /\ HoleInRule(rule') <=> HoleInRule(rule) \/ p.elems = <<>>
    BY <1>7, <1>8, <1>9, PatternAppended
  <2> QED BY <1>8, <1>9, <2>1
<1>11. ~NameWaits'
  BY <1>10 DEF NameWaits
<1>12. Settled = input /\ Settled' = input' /\ Headings' = Headings
  BY <1>1, <1>4, <1>10, <1>11 DEF Settled, Headings
<1>13. /\ Names(input', Headings)
       /\ \A x : Uses(input', x) <=> Uses(input, x)
       /\ HasHole(input') <=> HasHole(input) \/ tok = Colon
  BY <1>3, <1>5, <1>6, <1>7, <1>12, TokenSettles DEF PlacesFit
<1>14. \A x : UsedSoFar(x)' <=> UsedSoFar(x)
  BY <1>1, <1>4, <1>10 DEF UsedSoFar
<1>15. HoleSoFar' <=> HoleSoFar \/ tok = Colon
  <2>1. tok = Colon <=> elems = <<>>
    BY <1>1, <1>5 DEF TokenFits, Colon
  <2> QED BY <1>1, <1>4, <1>10, <2>1 DEF HoleSoFar
<1> QED BY <1>1, <1>3, <1>5, <1>6, <1>11, <1>12, <1>13, <1>14, <1>15
        DEF PlacesFit, TokenFits

(* parse_rule ends: the rule joins the list.                               *)
LEMMA EndRulePlaces ==
  ASSUME MeaningInv, PlacesInv, EndRule, errors = 0, errors' = 0
  PROVE  TokenFits' /\ PlacesFit'
<1>1. pc = "alternatives" /\ pc' = "top" /\ rules' = Append(rules, rule)
  BY DEF EndRule
<1>2. PICK t \in NextTokens :
        Read(t) /\ errors' = errors + ScanErrors(t) + RuleErrors(rule)
  BY DEF EndRule
<1>3. rule.patterns # <<>>
  <2>1. ScanErrors(t) \in Nat /\ RuleErrors(rule) \in Nat
    BY Reports DEF RuleErrors, Report
  <2>2. RuleErrors(rule) = 0
    BY <1>2, <2>1
  <2> QED BY <2>2 DEF RuleErrors, Report
<1>4. /\ InParser /\ InRule /\ ~InRule' /\ ~NameWaits /\ ~NameWaits'
  BY <1>1, <1>3 DEF InParser, InRule, NameWaits
<1>5. PlacesFit
  BY <1>4 DEF PlacesInv
<1>6. Front(input') = input
  BY <1>1, <1>2, CleanRead
<1>7. rules \in Seq(Rule) /\ rule \in Rule
  BY <1>4, ReadingKnown
<1>8. Settled' = Settled /\ Headings' = Headings
  <2>1. Settled' = Settled
    BY <1>1, <1>4, <1>6 DEF Settled
  <2>2. NameList(rules') = Append(NameList(rules), rule.name)
    BY <1>1, <1>7, RuleAppended
  <2> QED BY <1>1, <1>4, <2>1, <2>2 DEF Headings
<1>9. \A x : UsedInRules(rules', x) <=> UsedInRules(rules, x) \/ UsedInRule(rule, x)
  BY <1>1, <1>7, RuleAppended
<1>10. \A x : UsedSoFar(x)' <=> UsedSoFar(x)
  BY <1>1, <1>4, <1>9 DEF UsedSoFar
<1>11. HoleInRules(rules') <=> HoleInRules(rules) \/ HoleInRule(rule)
  BY <1>1, <1>7, RuleAppended
<1>12. HoleSoFar' <=> HoleSoFar
  BY <1>4, <1>11 DEF HoleSoFar
<1> QED BY <1>1, <1>4, <1>5, <1>8, <1>10, <1>12 DEF PlacesFit, TokenFits

(* A directive and its argument name nothing, use nothing and match        *)
(* nothing.                                                                *)
LEMMA ArgumentPlaces ==
  ASSUME MeaningInv, PlacesInv, errors = 0, errors' = 0,
         ParseVerbo \/ ParsePrefix \/ ParseName \/ ParseCode
  PROVE  TokenFits' /\ PlacesFit'
<1>1. /\ pc = "top" /\ pc' = "skip" /\ tok.type \in DirectiveTypes
      /\ UNCHANGED rules
  BY DEF ParseVerbo, ParsePrefix, ParseName, ParseCode, ParseArgument, AtTop,
         DirectiveTypes
<1>2. PICK t \in NextTokens :
        /\ Read(t)
        /\ t.type # Argument[tok.type] => errors' = errors + ScanErrors(t) + 1
  BY DEF ParseVerbo, ParsePrefix, ParseName, ParseCode, ParseArgument, AtTop,
         Argument
<1>3. t.type \in {"STRG", "NUMBER", "BLOCK"}
  <2>1. ScanErrors(t) \in Nat
    BY Reports
  <2>2. t.type = Argument[tok.type]
    BY <1>2, <2>1
  <2> QED BY <1>1, <2>2 DEF Argument, DirectiveTypes
<1>4. InParser /\ ~InRule /\ ~InRule' /\ ~NameWaits /\ ~NameWaits'
  BY <1>1 DEF InParser, InRule, NameWaits
<1>5. PlacesFit
  BY <1>4 DEF PlacesInv
<1>6. input' = Append(input, t) /\ t \in Token /\ t # Colon
  BY <1>1, <1>2, <1>3, CleanRead DEF Colon
<1>7. /\ input \in Seq(Token) /\ input # <<>> /\ Last(input) = tok /\ tok \in Token
      /\ Front(input) \in Seq(Token) /\ input = Append(Front(input), tok)
      /\ tok # Colon /\ tok.type # "SYMBOL" /\ tok.type # "BLOCK"
  BY <1>1, <1>4, ReadingKnown DEF Colon, DirectiveTypes
<1>8. /\ Settled = Front(input) /\ Settled' = input'
      /\ Headings = NameList(rules) /\ Headings' = NameList(rules)
  BY <1>1, <1>4 DEF Settled, Headings
<1> DEFINE s == Front(input)
           h == NameList(rules)
<1>9. Names(s, h)
  BY <1>5, <1>8 DEF PlacesFit
<1>10. /\ Names(Append(s, tok), h)
       /\ \A x : Uses(Append(s, tok), x) <=> Uses(s, x)
       /\ HasHole(Append(s, tok)) <=> HasHole(s)
  <2> HIDE DEF s, h
  <2>1. s \in Seq(Token)
    BY <1>7 DEF s
  <2>2. /\ Names(Append(s, tok), h)
        /\ \A x : Uses(Append(s, tok), x) <=>
                    Uses(s, x) \/ (tok.type = "SYMBOL" /\ tok.str = x)
    BY <1>7, <1>9, <2>1, NamesStay
  <2>3. \A i : HoleAt(Append(s, tok), i) <=> HoleAt(s, i)
    BY <1>7, <2>1, PlacesGrow
  <2> QED BY <1>7, <2>2, <2>3 DEF HasHole
<1>11. /\ Names(input', h)
       /\ \A x : Uses(input', x) <=> Uses(s, x)
       /\ HasHole(input') <=> HasHole(s)
  <2> HIDE DEF s, h
  <2>1. Names(input, h)
    BY <1>7, <1>10 DEF s
  <2>2. /\ Names(Append(input, t), h)
        /\ \A x : Uses(Append(input, t), x) <=>
                    Uses(input, x) \/ (t.type = "SYMBOL" /\ t.str = x)
        /\ HasHole(Append(input, t)) <=>
             HasHole(input) \/ (Last(input) = Colon /\ t.type = "BLOCK")
    BY <1>6, <1>7, <2>1, TokenSettles
  <2>3. (\A x : Uses(input, x) <=> Uses(s, x)) /\ (HasHole(input) <=> HasHole(s))
    BY <1>7, <1>10 DEF s
  <2>4. Last(input) # Colon /\ t.type # "SYMBOL"
    BY <1>3, <1>7
  <2> QED BY <1>6, <2>2, <2>3, <2>4
<1>12. (\A x : UsedSoFar(x)' <=> UsedSoFar(x)) /\ (HoleSoFar' <=> HoleSoFar)
  BY <1>1, <1>4 DEF UsedSoFar, HoleSoFar
<1> QED BY <1>1, <1>4, <1>5, <1>8, <1>11, <1>12 DEF PlacesFit, TokenFits

(* What the argument is passed over for, and parse_input's last step.      *)
LEMMA QuietPlaces ==
  ASSUME MeaningInv, PlacesInv, SkipArgument \/ Finish \/ UNCHANGED parserVars,
         errors = 0, InParser'
  PROVE  TokenFits' /\ PlacesFit'
<1>1. CASE SkipArgument \/ Finish
  <2>1. /\ pc' \in {"top", "done"} /\ pc \in {"top", "skip"}
        /\ UNCHANGED <<rule, rules>>
    BY <1>1 DEF SkipArgument, Finish, pstate
  <2>2. InParser /\ ~InRule /\ ~InRule' /\ ~NameWaits /\ ~NameWaits'
    BY <2>1 DEF InParser, InRule, NameWaits
  <2>3. Settled' = Settled
    <3>1. CASE SkipArgument
      <4>1. pc = "skip" /\ \E t \in NextTokens : Read(t)
        BY <3>1 DEF SkipArgument
      <4>2. Front(input') = input
        BY <4>1, CleanRead
      <4> QED BY <2>1, <2>2, <4>1, <4>2 DEF Settled
    <3>2. CASE Finish
      BY <2>1, <2>2, <3>2 DEF Settled, Finish
    <3> QED BY <1>1, <3>1, <3>2
  <2>4. Headings' = Headings
    BY <2>1, <2>2 DEF Headings
  <2>5. (\A x : UsedSoFar(x)' <=> UsedSoFar(x)) /\ (HoleSoFar' <=> HoleSoFar)
    BY <2>1, <2>2 DEF UsedSoFar, HoleSoFar, InRule
  <2> QED BY <2>1, <2>2, <2>3, <2>4, <2>5 DEF PlacesInv, PlacesFit, TokenFits
<1>2. CASE UNCHANGED parserVars
  <2>1. UNCHANGED <<tok, errors, pc, rule, elems, rules, input>>
    BY <1>2 DEF parserVars
  <2>2. InParser /\ (NameWaits' <=> NameWaits) /\ (InRule' <=> InRule)
    BY <2>1 DEF InParser, NameWaits, InRule
  <2>3. Settled' = Settled /\ Headings' = Headings
    BY <2>1, <2>2 DEF Settled, Headings
  <2>4. (\A x : UsedSoFar(x)' <=> UsedSoFar(x)) /\ (HoleSoFar' <=> HoleSoFar)
    BY <2>1, <2>2 DEF UsedSoFar, HoleSoFar
  <2> QED BY <2>1, <2>2, <2>3, <2>4 DEF PlacesInv, PlacesFit, TokenFits
<1> QED BY <1>1, <1>2

(* Every step of the parser keeps the places.                              *)
LEMMA PlacesStep ==
  ASSUME MeaningInv, PlacesInv, [Next]_parserVars
  PROVE  PlacesInv'
<1> SUFFICES ASSUME InParser' PROVE TokenFits' /\ PlacesFit'
  BY DEF PlacesInv
<1>1. errors' = 0 /\ pc' \notin {"fatal", "nomemory", "hung"}
  BY DEF InParser
<1>2. CASE UNCHANGED parserVars
  <2>1. errors = 0
    BY <1>1, <1>2 DEF parserVars
  <2> QED BY <1>2, <2>1, QuietPlaces
<1>3. CASE Next
  <2>1. errors = 0
    BY <1>1, <1>3, ErrorsStay DEF MeaningInv
  <2>2. CASE ScannerStops
    BY <1>1, <2>2 DEF ScannerStops
  <2>3. CASE Unexpected
    BY <1>1, <2>1, <2>3 DEF Unexpected
  <2> QED BY <1>1, <1>3, <2>1, <2>2, <2>3, CreatePlaces, BeginRulePlaces,
             BeginPatternPlaces, AddElemPlaces, EndPatternPlaces,
             EndRulePlaces, ArgumentPlaces, QuietPlaces
          DEF Next, ParseStep, ReadStep, LocalStep, Terminated
<1> QED BY <1>2, <1>3

(* parse_pattern sets no flag.                                             *)
LEMMA CleanStep ==
  ASSUME IInv, CleanInv, [Next]_parserVars
  PROVE  CleanInv'
<1>1. /\ rules \in Seq(Rule) /\ rule \in Rule \cup {NoRule}
      /\ elems \in Seq(PatElem) /\ tok \in Token
      /\ pc \in {"alternatives", "elems"} => rule \in Rule
  BY DEF IInv, TypeOK
<1>2. CleanRules(rules) /\ CleanRule(rule) /\ CleanElems(elems)
  BY DEF CleanInv
<1>3. CleanElems(<<>>)
  BY DEF CleanElems
<1>4. CASE UNCHANGED <<rules, rule, elems>>
  BY <1>2, <1>4 DEF CleanInv
<1>5. CASE BeginRule
  <2>1. UNCHANGED <<rules, elems>> /\ rule'.patterns = <<>>
    BY <1>5 DEF BeginRule, pstate
  <2> QED BY <1>2, <2>1 DEF CleanInv, CleanRule
<1>6. CASE BeginPattern
  <2>1. UNCHANGED <<rules, rule>> /\ elems' = <<>>
    BY <1>6 DEF BeginPattern, pstate
  <2> QED BY <1>2, <1>3, <2>1 DEF CleanInv
<1>7. CASE AddElem
  <2>1. PICK t \in NextTokens :
          /\ t.type = "SYMBOL" /\ elems' = Append(elems, NewElem(t.str))
          /\ UNCHANGED <<rules, rule>>
    BY <1>7 DEF AddElem, ElemsWith, pstate
  <2>2. t \in Token
    BY <1>1, NextTokensAreTokens
  <2>3. t.str \in Symbols
    BY <2>1, <2>2, TokenTexts
  <2>4. NewElem(t.str) \in PatElem /\ NewElem(t.str).is_terminal = FALSE
    BY <2>3 DEF NewElem, PatElem
  <2>5. CleanElems(elems')
    BY <1>1, <1>2, <2>1, <2>4, ElemAppended
  <2> QED BY <1>2, <2>1, <2>5 DEF CleanInv
<1>8. CASE EndPattern
  <2>1. PICK t \in NextTokens :
          /\ rule' = [rule EXCEPT !.patterns =
                        Append(@, [elems |-> elems, code |-> CodeOf(t)])]
          /\ elems' = <<>> /\ rules' = rules
    BY <1>8 DEF EndPattern, pstate
  <2>2. rule \in Rule /\ t \in Token
    BY <1>1, <1>8, NextTokensAreTokens DEF EndPattern
  <2> DEFINE p == [elems |-> elems, code |-> CodeOf(t)]
  <2>3. p \in Pattern /\ p.elems = elems
    <3>1. CodeOf(t) \in Blocks \cup {NullText}
      BY <2>2, TokenTexts DEF CodeOf
    <3> QED BY <1>1, <3>1 DEF Pattern
  <2>4. rule'.patterns = Append(rule.patterns, p)
    BY <2>1, <2>2 DEF Rule
  <2> HIDE DEF p
  <2>5. CleanRule(rule')
    BY <1>2, <2>2, <2>3, <2>4, PatternAppended
  <2> QED BY <1>2, <1>3, <2>1, <2>5 DEF CleanInv
<1>9. CASE EndRule
  <2>1. /\ rules' = Append(rules, rule) /\ rule' = NoRule /\ elems' = elems
        /\ rule \in Rule
    BY <1>1, <1>9 DEF EndRule
  <2>2. CleanRules(rules')
    BY <1>1, <1>2, <2>1, RuleAppended
  <2> QED BY <1>2, <2>1, <2>2 DEF CleanInv, CleanRule, NoRule
<1> QED BY <1>4, <1>5, <1>6, <1>7, <1>8, <1>9
        DEF Next, ParseStep, ReadStep, LocalStep, Terminated, CreateParser,
            ParseVerbo, ParsePrefix, ParseName, ParseCode, ParseArgument,
            SkipArgument, Unexpected, Finish, ScannerStops, pstate, parserVars

-----------------------------------------------------------------------------
(***************************************************************************)
(* When the names of the input are h, and what its symbols are used for is *)
(* known, so is everything that module RdpgenProps reads off the input.    *)
(***************************************************************************)
LEMMA InputSays ==
  ASSUME input \in Seq(Token), NEW h \in Seq(Symbols), Names(input, h)
  PROVE  /\ Cardinality(NamePlaces) = Len(h)
         /\ NoRules <=> h = <<>>
         /\ DistinctNames <=> IsInjective(h)
         /\ \A x : x \in TerminalNames <=> Uses(input, x) /\ x \notin ToSet(h)
         /\ AnEmptyPattern <=> HasHole(input)
         /\ \A k, l \in NamePlaces : k < l =>
              \E m, n \in DOMAIN h :
                m < n /\ h[m] = input[k].str /\ h[n] = input[l].str
<1> DEFINE N == Len(h)
<1>1. /\ N \in Nat /\ DOMAIN h = 1 .. N /\ (h = <<>> <=> N = 0)
      /\ Len(input) \in Nat /\ DOMAIN input = 1 .. Len(input)
  OBVIOUS
<1>2. PICK f : IsPlacing(f, input, h)
  BY DEF Names
<1>3. /\ f \in [1 .. N -> 1 .. Len(input)]
      /\ \A j, k \in 1 .. N : j < k => f[j] < f[k]
      /\ \A k \in 1 .. N : NameAt(input, f[k]) /\ input[f[k]].str = h[k]
      /\ \A i : NameAt(input, i) => \E k \in 1 .. N : f[k] = i
  BY <1>2 DEF IsPlacing
<1> HIDE DEF N
<1>4. \A i : i \in NamePlaces <=> NameAt(input, i)
  BY DEF NamePlaces, NameAt, IsSymbolAt
<1>5. \A i : i \in ElemPlaces <=> UseAt(input, i)
  BY <1>1, <1>4 DEF ElemPlaces, UseAt, IsSymbolAt
<1>6. \A i : i \in NamePlaces <=> \E k \in 1 .. N : f[k] = i
  BY <1>3, <1>4
<1>7. \A k \in 1 .. N : f[k] \in Int
  BY <1>1, <1>3
<1>8. \A j, k \in 1 .. N : f[j] = f[k] => j = k
  <2> SUFFICES ASSUME NEW j \in 1 .. N, NEW k \in 1 .. N, f[j] = f[k], j # k
               PROVE  FALSE
    OBVIOUS
  <2>1. CASE j < k
    BY <1>3, <1>7, <2>1
  <2>2. CASE k < j
    BY <1>3, <1>7, <2>2
  <2> QED BY <1>1, <2>1, <2>2
<1>9. \A j, k \in 1 .. N : f[j] < f[k] => j < k
  <2> SUFFICES ASSUME NEW j \in 1 .. N, NEW k \in 1 .. N, f[j] < f[k], ~(j < k)
               PROVE  FALSE
    OBVIOUS
  <2>1. CASE j = k
    BY <1>7, <2>1
  <2>2. CASE k < j
    <3>1. f[k] < f[j]
      BY <1>3, <2>2
    <3> QED BY <1>7, <3>1
  <2> QED BY <1>1, <2>1, <2>2
<1>10. Cardinality(NamePlaces) = N
  <2>1. f \in [1 .. N -> NamePlaces]
    BY <1>3, <1>6
  <2>2. f \in Injection(1 .. N, NamePlaces)
    BY <1>8, <2>1 DEF Injection, IsInjective
  <2>3. f \in Surjection(1 .. N, NamePlaces)
    BY <1>6, <2>1 DEF Surjection
  <2>4. ExistsBijection(1 .. N, NamePlaces)
    BY <2>2, <2>3 DEF ExistsBijection, Bijection
  <2> QED BY <1>1, <2>4, FS_CountingElements
<1>11. NoRules <=> h = <<>>
  <2>1. 1 .. N = {} <=> N = 0
    BY <1>1
  <2>2. NamePlaces = {} <=> 1 .. N = {}
    BY <1>6
  <2> QED BY <1>1, <2>1, <2>2 DEF NoRules
<1>12. DistinctNames <=> IsInjective(h)
  <2>1. \A j, k \in 1 .. N : /\ f[j] \in NamePlaces /\ f[k] \in NamePlaces
                             /\ input[f[j]].str = h[j] /\ input[f[k]].str = h[k]
    BY <1>3, <1>6
  <2>2. ASSUME DistinctNames PROVE IsInjective(h)
    <3> SUFFICES ASSUME NEW j \in 1 .. N, NEW k \in 1 .. N, h[j] = h[k]
                 PROVE  j = k
      BY <1>1 DEF IsInjective
    <3>1. f[j] = f[k]
      BY <2>1, <2>2 DEF DistinctNames
    <3> QED BY <1>8, <3>1
  <2>3. ASSUME IsInjective(h) PROVE DistinctNames
    <3> SUFFICES ASSUME NEW a \in NamePlaces, NEW b \in NamePlaces,
                        input[a].str = input[b].str
                 PROVE  a = b
      BY DEF DistinctNames
    <3>1. PICK j \in 1 .. N : f[j] = a
      BY <1>6
    <3>2. PICK k \in 1 .. N : f[k] = b
      BY <1>6
    <3>3. h[j] = h[k]
      BY <2>1, <3>1, <3>2
    <3> QED BY <1>1, <2>3, <3>1, <3>2, <3>3 DEF IsInjective
  <2> QED BY <2>2, <2>3
<1>13. ASSUME NEW x
       PROVE  x \in TerminalNames <=> Uses(input, x) /\ x \notin ToSet(h)
  <2>1. x \in DefinedNames <=> x \in ToSet(h)
    <3>1. x \in DefinedNames <=> \E k \in 1 .. N : input[f[k]].str = x
      BY <1>6 DEF DefinedNames
    <3>2. x \in ToSet(h) <=> \E k \in 1 .. N : h[k] = x
      BY <1>1 DEF ToSet
    <3> QED BY <1>3, <3>1, <3>2
  <2>2. x \in {input[i].str : i \in ElemPlaces} <=> Uses(input, x)
    BY <1>5 DEF Uses
  <2> QED BY <2>1, <2>2 DEF TerminalNames
<1>14. AnEmptyPattern <=> HasHole(input)
  BY DEF AnEmptyPattern, HasHole, HoleAt
<1>15. ASSUME NEW k \in NamePlaces, NEW l \in NamePlaces, k < l
       PROVE  \E m, n \in DOMAIN h :
                m < n /\ h[m] = input[k].str /\ h[n] = input[l].str
  <2>1. PICK m \in 1 .. N : f[m] = k
    BY <1>6
  <2>2. PICK n \in 1 .. N : f[n] = l
    BY <1>6
  <2>3. m < n /\ h[m] = input[k].str /\ h[n] = input[l].str
    BY <1>3, <1>9, <1>15, <2>1, <2>2
  <2> QED BY <1>1, <2>3
<1> QED BY <1>10, <1>11, <1>12, <1>13, <1>14, <1>15 DEF N

-----------------------------------------------------------------------------
(* The rules in the words of module PreProcProps.                          *)

EachHasPattern(rs) == \A r \in DOMAIN rs : rs[r].patterns # <<>>

(* The passes' own assumptions hold here.                                  *)
LEMMA PassAssumptions == PPP!NullAssumption /\ PPP!InitialRulesAssumption
BY NullAssumption DEF PPP!NullAssumption, PPP!InitialRulesAssumption

(* The passes' rules are the parser's.                                     *)
LEMMA SameRules == PPP!Rule = Rule
BY DEF PPP!Rule, PPP!Pattern, PPP!PatElem, Rule, Pattern, PatElem

(* Each notion of the passes' properties, as a notion of this module.      *)
LEMMA RulesSay ==
  ASSUME rules \in Seq(Rule)
  PROVE  /\ NameList(rules) \in Seq(Symbols)
         /\ \A x : x \in PPP!UsedSymbols <=> UsedInRules(rules, x)
         /\ PPP!RuleNames = ToSet(NameList(rules))
         /\ EachHasPattern(rules) =>
              (PPP!HasEmptyList <=> rules = <<>> \/ HoleInRules(rules))
         /\ PPP!IInv /\ phase \in {"terms", "done"} =>
              (errors = 0 <=> IsInjective(NameList(rules)))
<1> DEFINE N == Len(rules)
           h == NameList(rules)
<1>1. N \in Nat /\ DOMAIN rules = 1 .. N
  OBVIOUS
<1>2. h = [k \in 1 .. N |-> rules[k].name] /\ Len(h) = N
  BY <1>1 DEF NameList
<1>3. h \in Seq(Symbols)
  <2>1. \A k \in 1 .. N : rules[k].name \in Symbols
    <3>1. \A q \in Rule : q.name \in Symbols
      BY DEF Rule
    <3> QED BY <1>1, <3>1
  <2> HIDE DEF N
  <2>2. h \in [1 .. N -> Symbols]
    BY <1>2, <2>1
  <2> QED BY <1>1, <2>2
<1> HIDE DEF N, h
<1>4. ASSUME NEW x
      PROVE  x \in PPP!UsedSymbols <=> UsedInRules(rules, x)
  <2>1. /\ \A w \in PPP!Places :
             w = <<w[1], w[2], w[3]>> /\ PPP!Lists(rules, w[1], w[2], w[3])
        /\ \A r, p, e : PPP!Lists(rules, r, p, e) => <<r, p, e>> \in PPP!Places
    BY PassAssumptions, PPP!PlacesAre
  <2>2. ASSUME x \in PPP!UsedSymbols PROVE UsedInRules(rules, x)
    <3>1. PICK w \in PPP!Places : PPP!ElemAt(w).str = x
      BY <2>2 DEF PPP!UsedSymbols
    <3>2. PPP!Lists(rules, w[1], w[2], w[3])
      BY <2>1
    <3> QED BY <3>1, <3>2 DEF PPP!Lists, PPP!ElemAt, UsedInRules, UsedInRule,
                              UsedInElems
  <2>3. ASSUME UsedInRules(rules, x) PROVE x \in PPP!UsedSymbols
    <3>1. PICK r \in DOMAIN rules : UsedInRule(rules[r], x)
      BY <2>3 DEF UsedInRules
    <3>2. PICK p \in DOMAIN rules[r].patterns :
            UsedInElems(rules[r].patterns[p].elems, x)
      BY <3>1 DEF UsedInRule
    <3>3. PICK e \in DOMAIN rules[r].patterns[p].elems :
            rules[r].patterns[p].elems[e].str = x
      BY <3>2 DEF UsedInElems
    <3>4. <<r, p, e>> \in PPP!Places
      BY <2>1, <3>1, <3>2, <3>3 DEF PPP!Lists
    <3>5. PPP!ElemAt(<<r, p, e>>).str = x
      BY <3>3 DEF PPP!ElemAt
    <3> QED BY <3>4, <3>5 DEF PPP!UsedSymbols
  <2> QED BY <2>2, <2>3
<1>5. PPP!RuleNames = ToSet(h)
  <2>1. DOMAIN h = 1 .. N /\ \A k \in 1 .. N : h[k] = rules[k].name
    BY <1>2
  <2> QED BY <1>1, <2>1 DEF PPP!RuleNames, ToSet
<1>6. EachHasPattern(rules) =>
        (PPP!HasEmptyList <=> rules = <<>> \/ HoleInRules(rules))
  BY DEF EachHasPattern, PPP!HasEmptyList, HoleInRules, HoleInRule
<1>7. ASSUME PPP!IInv, phase \in {"terms", "done"}
      PROVE  errors = 0 <=> IsInjective(h)
  <2>1. errors = 0 <=> \A q, r \in 1 .. Len(rules) :
                         rules[q].name = rules[r].name => q = r
    BY <1>7, PassAssumptions, PPP!CleanPassesMean
  <2>2. DOMAIN h = 1 .. N /\ \A k \in 1 .. N : h[k] = rules[k].name
    BY <1>2
  <2> QED BY <2>1, <2>2 DEF IsInjective, N
<1> QED BY <1>3, <1>4, <1>5, <1>6, <1>7 DEF h

(* The flags that make_terms sets change none of these.                    *)
LEMMA SameSays ==
  ASSUME NEW rs \in Seq(Rule), NEW ss \in Seq(Rule), PPP!SameShape(rs, ss)
  PROVE  /\ NameList(rs) = NameList(ss)
         /\ \A x : UsedInRules(rs, x) <=> UsedInRules(ss, x)
         /\ HoleInRules(rs) <=> HoleInRules(ss)
         /\ EachHasPattern(rs) <=> EachHasPattern(ss)
<1> DEFINE N == Len(ss)
<1>1. /\ N \in Nat /\ Len(rs) = N /\ DOMAIN rs = 1 .. N /\ DOMAIN ss = 1 .. N
      /\ \A r \in 1 .. N : rs[r] \in Rule /\ ss[r] \in Rule
  BY DEF PPP!SameShape
<1>2. \A q \in Rule : q.patterns \in Seq(Pattern)
  BY DEF Rule
<1>3. \A q \in Pattern : q.elems \in Seq(PatElem)
  BY DEF Pattern
<1> HIDE DEF N
<1>4. ASSUME NEW r \in 1 .. N
      PROVE  /\ rs[r].name = ss[r].name
             /\ DOMAIN rs[r].patterns = DOMAIN ss[r].patterns
             /\ rs[r].patterns = <<>> <=> ss[r].patterns = <<>>
             /\ \A p \in DOMAIN ss[r].patterns :
                  /\ DOMAIN rs[r].patterns[p].elems = DOMAIN ss[r].patterns[p].elems
                  /\ (rs[r].patterns[p].elems = <<>>
                       <=> ss[r].patterns[p].elems = <<>>)
                  /\ \A e \in DOMAIN ss[r].patterns[p].elems :
                       rs[r].patterns[p].elems[e].str = ss[r].patterns[p].elems[e].str
  <2> DEFINE a == rs[r].patterns
             b == ss[r].patterns
             M == Len(b)
  <2>1. a \in Seq(Pattern) /\ b \in Seq(Pattern)
    BY <1>1, <1>2
  <2>2. /\ rs[r].name = ss[r].name /\ Len(a) = M
        /\ \A p \in 1 .. M :
             /\ Len(a[p].elems) = Len(b[p].elems)
             /\ \A e \in 1 .. Len(b[p].elems) : a[p].elems[e].str = b[p].elems[e].str
    BY DEF PPP!SameShape, N
  <2> HIDE DEF a, b
  <2>3. DOMAIN a = 1 .. M /\ DOMAIN b = 1 .. M /\ (a = <<>> <=> b = <<>>)
    BY <2>1, <2>2
  <2>4. ASSUME NEW p \in 1 .. M
        PROVE  /\ DOMAIN a[p].elems = DOMAIN b[p].elems
               /\ (a[p].elems = <<>> <=> b[p].elems = <<>>)
               /\ \A e \in DOMAIN b[p].elems : a[p].elems[e].str = b[p].elems[e].str
    <3> DEFINE c == a[p].elems
               d == b[p].elems
    <3>1. c \in Seq(PatElem) /\ d \in Seq(PatElem)
      BY <1>3, <2>1, <2>3
    <3>2. Len(c) = Len(d) /\ \A e \in 1 .. Len(d) : c[e].str = d[e].str
      BY <2>2
    <3> HIDE DEF c, d
    <3>3. /\ DOMAIN c = DOMAIN d /\ (c = <<>> <=> d = <<>>)
          /\ \A e \in DOMAIN d : c[e].str = d[e].str
      BY <3>1, <3>2, SMTT(30)
    <3> QED BY <3>3 DEF c, d
  <2> QED BY <2>2, <2>3, <2>4 DEF a, b
<1>5. NameList(rs) = NameList(ss)
  BY <1>1, <1>4 DEF NameList, N
<1>6. ASSUME NEW x PROVE UsedInRules(rs, x) <=> UsedInRules(ss, x)
  <2>1. ASSUME NEW r \in 1 .. N
        PROVE  UsedInRule(rs[r], x) <=> UsedInRule(ss[r], x)
    <3> DEFINE a == rs[r].patterns
               b == ss[r].patterns
    <3>1. /\ DOMAIN a = DOMAIN b
          /\ \A p \in DOMAIN b :
               UsedInElems(a[p].elems, x) <=> UsedInElems(b[p].elems, x)
      BY <1>4 DEF UsedInElems
    <3> HIDE DEF a, b
    <3>2. (\E p \in DOMAIN a : UsedInElems(a[p].elems, x)) <=>
          (\E p \in DOMAIN b : UsedInElems(b[p].elems, x))
      BY <3>1
    <3> QED BY <3>2 DEF a, b, UsedInRule
  <2> QED BY <1>1, <2>1 DEF UsedInRules
<1>7. HoleInRules(rs) <=> HoleInRules(ss)
  <2>1. \A r \in 1 .. N : HoleInRule(rs[r]) <=> HoleInRule(ss[r])
    BY <1>4 DEF HoleInRule
  <2> QED BY <1>1, <2>1 DEF HoleInRules
<1>8. EachHasPattern(rs) <=> EachHasPattern(ss)
  BY <1>1, <1>4 DEF EachHasPattern
<1> QED BY <1>5, <1>6, <1>7, <1>8

-----------------------------------------------------------------------------
(* What parse_input hands over when it reported nothing.                   *)

RulesFit ==
  /\ Names(input, NameList(rules))
  /\ \A x : Uses(input, x) <=> UsedInRules(rules, x)
  /\ HasHole(input) <=> HoleInRules(rules)

ParsedWell ==
  /\ input \in Seq(Token) /\ rules \in Seq(Rule) /\ verbo \in Int
  /\ Grammatical(input)
  /\ RulesFit /\ EachHasPattern(rules)
  /\ code = ArgumentsOf(input, "CODE")

(* At the end of the input all its tokens are settled.                     *)
LEMMA ParsedIsWell ==
  ASSUME FullInv, PlacesInv, pc = "done", errors = 0
  PROVE  ParsedWell
<1>1. /\ input \in Seq(Token) /\ rules \in Seq(Rule) /\ verbo \in Int
      /\ tok \in Token /\ RulesWellFormed /\ MeaningInv
  BY DEF FullInv, MeaningInv, IInv, TypeOK
<1>2. InParser /\ ~InRule /\ ~NameWaits
  BY DEF InParser, InRule, NameWaits
<1>3. Grammatical(input)
  BY ReadingDecides DEF VerdictIsRight
<1>4. EachHasPattern(rules)
  BY <1>1 DEF RulesWellFormed, RuleWellFormed, EachHasPattern
<1>5. code = ArgumentsOf(input, "CODE")
  BY <1>1, <1>2 DEF MeaningInv, SettingsInv, SettingsOf
<1>6. RulesFit
  <2> DEFINE s == Front(input)
             h == NameList(rules)
  <2>1. s \in Seq(Token) /\ input = Append(s, tok)
    BY <1>1, <1>2, ReadingKnown
  <2>2. tok.type = "END_OF_INPUT" /\ tok # Colon
    BY <1>2 DEF FullInv, VerdictInv, Colon
  <2>3. /\ Names(s, h)
        /\ \A x : Uses(s, x) <=> UsedInRules(rules, x)
        /\ HasHole(s) <=> HoleInRules(rules)
    BY <1>2 DEF PlacesInv, PlacesFit, Settled, Headings, UsedSoFar, HoleSoFar
  <2> HIDE DEF s, h
  <2>4. /\ Names(Append(s, tok), h)
        /\ \A x : Uses(Append(s, tok), x) <=>
                    Uses(s, x) \/ (tok.type = "SYMBOL" /\ tok.str = x)
    BY <1>1, <2>1, <2>2, <2>3, NamesStay
  <2>5. \A i : HoleAt(Append(s, tok), i) <=> HoleAt(s, i)
    BY <1>1, <2>1, <2>2, PlacesGrow
  <2> QED BY <2>1, <2>2, <2>3, <2>4, <2>5 DEF RulesFit, HasHole, h
<1> QED BY <1>1, <1>3, <1>4, <1>5, <1>6 DEF ParsedWell

(* A parsed file stays one while the passes set flags.                     *)
LEMMA ParsedStaysWell ==
  ASSUME ParsedWell, rules' \in Seq(Rule), PPP!SameShape(rules', rules),
         UNCHANGED <<input, verbo, code>>
  PROVE  ParsedWell'
<1>1. /\ NameList(rules') = NameList(rules)
      /\ \A x : UsedInRules(rules', x) <=> UsedInRules(rules, x)
      /\ HoleInRules(rules') <=> HoleInRules(rules)
      /\ EachHasPattern(rules') <=> EachHasPattern(rules)
  BY SameSays DEF ParsedWell
<1> QED BY <1>1 DEF ParsedWell, RulesFit

-----------------------------------------------------------------------------
(* The passes, on what was parsed.                                         *)

PassInv == PPP!IInv /\ PPP!ListedInOrder

(* They begin when parse_input returns.                                    *)
LEMMA PassBegins ==
  ASSUME ParsedWell, CleanInv, PP!PreInit, errors = 0
  PROVE  PassInv
<1>1. PPP!PreInit
  BY DEF PP!PreInit, PPP!PreInit, PP!Start, PPP!Start
<1>2. rules \in Seq(Rule)
  BY DEF ParsedWell
<1>3. PPP!Unflagged(rules)
  BY DEF CleanInv, CleanRules, CleanRule, CleanElems, PPP!Unflagged
<1>4. PPP!IInv
  BY <1>1, <1>2, <1>3, PassAssumptions, SameRules, PPP!PassesBegin
<1>5. PPP!ListedInOrder
  BY <1>1, PassAssumptions, PPP!OrderBegins
<1> QED BY <1>4, <1>5 DEF PassInv

(* One of their steps is a step of the passes of either instance.          *)
LEMMA SamePasses == PP!PreProcess => PPP!PreProcess
BY DEF PP!PreProcess, PP!NoRules, PP!AddNonTerm, PP!DuplicateRule,
       PP!EmptyPattern, PP!AddTerm, PP!SkipTerm, PP!WildLoop, PP!NextRule,
       PP!StrInLst, PP!Reported, PP!Start, PP!NothingToMatch, PP!Patterns,
       PP!Elems, PP!IsTerm, PP!Flagged, PP!NextElem, PP!MorePatterns,
       PP!StartOfNextPattern, PP!StartOfNextRule, PP!WalkEnds, PP!NamesWith,
       PPP!PreProcess, PPP!NoRules, PPP!AddNonTerm, PPP!DuplicateRule,
       PPP!EmptyPattern, PPP!AddTerm, PPP!SkipTerm, PPP!WildLoop, PPP!NextRule,
       PPP!StrInLst, PPP!Reported, PPP!Start, PPP!NothingToMatch, PPP!Patterns,
       PPP!Elems, PPP!IsTerm, PPP!Flagged, PPP!NextElem, PPP!MorePatterns,
       PPP!StartOfNextPattern, PPP!StartOfNextRule, PPP!WalkEnds,
       PPP!NamesWith

(* They keep their invariant, and what was parsed.                         *)
LEMMA PassGoesOn ==
  ASSUME ParsedWell, PassInv, PP!PreProcess, UNCHANGED <<input, verbo, code>>
  PROVE  ParsedWell' /\ PassInv'
<1>1. PPP!IInv /\ PPP!ListedInOrder /\ PPP!PreProcess
  BY SamePasses DEF PassInv
<1>2. PPP!IInv'
  BY <1>1, PassAssumptions, PPP!PassStep
<1>3. PPP!ListedInOrder'
  BY <1>1, PassAssumptions, PPP!OrderStep
<1>4. rules' \in Seq(Rule) /\ PPP!SameShape(rules', rules)
  BY <1>1, PassAssumptions, SameRules, PPP!PassKeepsShape
<1>5. ParsedWell'
  BY <1>4, ParsedStaysWell
<1> QED BY <1>2, <1>3, <1>5 DEF PassInv

(* Where they end, the input says how they had to.                         *)
LEMMA PassesDecide ==
  ASSUME ParsedWell, PassInv
  PROVE  /\ phase = "crash" => NoRules \/ AnEmptyPattern
         /\ phase = "done" => /\ ~NoRules /\ ~AnEmptyPattern
                              /\ errors = 0 <=> DistinctNames
                              /\ ~PPP!HasEmptyList
<1> DEFINE h == NameList(rules)
<1>1. /\ input \in Seq(Token) /\ rules \in Seq(Rule) /\ EachHasPattern(rules)
      /\ Names(input, h) /\ (HasHole(input) <=> HoleInRules(rules))
  BY DEF ParsedWell, RulesFit
<1>2. /\ h \in Seq(Symbols)
      /\ PPP!HasEmptyList <=> rules = <<>> \/ HoleInRules(rules)
      /\ PPP!IInv /\ phase \in {"terms", "done"} =>
           (errors = 0 <=> IsInjective(h))
  BY <1>1, RulesSay
<1>3. rules = <<>> <=> h = <<>>
  <2>1. Len(h) = Len(rules)
    BY <1>1 DEF NameList
  <2> HIDE DEF h
  <2>2. (rules = <<>> <=> Len(rules) = 0) /\ (h = <<>> <=> Len(h) = 0)
    BY <1>1, <1>2
  <2> QED BY <2>1, <2>2
<1> HIDE DEF h
<1>4. /\ NoRules <=> h = <<>>
      /\ DistinctNames <=> IsInjective(h)
      /\ AnEmptyPattern <=> HasHole(input)
  BY <1>1, <1>2, InputSays
<1>5. PPP!IInv
  BY DEF PassInv
<1>6. PPP!CrashIffEmptyList
  BY <1>5, PassAssumptions, PPP!CrashIsRight
<1>8. PPP!HasEmptyList <=> NoRules \/ AnEmptyPattern
  BY <1>1, <1>2, <1>3, <1>4
<1>9. phase = "done" => (errors = 0 <=> DistinctNames)
  BY <1>2, <1>4, <1>5
<1> QED BY <1>6, <1>8, <1>9 DEF PPP!CrashIffEmptyList

-----------------------------------------------------------------------------
(* What dump_state prints.                                                 *)

Clean == ParsedWell /\ PassInv /\ phase = "done" /\ errors = 0

(* The five sections, and when each is printed.                            *)
LEMMA SectionsAre ==
  /\ DOMAIN Sections = 1 .. 5
  /\ Contents(1) = <<name, prefix, verbo>> /\ Contents(2) = rules
  /\ Contents(3) = terminals /\ Contents(4) = non_terminals /\ Contents(5) = code
  /\ Sections[1] = "header" /\ Sections[2] = "rules" /\ Sections[3] = "terminals"
  /\ Sections[4] = "non terminals" /\ Sections[5] = "code"
  /\ Printed(1) <=> verbo > 0
  /\ Printed(2) <=> verbo > 3
  /\ \A i \in 3 .. 5 : Printed(i) <=> verbo > 5
<1>1. /\ Sections[1] = "header" /\ Sections[2] = "rules"
      /\ Sections[3] = "terminals" /\ Sections[4] = "non terminals"
      /\ Sections[5] = "code" /\ DOMAIN Sections = 1 .. 5
  BY DEF Sections
<1>2. /\ Threshold[1] = 0 /\ Threshold[2] = 3 /\ Threshold[3] = 5
      /\ Threshold[4] = 5 /\ Threshold[5] = 5
  BY DEF Threshold
<1>3. \A i \in 3 .. 5 : i = 3 \/ i = 4 \/ i = 5
  OBVIOUS
<1> QED BY <1>1, <1>2, <1>3 DEF Contents, Printed

(* The symbol lists are those of the input.                                *)
LEMMA ListsAreTheInputs ==
  ASSUME Clean
  PROVE  /\ Grammatical(input) /\ DistinctNames /\ ~NoRules /\ ~AnEmptyPattern
         /\ IsInjective(terminals) /\ ToSet(terminals) = TerminalNames
         /\ terminals = <<>> <=> TerminalNames = {}
         /\ non_terminals # <<>>
         /\ Len(non_terminals) = Cardinality(NamePlaces)
         /\ \A k, l \in NamePlaces : k < l =>
              \E m, n \in DOMAIN non_terminals :
                /\ m < n
                /\ non_terminals[m] = input[k].str
                /\ non_terminals[n] = input[l].str
<1> DEFINE h == NameList(rules)
<1>1. /\ input \in Seq(Token) /\ rules \in Seq(Rule) /\ Names(input, h)
      /\ Grammatical(input)
      /\ \A x : Uses(input, x) <=> UsedInRules(rules, x)
  BY DEF Clean, ParsedWell, RulesFit
<1>2. ~NoRules /\ ~AnEmptyPattern /\ DistinctNames
  BY PassesDecide DEF Clean
<1>3. /\ h \in Seq(Symbols)
      /\ \A x : x \in PPP!UsedSymbols <=> UsedInRules(rules, x)
      /\ PPP!RuleNames = ToSet(h)
  BY <1>1, RulesSay
<1>4. non_terminals = h
  BY DEF Clean, PassInv, PPP!ListedInOrder, PPP!NameList, NameList
<1> HIDE DEF h
<1>5. /\ Cardinality(NamePlaces) = Len(h)
      /\ NoRules <=> h = <<>>
      /\ \A x : x \in TerminalNames <=> Uses(input, x) /\ x \notin ToSet(h)
      /\ \A k, l \in NamePlaces : k < l =>
           \E m, n \in DOMAIN h :
             m < n /\ h[m] = input[k].str /\ h[n] = input[l].str
  BY <1>1, <1>3, InputSays
<1>6. PPP!IInv
  BY DEF Clean, PassInv
<1>7. PPP!EverySymbolClassified
  BY <1>6, PassAssumptions, PPP!DoneIsClassified
<1>8. /\ ToSet(terminals) = PPP!UsedSymbols \ PPP!RuleNames
      /\ IsInjective(terminals)
  BY <1>7 DEF PPP!EverySymbolClassified, Clean, PPP!ToSet, ToSet,
              PPP!IsInjective, IsInjective
<1>9. ToSet(terminals) = TerminalNames
  <2>1. \A x : x \in ToSet(terminals) <=> x \in TerminalNames
    BY <1>1, <1>3, <1>5, <1>8
  <2> QED BY <2>1
<1>10. terminals = <<>> <=> TerminalNames = {}
  <2>1. terminals \in Seq(Symbols)
    BY <1>6 DEF PPP!IInv, PPP!TypeOK
  <2>2. terminals = <<>> <=> ToSet(terminals) = {}
    <3>1. terminals = <<>> <=> 1 \notin DOMAIN terminals
      BY <2>1
    <3>2. DOMAIN terminals = {} <=> ToSet(terminals) = {}
      BY DEF ToSet
    <3>3. DOMAIN terminals = {} <=> 1 \notin DOMAIN terminals
      BY <2>1
    <3> QED BY <3>1, <3>2, <3>3
  <2> QED BY <1>9, <2>2
<1>11. non_terminals # <<>>
  BY <1>2, <1>4, <1>5
<1> QED BY <1>1, <1>2, <1>4, <1>5, <1>8, <1>9, <1>10, <1>11

(* A section that walks an empty list comes from a file that has one.      *)
LEMMA WildMeansEmpty ==
  ASSUME Clean, NEW k \in 1 .. 5, Printed(k)
  PROVE  /\ WildSection(k) => WalksAnEmptyList
         /\ k \in {1, 2, 4} => ~WildSection(k)
         /\ k = 3 => (WildSection(k) <=> TerminalNames = {})
         /\ k = 5 => (WildSection(k) <=> ArgumentsOf(input, "CODE") = <<>>)
<1>1. /\ Grammatical(input) /\ DistinctNames
      /\ terminals = <<>> <=> TerminalNames = {}
      /\ non_terminals # <<>>
      /\ code = ArgumentsOf(input, "CODE")
  BY ListsAreTheInputs DEF Clean, ParsedWell
<1>2. ~PPP!HasEmptyList
  BY PassesDecide DEF Clean
<1>3. rules # <<>> /\ ~HasEmptyPattern
  BY <1>2 DEF PPP!HasEmptyList, HasEmptyPattern, PP!WildLoop
<1>4. k = 1 => ~WildSection(k)
  <2>1. \A a, b, c : Len(<<a, b, c>>) = 3 /\ Len(<<>>) = 0
    OBVIOUS
  <2>2. Contents(1) = <<name, prefix, verbo>> /\ Sections[1] = "header"
    BY SectionsAre
  <2>3. Contents(1) # <<>>
    BY <2>1, <2>2
  <2> QED BY <2>2, <2>3 DEF WildSection, PP!WildLoop
<1>5. k = 2 => ~WildSection(k)
  BY <1>3, SectionsAre DEF WildSection, PP!WildLoop
<1>6. k = 3 => (WildSection(k) <=> TerminalNames = {})
  BY <1>1, SectionsAre DEF WildSection, PP!WildLoop
<1>7. k = 4 => ~WildSection(k)
  BY <1>1, SectionsAre DEF WildSection, PP!WildLoop
<1>8. k = 5 => (WildSection(k) <=> ArgumentsOf(input, "CODE") = <<>>)
  BY <1>1, SectionsAre DEF WildSection, PP!WildLoop
<1>9. k \in {3, 5} => verbo > 5
  <2>1. \A i \in 3 .. 5 : Printed(i) <=> verbo > 5
    BY SectionsAre
  <2>2. k \in {3, 5} => k \in 3 .. 5
    OBVIOUS
  <2> QED BY <2>1, <2>2
<1>10. k = 1 \/ k = 2 \/ k = 3 \/ k = 4 \/ k = 5
  OBVIOUS
<1>11. WildSection(k) => WalksAnEmptyList
  BY <1>1, <1>4, <1>5, <1>6, <1>7, <1>8, <1>9, <1>10
     DEF WalksAnEmptyList, NothingToPrint
<1> QED BY <1>4, <1>5, <1>6, <1>7, <1>8, <1>11

(* What the input says of a section with one of the two symbol lists.      *)
CompleteSection(s) ==
  /\ s.title = "non terminals" =>
       /\ Len(s.body) = Cardinality(NamePlaces)
       /\ \A k, l \in NamePlaces : k < l =>
            \E m, n \in DOMAIN s.body :
              m < n /\ s.body[m] = input[k].str /\ s.body[n] = input[l].str
  /\ s.title = "terminals" => IsInjective(s.body) /\ ToSet(s.body) = TerminalNames

(* The two symbol lists are complete wherever they are printed.            *)
LEMMA SectionIsComplete ==
  ASSUME Clean, NEW k \in 1 .. 5
  PROVE  CompleteSection(Section(k))
<1>1. Section(k).title = Sections[k] /\ Section(k).body = Contents(k)
  BY DEF Section
<1>2. k = 1 \/ k = 2 \/ k = 3 \/ k = 4 \/ k = 5
  OBVIOUS
<1>3. /\ Section(k).title = "non terminals" => Section(k).body = non_terminals
      /\ Section(k).title = "terminals" => Section(k).body = terminals
  BY <1>1, <1>2, SectionsAre
<1>4. ASSUME Section(k).title = "non terminals"
      PROVE  /\ Len(Section(k).body) = Cardinality(NamePlaces)
             /\ \A i, l \in NamePlaces : i < l =>
                  \E m, n \in DOMAIN Section(k).body :
                    m < n /\ Section(k).body[m] = input[i].str
                          /\ Section(k).body[n] = input[l].str
  <2>1. Section(k).body = non_terminals
    BY <1>3, <1>4
  <2>2. /\ Len(non_terminals) = Cardinality(NamePlaces)
        /\ \A i, l \in NamePlaces : i < l =>
             \E m, n \in DOMAIN non_terminals :
               /\ m < n
               /\ non_terminals[m] = input[i].str
               /\ non_terminals[n] = input[l].str
    BY ListsAreTheInputs
  <2> QED BY <2>1, <2>2
<1>5. ASSUME Section(k).title = "terminals"
      PROVE  /\ IsInjective(Section(k).body)
             /\ ToSet(Section(k).body) = TerminalNames
  <2>1. Section(k).body = terminals
    BY <1>3, <1>5
  <2>2. IsInjective(terminals) /\ ToSet(terminals) = TerminalNames
    BY ListsAreTheInputs
  <2> QED BY <2>1, <2>2
<1> QED BY <1>4, <1>5 DEF CompleteSection

-----------------------------------------------------------------------------
(* How the program stands at each stage.                                   *)

(* How many sections the verbosity asks for: a beginning of the five.      *)
Most == IF verbo > 5 THEN 5 ELSE IF verbo > 3 THEN 2
        ELSE IF verbo > 0 THEN 1 ELSE 0
Shown(n) == IF n < Most THEN n ELSE Most

(* o consists of the first n sections.                                     *)
AreSections(o, n) ==
  /\ o \in Seq({Section(i) : i \in 1 .. 5}) /\ Len(o) = n
  /\ \A i \in 1 .. n : o[i] = Section(i)

NotYet == out = <<>> /\ section = 1 /\ status = "running"

ParseInv ==
  /\ FullInv /\ PlacesInv /\ CleanInv /\ PP!PreInit
  /\ pc = "fatal" => errors # 0

DumpInv ==
  /\ Clean /\ section \in 1 .. 6
  /\ AreSections(out, Shown(section - 1))
  /\ \A k \in 1 .. section - 1 : Printed(k) => ~WildSection(k)

FaultyReport ==
  /\ out = <<>> /\ errors # 0
  /\ ~(Grammatical(input) /\ DistinctNames) /\ ~WalksAnEmptyList
CleanReport == Clean /\ AreSections(out, Most) /\ ~WalksAnEmptyList

OverInv ==
  /\ status # "running"
  /\ KilledOnlyByEmptyLists /\ ReportIsRight
  /\ OnlyCleanStateIsPrinted /\ PrintedListsAreComplete

MInv ==
  /\ stage \in {"open", "parse", "process", "dump", "report", "over"}
  /\ stage = "open" => ParseInv /\ NotYet /\ errors = 0
  /\ stage = "parse" => ParseInv /\ NotYet
  /\ stage = "process" => ParsedWell /\ PassInv /\ NotYet
  /\ stage = "dump" => DumpInv /\ status = "running"
  /\ stage = "report" => (FaultyReport \/ CleanReport) /\ status = "running"
  /\ stage = "over" => OverInv

(* The sections that are printed are those up to Most.                     *)
LEMMA MostArePrinted ==
  ASSUME verbo \in Int
  PROVE  /\ Most \in 0 .. 5 /\ \A k \in 1 .. 5 : Printed(k) <=> k <= Most
         /\ Most >= 3 => verbo > 5
         /\ verbo > 5 => Most = 5
<1>1. /\ Printed(1) <=> verbo > 0
      /\ Printed(2) <=> verbo > 3
      /\ \A i \in 3 .. 5 : Printed(i) <=> verbo > 5
  BY SectionsAre
<1>2. \A k \in 1 .. 5 : k = 1 \/ k = 2 \/ k \in 3 .. 5
  OBVIOUS
<1>3. /\ Most \in 0 .. 5
      /\ 1 <= Most <=> verbo > 0
      /\ 2 <= Most <=> verbo > 3
      /\ \A k \in 3 .. 5 : k <= Most <=> verbo > 5
  BY DEF Most
<1> QED BY <1>1, <1>2, <1>3 DEF Most

(* What the properties read off an unchanged input does not change.        *)
LEMMA SameInput ==
  ASSUME UNCHANGED <<input, verbo>>
  PROVE  /\ NamePlaces' = NamePlaces /\ TerminalNames' = TerminalNames
         /\ DistinctNames' <=> DistinctNames
         /\ WalksAnEmptyList' <=> WalksAnEmptyList
         /\ Expected' = Expected
<1>1. /\ NamePlaces' = NamePlaces
      /\ ElemPlaces' = ElemPlaces
      /\ Expected' = Expected
  BY DEF NamePlaces, ElemPlaces, IsSymbolAt, Expected
<1>2. TerminalNames' = TerminalNames
  BY <1>1 DEF TerminalNames, DefinedNames
<1>3. DistinctNames' <=> DistinctNames
  BY <1>1 DEF DistinctNames
<1>4. (NoRules' <=> NoRules) /\ (AnEmptyPattern' <=> AnEmptyPattern)
  BY <1>1 DEF NoRules, AnEmptyPattern
<1>5. NothingToPrint' <=> NothingToPrint
  BY <1>2 DEF NothingToPrint
<1> QED BY <1>1, <1>2, <1>3, <1>4, <1>5 DEF WalksAnEmptyList

(* A clean state stays clean, and its sections stay, while nothing but the *)
(* output changes.                                                         *)
LEMMA CleanStands ==
  ASSUME Clean, UNCHANGED <<parserVars, preOnly>>
  PROVE  /\ Clean'
         /\ \A i : Section(i)' = Section(i) /\ (Printed(i)' <=> Printed(i))
                   /\ (WildSection(i)' <=> WildSection(i))
         /\ Most' = Most
<1>1. /\ UNCHANGED <<rules, terminals, non_terminals, errors, phase, cur>>
      /\ UNCHANGED <<input, verbo, code, name, prefix>>
  BY DEF parserVars, preOnly
<1>2. PPP!IInv'
  <2>1. PPP!IInv
    BY DEF Clean, PassInv
  <2>2. UNCHANGED PPP!preVars
    BY <1>1 DEF PPP!preVars
  <2> QED BY <2>1, <2>2, PassAssumptions, PPP!PassesStand
<1>3. PPP!ListedInOrder'
  BY <1>1 DEF Clean, PassInv, PPP!ListedInOrder, PPP!NameList
<1>4. ParsedWell'
  BY <1>1 DEF Clean, ParsedWell, RulesFit
<1>5. \A i : Contents(i)' = Contents(i)
  BY <1>1 DEF Contents
<1>6. HasEmptyPattern' <=> HasEmptyPattern
  BY <1>1 DEF HasEmptyPattern, PP!WildLoop
<1>7. \A i : Section(i)' = Section(i) /\ (Printed(i)' <=> Printed(i))
             /\ (WildSection(i)' <=> WildSection(i))
  BY <1>1, <1>5, <1>6 DEF Section, Printed, WildSection, PP!WildLoop
<1>8. Most' = Most
  BY <1>1 DEF Most
<1> QED BY <1>1, <1>2, <1>3, <1>4, <1>7, <1>8 DEF Clean, PassInv

(* Printed lists are complete, of any output o.                            *)
ListsComplete(o) == \A i \in DOMAIN o : CompleteSection(o[i])

(* They are when o is made of sections and of the number of errors.        *)
LEMMA SectionsAreComplete ==
  ASSUME Clean, NEW o,
         \A i \in DOMAIN o : (\E k \in 1 .. 5 : o[i] = Section(k))
                               \/ o[i].title = "errors"
  PROVE  ListsComplete(o)
<1> SUFFICES ASSUME NEW i \in DOMAIN o
             PROVE  CompleteSection(o[i])
  BY DEF ListsComplete
<1>1. CASE o[i].title = "errors"
  BY <1>1 DEF CompleteSection
<1>2. ASSUME NEW k \in 1 .. 5, o[i] = Section(k)
      PROVE  CompleteSection(o[i])
  BY <1>2, SectionIsComplete
<1> QED BY <1>1, <1>2

(* Where the input stays, the property says this of the next output too.   *)
LEMMA ListsCompleteIs ==
  /\ PrintedListsAreComplete <=> ListsComplete(out)
  /\ UNCHANGED <<input, verbo>> =>
       (PrintedListsAreComplete' <=> ListsComplete(out'))
<1>1. PrintedListsAreComplete <=> ListsComplete(out)
  BY DEF PrintedListsAreComplete, ListsComplete, CompleteSection
<1>2. ASSUME UNCHANGED <<input, verbo>>
      PROVE  PrintedListsAreComplete' <=> ListsComplete(out')
  <2>1. NamePlaces' = NamePlaces /\ TerminalNames' = TerminalNames
    BY <1>2, SameInput
  <2> QED BY <1>2, <2>1 DEF PrintedListsAreComplete, ListsComplete, CompleteSection
<1> QED BY <1>1, <1>2

(* An output that consists of sections.                                    *)
LEMMA SectionsOf ==
  ASSUME NEW n \in 0 .. 5, NEW o, AreSections(o, n)
  PROVE  /\ DOMAIN o = 1 .. n
         /\ \A i \in DOMAIN o : \E k \in 1 .. 5 : o[i] = Section(k)
         /\ \A i \in 1 .. n : o[i].title = Sections[i]
<1> DEFINE S == {Section(i) : i \in 1 .. 5}
<1>1. o \in Seq(S) /\ Len(o) = n /\ \A i \in 1 .. n : o[i] = Section(i)
  BY DEF AreSections
<1>2. \A i \in 1 .. n : Section(i).title = Sections[i]
  BY DEF Section
<1>3. 1 .. n \subseteq 1 .. 5
  OBVIOUS
<1> HIDE DEF S
<1>4. DOMAIN o = 1 .. n
  BY <1>1
<1> QED BY <1>1, <1>2, <1>3, <1>4

(* The sections with something after them.                                 *)
LEMMA SectionsAndMore ==
  ASSUME NEW n \in 0 .. 5, NEW o, AreSections(o, n), NEW x,
         NEW q, q = Append(o, x)
  PROVE  /\ q # <<>> /\ Len(q) = n + 1
         /\ DOMAIN q = 1 .. n + 1 /\ q[n + 1] = x
         /\ \A i \in 1 .. n : q[i] = o[i]
<1> DEFINE S == {Section(i) : i \in 1 .. 5}
<1>1. o \in Seq(S) /\ Len(o) = n
  BY DEF AreSections
<1> HIDE DEF S
<1> DEFINE T == S \cup {x}
<1>2. o \in Seq(T) /\ x \in T
  BY <1>1
<1> HIDE DEF T
<1>3. /\ q \in Seq(T) /\ Len(q) = n + 1 /\ q[n + 1] = x
      /\ \A i \in 1 .. n : q[i] = o[i]
  BY <1>1, <1>2
<1>4. DOMAIN q = 1 .. n + 1 /\ q # <<>>
  BY <1>3
<1> QED BY <1>3, <1>4

(* Before the program is over, none of its promises is broken.             *)
LEMMA PromisesHold ==
  ASSUME MInv
  PROVE  /\ KilledOnlyByEmptyLists /\ ReportIsRight
         /\ OnlyCleanStateIsPrinted /\ PrintedListsAreComplete
<1>1. CASE stage = "over"
  BY <1>1 DEF MInv, OverInv
<1>2. CASE stage # "over"
  <2>1. status = "running"
    BY <1>2 DEF MInv, NotYet
  <2>2. KilledOnlyByEmptyLists /\ ReportIsRight
    BY <2>1 DEF KilledOnlyByEmptyLists, ReportIsRight
  <2>3. CASE out = <<>>
    <3>1. DOMAIN out = {}
      BY <2>3
    <3> QED BY <2>1, <2>2, <2>3, <3>1 DEF OnlyCleanStateIsPrinted,
                                         PrintedListsAreComplete
  <2>4. ASSUME Clean, NEW n \in 0 .. 5, AreSections(out, n)
        PROVE  OnlyCleanStateIsPrinted /\ PrintedListsAreComplete
    <3>1. PrintedListsAreComplete
      BY <2>4, SectionsOf, SectionsAreComplete, ListsCompleteIs
    <3>2. Grammatical(input) /\ DistinctNames
      BY <2>4, ListsAreTheInputs
    <3> QED BY <2>1, <3>1, <3>2 DEF OnlyCleanStateIsPrinted
  <2>5. CASE stage = "dump"
    <3>1. Clean /\ AreSections(out, Shown(section - 1)) /\ section \in 1 .. 6
      BY <2>5 DEF MInv, DumpInv
    <3>2. Shown(section - 1) \in 0 .. 5
      <4>1. Most \in 0 .. 5
        BY <3>1, MostArePrinted DEF Clean, ParsedWell
      <4> QED BY <3>1, <4>1 DEF Shown
    <3> QED BY <2>2, <2>4, <3>1, <3>2
  <2>6. CASE stage = "report" /\ CleanReport
    <3>1. Clean /\ AreSections(out, Most)
      BY <2>6 DEF CleanReport
    <3>2. Most \in 0 .. 5
      BY <3>1, MostArePrinted DEF Clean, ParsedWell
    <3> QED BY <2>2, <2>4, <3>1, <3>2
  <2>7. stage \in {"open", "parse", "process"} => out = <<>>
    BY DEF MInv, NotYet
  <2>8. stage = "report" /\ ~CleanReport => out = <<>>
    BY DEF MInv, FaultyReport
  <2> QED BY <1>2, <2>2, <2>3, <2>5, <2>6, <2>7, <2>8 DEF MInv
<1> QED BY <1>1, <1>2

-----------------------------------------------------------------------------
(* The steps of main.                                                      *)

(* The program begins with nothing read and nothing printed.               *)
LEMMA MainBegins == MainInit => MInv
<1> SUFFICES ASSUME MainInit PROVE MInv
  OBVIOUS
<1>1. Init /\ PP!PreInit /\ stage = "open" /\ NotYet
  BY DEF MainInit, NotYet
<1>2. FullInv
  BY <1>1, InitFull
<1>3. PlacesInv /\ errors = 0 /\ pc = "create"
  BY <1>1 DEF Init, PlacesInv, InParser
<1>4. CleanInv
  BY <1>1 DEF Init, CleanInv, CleanRules, CleanRule, CleanElems, NoRule
<1> QED BY <1>1, <1>2, <1>3, <1>4 DEF MInv, ParseInv

(* A step of the parser, or none, keeps what is known while it reads.      *)
LEMMA ParseGoesOn ==
  ASSUME ParseInv, [Next]_parserVars, UNCHANGED preOnly
  PROVE  ParseInv'
<1>1. FullInv /\ MeaningInv /\ IInv /\ PlacesInv /\ CleanInv
  BY DEF ParseInv, FullInv, MeaningInv
<1>2. FullInv'
  BY <1>1, StepFull
<1>3. PlacesInv'
  BY <1>1, PlacesStep
<1>4. CleanInv'
  BY <1>1, CleanStep
<1>5. PP!PreInit'
  BY DEF ParseInv, preOnly, PP!PreInit, PP!Start
<1>6. ASSUME pc' = "fatal" PROVE errors' # 0
  <2>1. errors \in Nat
    BY <1>1 DEF IInv, TypeOK
  <2>2. CASE pc = "fatal"
    <3>1. errors # 0
      BY <2>2 DEF ParseInv
    <3>2. CASE Next
      BY <1>1, <3>1, <3>2, ErrorsStay
    <3>3. CASE UNCHANGED parserVars
      BY <3>1, <3>3 DEF parserVars
    <3> QED BY <3>2, <3>3
  <2>3. CASE pc # "fatal"
    <3>1. ScannerStops
      BY <1>6, <2>3
         DEF Next, ParseStep, ReadStep, LocalStep, Terminated, CreateParser,
             BeginRule, BeginPattern, AddElem, EndPattern, EndRule,
             ParseVerbo, ParsePrefix, ParseName, ParseCode, ParseArgument,
             SkipArgument, Unexpected, Finish, parserVars
    <3>2. errors' = errors + 2
      BY <1>6, <3>1 DEF ScannerStops
    <3> QED BY <2>1, <3>2
  <2> QED BY <2>2, <2>3
<1> QED BY <1>2, <1>3, <1>4, <1>5, <1>6 DEF ParseInv

(* Nothing was printed.                                                    *)
LEMMA NothingPrinted ==
  ASSUME NEW o, o = <<>>
  PROVE  DOMAIN o = {}
  OBVIOUS

(* An end before anything was printed, other than by a wild loop.          *)
LEMMA EndsSilently ==
  ASSUME stage' = "over", status' \in {"exit 1", "hung"}, out' = <<>>,
         status' = "exit 1" => errors' > 0 \/ pc' = "nomemory"
  PROVE  MInv'
<1>1. KilledOnlyByEmptyLists' /\ ReportIsRight'
  BY DEF KilledOnlyByEmptyLists, ReportIsRight
<1>2. DOMAIN out' = {}
  <2>1. out' = <<>>
    OBVIOUS
  <2> QED BY <2>1, NothingPrinted
<1>3. OnlyCleanStateIsPrinted' /\ PrintedListsAreComplete'
  BY <1>2 DEF OnlyCleanStateIsPrinted, PrintedListsAreComplete
<1> QED BY <1>1, <1>3 DEF MInv, OverInv

(* open_input_file succeeds, or the program exits with a report.           *)
LEMMA OpenStep ==
  ASSUME MInv, OpenInput
  PROVE  MInv'
<1>1. stage = "open" /\ ParseInv /\ NotYet /\ errors = 0
  BY DEF MInv, OpenInput
<1>2. UNCHANGED <<tok, pc, rule, elems, pstate, input, preOnly, section, out>>
  BY DEF OpenInput
<1>3. CASE stage' = "parse" /\ UNCHANGED <<errors, status>>
  <2>1. UNCHANGED parserVars
    BY <1>2, <1>3 DEF parserVars, pstate
  <2>2. ParseInv'
    BY <1>1, <1>2, <2>1, ParseGoesOn
  <2> QED BY <1>1, <1>2, <1>3, <2>2 DEF MInv, NotYet
<1>4. CASE errors' = errors + 1 /\ End("exit 1")
  <2>1. stage' = "over" /\ status' = "exit 1"
    BY <1>4 DEF End
  <2>2. out' = <<>>
    BY <1>1, <1>2 DEF NotYet
  <2>3. errors' > 0
    <3>1. errors' = errors + 1 /\ errors = 0
      BY <1>1, <1>4
    <3> QED BY <3>1
  <2> QED BY <2>1, <2>2, <2>3, EndsSilently
<1> QED BY <1>3, <1>4 DEF OpenInput

(* parse_input goes on.                                                    *)
LEMMA ParseMoves ==
  ASSUME MInv, Parse
  PROVE  MInv'
<1>1. stage = "parse" /\ ParseInv /\ NotYet /\ ParseStep
  BY DEF MInv, Parse
<1>2. UNCHANGED <<preOnly, stage, section, out, status>>
  BY DEF Parse, mainVars
<1>3. ParseInv'
  BY <1>1, <1>2, ParseGoesOn DEF Next
<1> QED BY <1>1, <1>2, <1>3 DEF MInv, NotYet

(* parse_input returns, with the grammar or with errors; or it does not.   *)
LEMMA ParseEnds ==
  ASSUME MInv, ParseOver
  PROVE  MInv'
<1>1. stage = "parse" /\ ParseInv /\ NotYet
  BY DEF MInv, ParseOver
<1>2. /\ UNCHANGED <<parserVars, preOnly, section, out>>
      /\ pc \in {"done", "fatal", "nomemory", "hung"}
  BY DEF ParseOver, Stopped, Exited
<1>3. errors' = errors /\ errors \in Nat
  BY <1>1, <1>2 DEF parserVars, ParseInv, FullInv, MeaningInv, IInv, TypeOK
<1>4. CASE pc = "done" /\ errors = 0
  <2>1. stage' = "process" /\ UNCHANGED status
    BY <1>4 DEF ParseOver, Exited, AfterParse
  <2>2. ParsedWell
    BY <1>1, <1>4, ParsedIsWell DEF ParseInv
  <2>3. PassInv
    BY <1>1, <1>4, <2>2, PassBegins DEF ParseInv
  <2>4. ParsedWell'
    BY <1>2, <2>2 DEF ParsedWell, RulesFit, parserVars
  <2>5. PassInv'
    <3>1. UNCHANGED PPP!preVars
      BY <1>2 DEF PPP!preVars, parserVars, preOnly
    <3>2. PPP!IInv'
      BY <2>3, <3>1, PassAssumptions, PPP!PassesStand DEF PassInv
    <3>3. PPP!ListedInOrder'
      BY <2>3, <3>1 DEF PassInv, PPP!ListedInOrder, PPP!NameList, PPP!preVars
    <3> QED BY <3>2, <3>3 DEF PassInv
  <2> QED BY <1>1, <1>2, <2>1, <2>4, <2>5 DEF MInv, NotYet
<1>5. CASE pc = "done" /\ errors # 0
  <2>1. stage' = "report" /\ UNCHANGED <<status, input, errors, out, verbo>>
    BY <1>2, <1>5 DEF ParseOver, Exited, AfterParse, parserVars
  <2>2. ~Grammatical(input)
    <3>1. ~Viable(input)
      BY <1>1, <1>5, ReadingDecides DEF ParseInv, VerdictIsRight
    <3> QED BY <3>1 DEF Viable
  <2>3. FaultyReport
    BY <1>1, <1>5, <2>2 DEF FaultyReport, NotYet, WalksAnEmptyList
  <2>4. FaultyReport'
    BY <2>1, <2>3, SameInput DEF FaultyReport
  <2> QED BY <1>1, <2>1, <2>4 DEF MInv, NotYet
<1>6. CASE pc = "fatal"
  <2>1. stage' = "over" /\ status' = "exit 1"
    BY <1>6 DEF ParseOver, Exited, End
  <2>2. errors # 0
    BY <1>1, <1>6 DEF ParseInv
  <2>3. out' = <<>> /\ errors' > 0
    BY <1>1, <1>2, <1>3, <2>2 DEF NotYet
  <2> QED BY <2>1, <2>3, EndsSilently
<1>7. CASE pc = "nomemory"
  <2>1. stage' = "over" /\ status' = "exit 1" /\ pc' = "nomemory"
    BY <1>2, <1>7 DEF ParseOver, Exited, End, parserVars
  <2> QED BY <1>1, <1>2, <2>1, EndsSilently DEF NotYet
<1>8. CASE pc = "hung"
  <2>1. stage' = "over" /\ status' = "hung"
    BY <1>8 DEF ParseOver, Exited, End
  <2> QED BY <1>1, <1>2, <2>1, EndsSilently DEF NotYet
<1> QED BY <1>2, <1>4, <1>5, <1>6, <1>7, <1>8

(* The passes go on.                                                       *)
LEMMA PassMoves ==
  ASSUME MInv, PreProcess
  PROVE  MInv'
<1>1. /\ stage = "process" /\ ParsedWell /\ PassInv /\ NotYet
      /\ PP!PreProcess
  BY DEF MInv, PreProcess
<1>2. UNCHANGED <<input, verbo, code, stage, section, out, status>>
  BY DEF PreProcess, mainVars
<1>3. ParsedWell' /\ PassInv'
  BY <1>1, <1>2, PassGoesOn
<1> QED BY <1>1, <1>2, <1>3 DEF MInv, NotYet

(* A death by a wild loop, of a file that leaves a list empty.             *)
LEMMA DiesOfAnEmptyList ==
  ASSUME stage' = "over", status' = "killed", UNCHANGED <<input, verbo>>,
         WalksAnEmptyList,
         out' = <<>> \/ (/\ Grammatical(input) /\ DistinctNames
                         /\ ListsComplete(out'))
  PROVE  MInv'
<1>1. KilledOnlyByEmptyLists'
  BY SameInput DEF KilledOnlyByEmptyLists
<1>2. ReportIsRight'
  BY DEF ReportIsRight
<1>3. OnlyCleanStateIsPrinted'
  <2>1. CASE out' = <<>>
    BY <2>1 DEF OnlyCleanStateIsPrinted
  <2>2. CASE Grammatical(input) /\ DistinctNames
    BY <2>2, SameInput DEF OnlyCleanStateIsPrinted
  <2> QED BY <2>1, <2>2
<1>4. PrintedListsAreComplete'
  <2>1. CASE out' = <<>>
    <3>1. DOMAIN out' = {}
      BY <2>1
    <3> QED BY <3>1 DEF PrintedListsAreComplete
  <2>2. CASE ListsComplete(out')
    BY <2>2, ListsCompleteIs
  <2> QED BY <2>1, <2>2
<1> QED BY <1>1, <1>2, <1>3, <1>4 DEF MInv, OverInv

(* The passes end, or die.                                                 *)
LEMMA PassEnds ==
  ASSUME MInv, PassesOver
  PROVE  MInv'
<1>1. stage = "process" /\ ParsedWell /\ PassInv /\ NotYet
  BY DEF MInv, PassesOver
<1>2. /\ UNCHANGED <<parserVars, preOnly, section, out>>
      /\ UNCHANGED <<input, verbo, errors>>
      /\ phase \in {"done", "crash"}
  BY DEF PassesOver, parserVars
<1>3. CASE phase = "crash"
  <2>1. stage' = "over" /\ status' = "killed"
    BY <1>3 DEF PassesOver, End
  <2>2. WalksAnEmptyList
    BY <1>1, <1>3, PassesDecide DEF WalksAnEmptyList, ParsedWell
  <2> QED BY <1>1, <1>2, <2>1, <2>2, DiesOfAnEmptyList DEF NotYet
<1>4. CASE phase = "done" /\ errors # 0
  <2>1. stage' = "report" /\ UNCHANGED status
    BY <1>4 DEF PassesOver, AfterPasses
  <2>2. ~NoRules /\ ~AnEmptyPattern /\ ~DistinctNames
    BY <1>1, <1>4, PassesDecide
  <2>3. FaultyReport
    BY <1>1, <1>4, <2>2 DEF FaultyReport, WalksAnEmptyList, NotYet
  <2>4. FaultyReport'
    BY <1>2, <2>3, SameInput DEF FaultyReport
  <2> QED BY <1>1, <2>1, <2>4 DEF MInv, NotYet
<1>5. CASE phase = "done" /\ errors = 0
  <2>1. stage' = "dump" /\ UNCHANGED status
    BY <1>5 DEF PassesOver, AfterPasses
  <2>2. Clean
    BY <1>1, <1>5 DEF Clean
  <2>3. Clean'
    BY <1>2, <2>2, CleanStands
  <2>4. section' = 1 /\ out' = <<>>
    BY <1>1, <1>2 DEF NotYet
  <2>5. Shown(0)' = 0
    <3>1. verbo' \in Int
      BY <2>3 DEF Clean, ParsedWell
    <3>2. Most' \in 0 .. 5
      BY <3>1 DEF Most
    <3> QED BY <3>2 DEF Shown
  <2>6. AreSections(out, Shown(section - 1))'
    <3>1. Shown(section - 1)' = 0
      BY <2>4, <2>5 DEF Shown
    <3> QED BY <2>4, <3>1 DEF AreSections
  <2>7. DumpInv'
    BY <2>3, <2>4, <2>6 DEF DumpInv
  <2> QED BY <1>1, <2>1, <2>7 DEF MInv, NotYet
<1> QED BY <1>2, <1>3, <1>4, <1>5

(* One more section is appended to the first ones.                         *)
LEMMA OneMoreSection ==
  ASSUME NEW k \in 1 .. 5, NEW o, AreSections(o, k - 1)
  PROVE  AreSections(Append(o, Section(k)), k)
<1> DEFINE S == {Section(i) : i \in 1 .. 5}
           x == Section(k)
<1>1. /\ o \in Seq(S) /\ Len(o) = k - 1 /\ x \in S
      /\ \A i \in 1 .. k - 1 : o[i] = Section(i)
  BY DEF AreSections
<1> HIDE DEF S, x
<1> DEFINE q == Append(o, x)
<1>2. /\ q \in Seq(S) /\ Len(q) = k /\ q[k] = x
      /\ \A i \in 1 .. k - 1 : q[i] = o[i]
  BY <1>1
<1> HIDE DEF q
<1>3. \A i \in 1 .. k : i = k \/ i \in 1 .. k - 1
  OBVIOUS
<1>4. \A i \in 1 .. k : q[i] = Section(i)
  BY <1>1, <1>2, <1>3 DEF x
<1>5. AreSections(q, k)
  BY <1>2, <1>4 DEF AreSections, S
<1> QED BY <1>5 DEF q, x

(* dump_state passes over a section, prints it, or dies in it.             *)
LEMMA DumpStep ==
  ASSUME MInv, DumpSection
  PROVE  MInv'
<1> DEFINE k == section
<1>1. /\ stage = "dump" /\ DumpInv /\ status = "running"
      /\ k \in 1 .. 5
  BY SectionsAre DEF MInv, DumpSection
<1>2. /\ Clean /\ AreSections(out, Shown(k - 1))
      /\ \A i \in 1 .. k - 1 : Printed(i) => ~WildSection(i)
  BY <1>1 DEF DumpInv
<1>3. UNCHANGED <<parserVars, preOnly>> /\ UNCHANGED <<input, verbo>>
  BY DEF DumpSection, parserVars
<1>4. /\ Clean'
      /\ \A i : Section(i)' = Section(i) /\ (Printed(i)' <=> Printed(i))
                /\ (WildSection(i)' <=> WildSection(i))
      /\ Most' = Most
  BY <1>2, <1>3, CleanStands
<1>5. /\ Most \in 0 .. 5 /\ (Printed(k) <=> k <= Most)
  BY <1>1, <1>2, MostArePrinted DEF Clean, ParsedWell
<1>6. ASSUME section' = k + 1, AreSections(out', Shown(k)),
             Printed(k) => ~WildSection(k), UNCHANGED <<stage, status>>
      PROVE  MInv'
  <2>1. section' \in 1 .. 6 /\ section' - 1 = k
    BY <1>1, <1>6
  <2>2. Shown(section - 1)' = Shown(k)
    BY <1>4, <2>1 DEF Shown
  <2>3. AreSections(out, Shown(section - 1))'
    BY <1>4, <1>6, <2>2 DEF AreSections
  <2>4. \A i \in 1 .. k : Printed(i) => ~WildSection(i)
    <3>1. \A i \in 1 .. k : i = k \/ i \in 1 .. k - 1
      BY <1>1
    <3> QED BY <1>2, <1>6, <3>1
  <2>5. DumpInv'
    BY <1>4, <2>1, <2>3, <2>4 DEF DumpInv
  <2> QED BY <1>1, <1>6, <2>5 DEF MInv
<1>7. CASE ~Printed(k)
  <2>1. section' = k + 1 /\ UNCHANGED <<out, stage, status>>
    BY <1>7 DEF DumpSection
  <2>2. Shown(k - 1) = Shown(k)
    BY <1>1, <1>5, <1>7 DEF Shown
  <2> QED BY <1>2, <1>6, <1>7, <2>1, <2>2
<1>8. CASE Printed(k)
  <2>1. out' = Append(out, Section(k))
    BY <1>8 DEF DumpSection
  <2>2. Shown(k - 1) = k - 1 /\ Shown(k) = k
    BY <1>1, <1>5, <1>8 DEF Shown
  <2>3. AreSections(out', k)
    BY <1>1, <1>2, <2>1, <2>2, OneMoreSection
  <2>4. CASE ~WildSection(k)
    BY <1>6, <1>8, <2>2, <2>3, <2>4 DEF DumpSection
  <2>5. CASE WildSection(k)
    <3>1. stage' = "over" /\ status' = "killed"
      BY <1>8, <2>5 DEF DumpSection, End
    <3>2. WalksAnEmptyList /\ Grammatical(input) /\ DistinctNames
      BY <1>1, <1>2, <1>8, <2>5, WildMeansEmpty, ListsAreTheInputs
    <3>3. ListsComplete(out')
      <4>1. k \in 0 .. 5
        BY <1>1
      <4>2. \A i \in DOMAIN out' : \E j \in 1 .. 5 : out'[i] = Section(j)
        BY <2>3, <4>1, SectionsOf
      <4> QED BY <1>2, <4>2, SectionsAreComplete
    <3> QED BY <1>3, <3>1, <3>2, <3>3, DiesOfAnEmptyList
  <2> QED BY <2>4, <2>5
<1> QED BY <1>7, <1>8

(* After the last section there was no empty list to die of.               *)
LEMMA DumpEnds ==
  ASSUME MInv, DumpOver
  PROVE  MInv'
<1>1. stage = "dump" /\ DumpInv /\ status = "running" /\ section \notin 1 .. 5
  BY SectionsAre DEF MInv, DumpOver
<1>2. /\ Clean /\ section = 6 /\ AreSections(out, Shown(5))
      /\ \A i \in 1 .. 5 : Printed(i) => ~WildSection(i)
  <2>1. section = 6
    BY <1>1 DEF DumpInv
  <2> QED BY <1>1, <2>1 DEF DumpInv
<1>3. /\ stage' = "report" /\ UNCHANGED <<parserVars, preOnly, out, status>>
      /\ UNCHANGED <<input, verbo>>
  BY DEF DumpOver, parserVars
<1>4. /\ Most \in 0 .. 5
      /\ \A i \in 1 .. 5 : Printed(i) <=> i <= Most
      /\ verbo > 5 => Most = 5
  BY <1>2, MostArePrinted DEF Clean, ParsedWell
<1>5. Shown(5) = Most
  BY <1>4 DEF Shown
<1>6. ~WalksAnEmptyList
  <2>1. Grammatical(input) /\ DistinctNames /\ ~NoRules /\ ~AnEmptyPattern
    BY <1>2, ListsAreTheInputs
  <2>2. ASSUME verbo > 5
        PROVE  TerminalNames # {} /\ ArgumentsOf(input, "CODE") # <<>>
    <3>1. 3 \in 1 .. 5 /\ 5 \in 1 .. 5 /\ Printed(3) /\ Printed(5)
      BY <1>4, <2>2
    <3> QED BY <1>2, <3>1, WildMeansEmpty
  <2> QED BY <2>1, <2>2 DEF WalksAnEmptyList, NothingToPrint
<1>7. /\ Clean' /\ \A i : Section(i)' = Section(i)
      /\ Most' = Most
  BY <1>2, <1>3, CleanStands
<1>8. AreSections(out, Most)'
  BY <1>2, <1>3, <1>5, <1>7 DEF AreSections
<1>9. CleanReport'
  BY <1>3, <1>6, <1>7, <1>8, SameInput DEF CleanReport
<1> QED BY <1>1, <1>3, <1>9 DEF MInv

(* The titles that the verbosity asks for.                                 *)
Headline == {"header", "rules", "terminals", "non terminals", "code", "errors"}

(* They are the titles of the sections up to Most.                         *)
LEMMA ExpectedTitles ==
  ASSUME verbo \in Int
  PROVE  /\ Expected \in Seq(Headline) /\ Len(Expected) = Most
         /\ \A i \in 1 .. Most : Expected[i] = Sections[i]
<1>1. CASE verbo > 5
  <2>1. Most = 5 /\ Expected = Sections
    BY <1>1 DEF Most, Expected, Sections
  <2>2. Sections \in Seq(Headline) /\ Len(Sections) = 5
    BY DEF Sections, Headline
  <2> QED BY <2>1, <2>2
<1>2. CASE verbo > 3 /\ ~(verbo > 5)
  <2>1. Most = 2 /\ Expected = <<"header", "rules">>
    BY <1>2 DEF Most, Expected
  <2>2. Len(Expected) = 2 /\ Expected \in Seq(Headline)
    BY <2>1 DEF Headline
  <2>3. \A i \in 1 .. 2 : i = 1 \/ i = 2
    OBVIOUS
  <2>4. Expected[1] = Sections[1] /\ Expected[2] = Sections[2]
    BY <2>1, SectionsAre
  <2> QED BY <2>1, <2>2, <2>3, <2>4
<1>3. CASE verbo > 0 /\ ~(verbo > 3)
  <2>0. ~(verbo > 5)
    BY <1>3
  <2>1. Most = 1 /\ Expected = <<"header">>
    BY <1>3, <2>0 DEF Most, Expected
  <2>2. Len(Expected) = 1 /\ Expected \in Seq(Headline)
    BY <2>1 DEF Headline
  <2>3. \A i \in 1 .. 1 : i = 1
    OBVIOUS
  <2>4. Expected[1] = Sections[1]
    BY <2>1, SectionsAre
  <2> QED BY <2>1, <2>2, <2>3, <2>4
<1>4. CASE ~(verbo > 0)
  <2>0. ~(verbo > 5) /\ ~(verbo > 3)
    BY <1>4
  <2>1. Most = 0 /\ Expected = <<>>
    BY <1>4, <2>0 DEF Most, Expected
  <2> QED BY <2>1
<1> QED BY <1>1, <1>2, <1>3, <1>4

(* main's last line.                                                       *)
LEMMA ReportStep ==
  ASSUME MInv, ReportErrors
  PROVE  MInv'
<1> DEFINE x == [title |-> "errors", body |-> <<errors>>]
<1>1. stage = "report" /\ (FaultyReport \/ CleanReport)
  BY DEF MInv, ReportErrors
<1>2. /\ out' = Append(out, x) /\ stage' = "over" /\ status' = "exit 0"
      /\ UNCHANGED <<input, verbo, errors>>
  BY DEF ReportErrors, End, parserVars
<1>3. x.title = "errors" /\ x = [title |-> "errors", body |-> <<errors>>]'
  BY <1>2
<1> HIDE DEF x
<1>4. KilledOnlyByEmptyLists'
  BY <1>1, <1>2, SameInput
     DEF KilledOnlyByEmptyLists, FaultyReport, CleanReport
<1>5. CASE FaultyReport
  <2>1. out = <<>> /\ errors # 0 /\ ~(Grammatical(input) /\ DistinctNames)
    BY <1>5 DEF FaultyReport
  <2>2. out' = <<x>> /\ Last(out') = x /\ DOMAIN out' = {1} /\ out'[1] = x
    <3>1. out' = <<x>>
      <4>1. \A z : Append(<<>>, z) = <<z>>
        OBVIOUS
      <4> QED BY <1>2, <2>1, <4>1
    <3>2. Len(<<x>>) = 1 /\ DOMAIN <<x>> = {1} /\ <<x>>[1] = x
      OBVIOUS
    <3> QED BY <3>1, <3>2 DEF Last
  <2>3. ReportIsRight'
    BY <1>2, <1>3, <2>1, <2>2, SameInput DEF ReportIsRight
  <2>4. Titles' = <<>> \o <<"errors">>
    <3>1. Titles' = [i \in {1} |-> "errors"]
      BY <1>3, <2>2 DEF Titles
    <3>2. <<"errors">> = [i \in {1} |-> "errors"]
      OBVIOUS
    <3>3. <<>> \o <<"errors">> = <<"errors">>
      OBVIOUS
    <3> QED BY <3>1, <3>2, <3>3
  <2>5. OnlyCleanStateIsPrinted'
    BY <1>2, <1>3, <2>1, <2>2, <2>4 DEF OnlyCleanStateIsPrinted
  <2>6. PrintedListsAreComplete'
    BY <1>3, <2>2 DEF PrintedListsAreComplete
  <2> QED BY <1>2, <1>4, <2>3, <2>5, <2>6 DEF MInv, OverInv
<1>6. CASE CleanReport
  <2>1. Clean /\ AreSections(out, Most) /\ errors = 0 /\ verbo \in Int
    BY <1>6 DEF CleanReport, Clean, ParsedWell
  <2>2. Grammatical(input) /\ DistinctNames
    BY <2>1, ListsAreTheInputs
  <2>3. Most \in 0 .. 5
    BY <2>1, MostArePrinted
  <2>10. PICK n \in 0 .. 5 : n = Most
    BY <2>3
  <2>4. /\ \A i \in 1 .. n : out[i].title = Sections[i]
        /\ \A i \in 1 .. n : \E k \in 1 .. 5 : out[i] = Section(k)
        /\ out' # <<>> /\ Last(out') = x /\ DOMAIN out' = 1 .. n + 1
        /\ out'[n + 1] = x /\ \A i \in 1 .. n : out'[i] = out[i]
    <3>1. AreSections(out, n) /\ n \in 0 .. 5
      BY <2>1, <2>10
    <3>2. /\ DOMAIN out = 1 .. n
          /\ \A i \in DOMAIN out : \E k \in 1 .. 5 : out[i] = Section(k)
          /\ \A i \in 1 .. n : out[i].title = Sections[i]
      <4>1. DOMAIN out = 1 .. n
        BY <3>1, SectionsOf
      <4>2. \A i \in DOMAIN out : \E k \in 1 .. 5 : out[i] = Section(k)
        BY <3>1, SectionsOf
      <4>3. \A i \in 1 .. n : out[i].title = Sections[i]
        BY <3>1, SectionsOf
      <4> QED BY <4>1, <4>2, <4>3
    <3>3. /\ out' # <<>> /\ Last(out') = x
          /\ DOMAIN out' = 1 .. n + 1 /\ out'[n + 1] = x
          /\ \A i \in 1 .. n : out'[i] = out[i]
      <4>1. out' = Append(out, x)
        BY <1>2
      <4>2. ASSUME NEW q, q = Append(out, x)
            PROVE  /\ q # <<>> /\ Last(q) = x
                   /\ DOMAIN q = 1 .. n + 1 /\ q[n + 1] = x
                   /\ \A i \in 1 .. n : q[i] = out[i]
        <5>1. q # <<>>
          BY <3>1, <4>2, SectionsAndMore, SMTT(30)
        <5>2. DOMAIN q = 1 .. n + 1
          BY <3>1, <4>2, SectionsAndMore, SMTT(30)
        <5>3. q[n + 1] = x
          BY <3>1, <4>2, SectionsAndMore, SMTT(30)
        <5>4. \A i \in 1 .. n : q[i] = out[i]
          BY <3>1, <4>2, SectionsAndMore, SMTT(30)
        <5>5. Len(q) = n + 1
          BY <3>1, <4>2, SectionsAndMore, SMTT(30)
        <5>6. Last(q) = x
          BY <5>3, <5>5 DEF Last
        <5> QED BY <5>1, <5>2, <5>3, <5>4, <5>6
      <4> QED BY <4>1, <4>2
    <3> QED BY <3>2, <3>3
  <2>5. ReportIsRight'
    BY <1>2, <1>3, <2>1, <2>2, <2>4, SameInput DEF ReportIsRight
  <2>6. n \in Nat /\ \A i \in 1 .. n + 1 : i = n + 1 \/ i \in 1 .. n
    BY <2>10
  <2>7. Titles' = Expected \o <<"errors">>
    <3> DEFINE e == Expected
               t == Titles'
    <3>1. /\ e \in Seq(Headline) /\ Len(e) = n
          /\ \A i \in 1 .. n : e[i] = Sections[i]
      BY <2>1, <2>10, ExpectedTitles
    <3>2. t = [i \in 1 .. n + 1 |-> out'[i].title]
      BY <2>4 DEF Titles
    <3> HIDE DEF e, t
    <3>3. t[n + 1] = "errors" /\ \A i \in 1 .. n : t[i] = e[i]
      <4>1. n + 1 \in 1 .. n + 1 /\ \A i \in 1 .. n : i \in 1 .. n + 1
        BY <2>6
      <4>2. t[n + 1] = "errors"
        BY <1>3, <2>4, <3>2, <4>1
      <4>3. \A i \in 1 .. n : t[i] = out[i].title
        BY <2>4, <3>2, <4>1
      <4> QED BY <2>4, <3>1, <4>2, <4>3
    <3> DEFINE q == Append(e, "errors")
    <3>4. /\ q \in Seq(Headline) /\ Len(q) = n + 1 /\ q[n + 1] = "errors"
          /\ \A i \in 1 .. n : q[i] = e[i]
          /\ q = e \o <<"errors">>
      <4>1. "errors" \in Headline
        BY DEF Headline
      <4>2. q = e \o <<"errors">>
        BY <3>1, <4>1
      <4>3. q \in Seq(Headline) /\ Len(q) = n + 1 /\ q[n + 1] = "errors"
        BY <2>6, <3>1, <4>1
      <4>4. \A i \in 1 .. n : q[i] = e[i]
        BY <2>6, <3>1, <4>1
      <4> QED BY <4>2, <4>3, <4>4
    <3> HIDE DEF q
    <3>5. q = [i \in 1 .. n + 1 |-> q[i]]
      BY <2>6, <3>4
    <3>6. \A i \in 1 .. n + 1 : t[i] = q[i]
      BY <2>6, <3>3, <3>4
    <3>7. t = [i \in 1 .. n + 1 |-> t[i]]
      BY <3>2
    <3>8. t = q
      BY <3>5, <3>6, <3>7
    <3> QED BY <3>4, <3>8 DEF e, t
  <2>8. OnlyCleanStateIsPrinted'
    <3>1. (Grammatical(input) /\ DistinctNames)'
      BY <1>2, <2>2, SameInput
    <3>2. Titles' = Expected' \o <<"errors">>
      BY <1>2, <2>7, SameInput
    <3> QED BY <1>2, <2>1, <3>1, <3>2 DEF OnlyCleanStateIsPrinted
  <2>9. PrintedListsAreComplete'
    <3>1. \A i \in DOMAIN out' : (\E k \in 1 .. 5 : out'[i] = Section(k))
                                   \/ out'[i].title = "errors"
      BY <1>3, <2>4, <2>6
    <3>2. ListsComplete(out')
      BY <2>1, <3>1, SectionsAreComplete
    <3> QED BY <1>2, <3>2, ListsCompleteIs
  <2> QED BY <1>2, <1>4, <2>5, <2>8, <2>9 DEF MInv, OverInv
<1> QED BY <1>1, <1>5, <1>6

(* Nothing moves.                                                          *)
LEMMA MainStands ==
  ASSUME MInv, UNCHANGED vars
  PROVE  MInv'
<1>1. /\ UNCHANGED <<parserVars, preOnly, stage, section, out, status>>
      /\ UNCHANGED <<input, verbo, errors>>
  BY DEF vars, mainVars, parserVars
<1>2. CASE stage \in {"open", "parse"}
  <2>1. ParseInv /\ NotYet /\ (stage = "open" => errors = 0)
    BY <1>2 DEF MInv
  <2>2. ParseInv'
    BY <1>1, <2>1, ParseGoesOn
  <2> QED BY <1>1, <1>2, <2>1, <2>2 DEF MInv, NotYet
<1>3. CASE stage = "process"
  <2>1. ParsedWell /\ PassInv /\ NotYet
    BY <1>3 DEF MInv
  <2>2. ParsedWell'
    BY <1>1, <2>1 DEF ParsedWell, RulesFit, parserVars
  <2>3. UNCHANGED PPP!preVars
    BY <1>1 DEF PPP!preVars, parserVars, preOnly
  <2>4. PPP!IInv'
    BY <2>1, <2>3, PassAssumptions, PPP!PassesStand DEF PassInv
  <2>5. PPP!ListedInOrder'
    BY <2>1, <2>3 DEF PassInv, PPP!ListedInOrder, PPP!NameList, PPP!preVars
  <2>6. PassInv'
    BY <2>4, <2>5 DEF PassInv
  <2> QED BY <1>1, <1>3, <2>1, <2>2, <2>6 DEF MInv, NotYet
<1>4. CASE stage = "dump"
  <2>1. DumpInv /\ status = "running" /\ Clean /\ section \in 1 .. 6
    BY <1>4 DEF MInv, DumpInv
  <2>2. /\ Clean' /\ Most' = Most
        /\ \A i : Section(i)' = Section(i) /\ (Printed(i)' <=> Printed(i))
                  /\ (WildSection(i)' <=> WildSection(i))
    BY <1>1, <2>1, CleanStands
  <2>3. Shown(section - 1)' = Shown(section - 1)
    BY <1>1, <2>2 DEF Shown
  <2>4. AreSections(out, Shown(section - 1))'
    BY <1>1, <2>1, <2>2, <2>3 DEF DumpInv, AreSections
  <2>5. DumpInv'
    BY <1>1, <2>1, <2>2, <2>4 DEF DumpInv
  <2> QED BY <1>1, <1>4, <2>1, <2>5 DEF MInv
<1>5. CASE stage = "report"
  <2>1. status = "running" /\ (FaultyReport \/ CleanReport)
    BY <1>5 DEF MInv
  <2>2. CASE FaultyReport
    <3>1. FaultyReport'
      BY <1>1, <2>2, SameInput DEF FaultyReport
    <3> QED BY <1>1, <1>5, <2>1, <3>1 DEF MInv
  <2>3. CASE CleanReport
    <3>1. Clean /\ AreSections(out, Most) /\ ~WalksAnEmptyList
      BY <2>3 DEF CleanReport
    <3>2. Clean' /\ Most' = Most /\ \A i : Section(i)' = Section(i)
      BY <1>1, <3>1, CleanStands
    <3>3. AreSections(out, Most)'
      BY <1>1, <3>1, <3>2 DEF AreSections
    <3>4. CleanReport'
      BY <1>1, <3>1, <3>2, <3>3, SameInput DEF CleanReport
    <3> QED BY <1>1, <1>5, <2>1, <3>4 DEF MInv
  <2> QED BY <2>1, <2>2, <2>3
<1>6. CASE stage = "over"
  <2>1. OverInv
    BY <1>6 DEF MInv
  <2>2. KilledOnlyByEmptyLists'
    BY <1>1, <2>1, SameInput DEF OverInv, KilledOnlyByEmptyLists
  <2>3. ReportIsRight'
    BY <1>1, <2>1, SameInput DEF OverInv, ReportIsRight, Last, parserVars
  <2>4. Titles' = Titles
    BY <1>1 DEF Titles
  <2>5. OnlyCleanStateIsPrinted'
    BY <1>1, <2>1, <2>4, SameInput DEF OverInv, OnlyCleanStateIsPrinted
  <2>6. PrintedListsAreComplete'
    BY <1>1, <2>1, ListsCompleteIs DEF OverInv
  <2> QED BY <1>1, <1>6, <2>1, <2>2, <2>3, <2>5, <2>6 DEF MInv, OverInv
<1> QED BY <1>2, <1>3, <1>4, <1>5, <1>6 DEF MInv

(* Every step of main keeps the invariant.                                 *)
LEMMA MainStepKeeps ==
  ASSUME MInv, [MainNext]_vars
  PROVE  MInv'
<1>1. CASE OpenInput
  BY <1>1, OpenStep
<1>2. CASE Parse
  BY <1>2, ParseMoves
<1>3. CASE ParseOver
  BY <1>3, ParseEnds
<1>4. CASE PreProcess
  BY <1>4, PassMoves
<1>5. CASE PassesOver
  BY <1>5, PassEnds
<1>6. CASE DumpSection
  BY <1>6, DumpStep
<1>7. CASE DumpOver
  BY <1>7, DumpEnds
<1>8. CASE ReportErrors
  BY <1>8, ReportStep
<1>9. CASE UNCHANGED vars
  BY <1>9, MainStands
<1> QED BY <1>1, <1>2, <1>3, <1>4, <1>5, <1>6, <1>7, <1>8, <1>9
        DEF MainNext, MainStep, MainTerminated

(* The invariant of main: of the parser while it reads, of the passes      *)
(* while they run, of the output while it is printed, and then the verdict.*)
THEOREM MainInvariant == MainSpec => []MInv
<1>1. MainInit => MInv
  BY MainBegins
<1>2. MInv /\ [MainNext]_vars => MInv'
  BY MainStepKeeps
<1> QED BY <1>1, <1>2, PTL DEF MainSpec

(* For every input that the parser can be given, rdpgen is killed in a     *)
(* FOR_LST loop exactly when the file leaves one of its lists empty.       *)
THEOREM KilledExactlyByEmptyLists == MainSpec => []KilledOnlyByEmptyLists
<1>1. MInv => KilledOnlyByEmptyLists
  BY PromisesHold
<1> QED BY <1>1, MainInvariant, PTL

(* The number of errors that main prints last is 0 exactly for a grammar   *)
(* file whose rules have distinct names, and the program exits with 1 only *)
(* with nothing printed: after an error that was counted, or for lack of   *)
(* memory in the scanner.                                                  *)
THEOREM TheReportIsRight == MainSpec => []ReportIsRight
<1>1. MInv => ReportIsRight
  BY PromisesHold
<1> QED BY <1>1, MainInvariant, PTL

(* dump_state prints the state of correct grammars only, and the sections  *)
(* that the verbosity asks for, in order.                                  *)
THEOREM OnlyCleanGrammarsAreShown == MainSpec => []OnlyCleanStateIsPrinted
<1>1. MInv => OnlyCleanStateIsPrinted
  BY PromisesHold
<1> QED BY <1>1, MainInvariant, PTL

(* The lists of symbols that are printed are complete: every rule name in  *)
(* the order of its definition, every other symbol once.                   *)
THEOREM ListsAreShownInFull == MainSpec => []PrintedListsAreComplete
<1>1. MInv => PrintedListsAreComplete
  BY PromisesHold
<1> QED BY <1>1, MainInvariant, PTL
=============================================================================
