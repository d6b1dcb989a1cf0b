---------------------------- MODULE ParserProps -----------------------------
(* What the parser promises, stated against the reference Grammar.         *)
EXTENDS Parser, Grammar

(* The token, the rule under construction and the Pstate are well formed,  *)
(* and a rule is under construction wherever parse_rule is at work.        *)
TypeOK ==
  /\ tok \in Token
  /\ errors \in Nat
  /\ pc \in {"create", "top", "alternatives", "elems", "skip",
             "done", "fatal", "nomemory", "hung"}
  /\ rule \in Rule \cup {NoRule}
  /\ pc \in {"alternatives", "elems"} => rule \in Rule
  /\ elems \in Seq(PatElem)
  /\ rules \in Seq(Rule)
  /\ verbo \in Int
  /\ name \in Strings \cup {NoText}
  /\ prefix \in Strings \cup {NoText}
  /\ code \in Seq(Blocks)
  /\ input \in Seq(Token)

(***************************************************************************)
(* parse_input reports no error exactly for the grammar files: when it     *)
(* returns without errors it has read a whole grammar file, and when it    *)
(* returns with errors no continuation of what it read is one.  Nothing is *)
(* accepted that the rule and directive parsers only half checked, and no  *)
(* lookahead token is lost or reported twice.                              *)
(***************************************************************************)
VerdictIsRight ==
  pc = "done" =>
    IF errors = 0 THEN Grammatical(input) ELSE ~Viable(input)

(***************************************************************************)
(* Between two rules or directives, and at the end, the rule list is the   *)
(* input: written out again it gives back, in order, every token read so   *)
(* far that belongs to a rule; the last token read is still to be parsed.  *)
(***************************************************************************)
TreeMatchesInput ==
  pc \in {"top", "done"} /\ errors = 0 =>
    Unparse(rules) = RuleTokens(Front(input))

(***************************************************************************)
(* The settings are those of the input: the last %name, %prefix and        *)
(* %verbosity win, the %code blocks are kept in order, and the verbosity   *)
(* is the int congruent to the (saturated) number that was given.          *)
(***************************************************************************)
VerboFrom(n) ==
  /\ verbo \in -(IntMax + 1) .. IntMax
  /\ \E v \in {NumeralValue[n], LongMax} :
       v <= LongMax /\ v <= NumeralValue[n] /\ (v - verbo) % (2 * IntMax + 2) = 0

SettingsMatchInput ==
  pc \in {"top", "done"} /\ errors = 0 =>
    /\ name = LastOr(ArgumentsOf(input, "NAME"), NoText)
    /\ prefix = LastOr(ArgumentsOf(input, "PREFIX"), NoText)
    /\ code = ArgumentsOf(input, "CODE")
    /\ LET numbers == ArgumentsOf(input, "VERBOSITY")
       IN  IF numbers = <<>> THEN verbo = 5 ELSE VerboFrom(Last(numbers))

(***************************************************************************)
(* The rules that the later passes work on: without errors, every rule has *)
(* a pattern and every pattern has its code block.                         *)
(***************************************************************************)
PatternWellFormed(p) == p.code \in Blocks
RuleWellFormed(r) ==
  /\ r.patterns # <<>>
  /\ \A i \in DOMAIN r.patterns : PatternWellFormed(r.patterns[i])

RulesWellFormed ==
  errors = 0 => \A i \in DOMAIN rules : RuleWellFormed(rules[i])
=============================================================================
