------------------------------ MODULE Grammar -------------------------------
(***************************************************************************)
(* The input language of rdpgen, stated without a parser: which sequences  *)
(* of tokens are grammar files, which are beginnings of one, and which     *)
(* rules and settings a file describes.  These are the reference           *)
(* definitions that the parser of module Parser is compared with.          *)
(***************************************************************************)
EXTENDS Tokens, SequencesExt

(* The token that each directive takes as its argument.                    *)
Argument == [VERBOSITY |-> "NUMBER", NAME |-> "STRG",
             PREFIX |-> "STRG", CODE |-> "BLOCK"]

(* s can be cut into consecutive pieces that all satisfy IsPiece.          *)
SplitsInto(s, IsPiece(_)) ==
  LET from[i \in 1 .. Len(s) + 1] ==
        \/ i = Len(s) + 1
        \/ \E j \in i .. Len(s) : IsPiece(SubSeq(s, i, j)) /\ from[j + 1]
  IN  from[1]

IsDirective(s) ==
  /\ Len(s) = 2
  /\ s[1].type \in DirectiveTypes
  /\ s[2].type = Argument[s[1].type]

IsPattern(s) ==
  /\ Len(s) >= 2
  /\ s[1] = Colon
  /\ \A i \in 2 .. Len(s) - 1 : s[i].type = "SYMBOL"
  /\ s[Len(s)].type = "BLOCK"

IsRule(s) ==
  /\ Len(s) >= 3
  /\ s[1].type = "SYMBOL"
  /\ SplitsInto(Tail(s), IsPattern)

IsRuleOrDirective(s) == IsRule(s) \/ IsDirective(s)

(* A grammar file: rules and directives in any order, then the end.        *)
Grammatical(s) ==
  /\ s # <<>>
  /\ Last(s) = EndToken
  /\ SplitsInto(Front(s), IsRuleOrDirective)

(***************************************************************************)
(* s begins some grammar file.  A beginning that lacks something lacks a   *)
(* last token, or the colon and the block of a rule that only has a name.  *)
(***************************************************************************)
Completions == {<<>>} \cup {<<t>> : t \in Token} \cup {<<Colon, t>> : t \in Token}

Viable(s) ==
  \/ Grammatical(s)
  \/ \E c \in Completions : Grammatical(s \o c \o <<EndToken>>)

-----------------------------------------------------------------------------
(* What a file says: its rule tokens, and the arguments of a directive.    *)

InDirective(s, i) ==
  \/ s[i].type \in DirectiveTypes
  \/ i > 1 /\ s[i - 1].type \in DirectiveTypes

RuleTokens(s) ==
  FlattenSeq([i \in DOMAIN s |-> IF InDirective(s, i) THEN <<>> ELSE <<s[i]>>])

ArgumentsOf(s, type) ==
  FlattenSeq([i \in DOMAIN s |-> IF i > 1 /\ s[i - 1].type = type
                                 THEN <<s[i].str>> ELSE <<>>])

LastOr(s, default) == IF s = <<>> THEN default ELSE Last(s)

(* The tokens that a list of parsed rules stands for.                      *)
PatternTokens(p) ==
  <<Colon>>
    \o [e \in DOMAIN p.elems |-> [type |-> "SYMBOL", str |-> p.elems[e].str]]
    \o <<[type |-> "BLOCK", str |-> p.code]>>

RuleAsTokens(r) ==
  <<[type |-> "SYMBOL", str |-> r.name]>>
    \o FlattenSeq([p \in DOMAIN r.patterns |-> PatternTokens(r.patterns[p])])

Unparse(rs) == FlattenSeq([r \in DOMAIN rs |-> RuleAsTokens(rs[r])])
=============================================================================
