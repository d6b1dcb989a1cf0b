------------------------------- MODULE Tokens -------------------------------
(***************************************************************************)
(* The tokens that the scanner hands to the parser (scanner.h), with the   *)
(* texts reduced to the distinctions that the parser and its properties    *)
(* make: a symbol is a member of Symbols, a quoted string of Strings, and  *)
(* so on.  A token that carries no useful text has str = NoText.           *)
(***************************************************************************)
EXTENDS RuleTree

CONSTANTS
  Strings,      \* texts of STRG tokens
  Numerals,     \* texts of NUMBER tokens
  UnknownName,  \* text of a directive that is not one of the four known ones
  NoText        \* the empty text, as create_str(NULL) makes it

ASSUME TextAssumption == UnknownName # NoText

(***************************************************************************)
(* The two ERROR tokens differ in what the scanner does next.  An unknown  *)
(* directive has been consumed; a character that starts no token has not,  *)
(* so every later call of consume_token reports it again.                  *)
(***************************************************************************)
BadDirective == [type |-> "ERROR", str |-> UnknownName]
BadChar      == [type |-> "ERROR", str |-> NoText]

EndToken == [type |-> "END_OF_INPUT", str |-> NoText]
Colon    == [type |-> "COLON", str |-> NoText]

DirectiveTypes == {"VERBOSITY", "NAME", "PREFIX", "CODE"}

Token ==
  [type : {"SYMBOL"}, str : Symbols]
    \cup [type : {"STRG"}, str : Strings]
    \cup [type : {"NUMBER"}, str : Numerals]
    \cup [type : {"BLOCK"}, str : Blocks]
    \cup [type : DirectiveTypes, str : {NoText}]
    \cup {Colon, BadDirective, BadChar, EndToken}

(***************************************************************************)
(* Tokens that consume_token returns over and over: there is no input left *)
(* to consume, or the offending character is never consumed.               *)
(***************************************************************************)
Sticky == {BadChar, EndToken}

(* The tokens that may come after t.                                       *)
Following(t) == IF t \in Sticky THEN {t} ELSE Token

(* syntax() counts one error; what: the condition that it reports.         *)
Report(what) == IF what THEN 1 ELSE 0

(* The errors that the scanner itself reports while it delivers t.         *)
ScanErrors(t) == Report(t.type = "ERROR")
=============================================================================
