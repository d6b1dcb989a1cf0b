----------------------------- MODULE MCFrontend -----------------------------
(***************************************************************************)
(* All files of up to three pieces, alone, behind a rule and behind a      *)
(* directive with its argument.  A piece is a character or a directive.    *)
(***************************************************************************)
EXTENDS FrontendProps

MCKeyword == <<"%", "n">> :> "NAME"

Pieces == {<<"n">>, <<":">>, <<"{">>, <<"}">>, <<"\"">>, <<" ">>, <<NL>>,
           <<"%", "n">>, <<"!">>, <<"#">>, <<"high">>}

ARule == <<"n", ":", "{", "}">>
ADirective == <<"%", "n", "\"", "n", "\"">>

MCTexts ==
  LET ends == {FlattenSeq(p) : p \in BoundedSeq(Pieces, 3)}
  IN  {start \o e : start \in {<<>>, ARule, ADirective}, e \in ends}

(* The texts of the tokens: what stands between two marks of a file and    *)
(* has none in it.  A token without its text here would be a deadlock.     *)
Between(open, close) ==
  LET inner == {FlattenSeq(p) : p \in BoundedSeq(Pieces, 2)}
  IN  {s \in inner : ToSet(s) \cap {open, close} = {}}

MCSymbols == BoundedSeq({"n"}, 4) \ {<<>>}
MCStrings == Between("\"", "\"")
MCBlocks == Between("{", "}")
MCNumeralValue == <<>>
=============================================================================
