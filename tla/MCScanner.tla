----------------------------- MODULE MCScanner ------------------------------
(***************************************************************************)
(* All texts of up to three characters over one character of each class    *)
(* that the scanner tells apart, and of up to five over those that nest,   *)
(* close or run on.  "%n" is the one known directive.                      *)
(***************************************************************************)
EXTENDS ScannerProps, SequencesExt

MCKeyword == <<"%", "n">> :> "NAME"

AllChars ==
  {"n", "1", " ", NL, "#", ":", "%", "\"", "{", "}", "!", "high", FF, NUL}

MCTexts ==
  BoundedSeq(AllChars, 3)
    \cup BoundedSeq({"n", "\"", "#", NL, "high"}, 5)
    \cup BoundedSeq({"{", "}", "\"", NUL}, 5)
    \cup BoundedSeq({"n", "1", "%", "!"}, 5)
=============================================================================
