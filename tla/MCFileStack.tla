---------------------------- MODULE MCFileStack -----------------------------
(***************************************************************************)
(* Three files in all, with one to three characters over two letters and   *)
(* the newline.  A file without text and a file that begins with a newline *)
(* are left to the runs that show what they lead to.                       *)
(***************************************************************************)
EXTENDS FileStackProps

UsualTexts ==
  {t \in BoundedSeq({NL, "x", "y"}, 2) : t # <<>> /\ t[1] # NL}
    \cup {<<"x", NL, "y">>, <<"x", NL, NL>>}

AllTexts == BoundedSeq({NL, "x"}, 2)
=============================================================================
