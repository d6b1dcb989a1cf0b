------------------------------ MODULE TextSpec ------------------------------
(***************************************************************************)
(* What strs.h promises: string objects that are texts.  An operation on   *)
(* one string changes no other, and those that change the length of a text *)
(* return the new one.                                                     *)
(***************************************************************************)
EXTENDS Naturals, SequencesExt

CONSTANTS
  Handles,       \* the string objects
  Literals,      \* the C strings that callers pass
  Extensions,      \* what header_name and source_name append
  Chars,         \* the characters of texts
  Spaces,        \* those that isspace accepts
  Upper, Lower   \* toupper and tolower

VARIABLES
  texts,  \* the text of every string that exists
  ret     \* what the last operation returned, 0 if nothing

Init == texts = <<>> /\ ret = 0

Give(h, text) ==
  texts' = [g \in DOMAIN texts \cup {h} |-> IF g = h THEN text ELSE texts[g]]

Create(h) == \E t \in Literals : Give(h, t) /\ ret' = 0
Copy(g, h) == Give(h, texts[g]) /\ ret' = 0

(* header_name and source_name; a string without text has no file name.    *)
FileName(g, h) ==
  /\ texts[g] # <<>>
  /\ \E t \in Extensions : Give(h, texts[g] \o t)
  /\ ret' = Len(texts'[h])

Destroy(h) ==
  /\ texts' = [g \in DOMAIN texts \ {h} |-> texts[g]]
  /\ ret' = 0

Extend(h) ==
  /\ \E t \in Literals \cup {<<c>> : c \in Chars} : Give(h, texts[h] \o t)
  /\ ret' = Len(texts'[h])

Clear(h) == Give(h, <<>>) /\ ret' = 0

(* Without its spaces at both ends.                                        *)
Trimmed(t) ==
  LET kept == {i \in DOMAIN t : t[i] \notin Spaces}
  IN  IF kept = {} THEN <<>> ELSE SubSeq(t, Min(kept), Max(kept))

(* The length that strip_str returns is left open.                         *)
Strip(h) == Give(h, Trimmed(texts[h])) /\ ret' \in Nat

Mapped(t, f) == [i \in DOMAIN t |-> f[t[i]]]
ChangeCase(h) == \E f \in {Upper, Lower} : Give(h, Mapped(texts[h], f)) /\ ret' = 0

(* comp_str returns 0 exactly when the string begins with the literal.     *)
Compare(h) ==
  /\ \E t \in Literals : ret' = IF IsPrefix(t, texts[h]) THEN 0 ELSE 1
  /\ UNCHANGED texts

Next ==
  \/ \E h \in Handles \ DOMAIN texts :
       Create(h) \/ \E g \in DOMAIN texts : Copy(g, h) \/ FileName(g, h)
  \/ \E h \in DOMAIN texts :
       Destroy(h) \/ Extend(h) \/ Clear(h) \/ Strip(h) \/ ChangeCase(h) \/ Compare(h)

Spec == Init /\ [][Next]_<<texts, ret>>
=============================================================================
