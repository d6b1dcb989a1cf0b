---------------------------- MODULE StringProps -----------------------------
(* What a string object guarantees to the C functions that read its text.  *)
EXTENDS StringBuffer

(***************************************************************************)
(* Every write stays inside the buffer: it has exactly the capacity that   *)
(* the object records, which leaves room for the next NUL, although the    *)
(* three functions that append reserve one, two or as many bytes as one    *)
(* doubling gives.                                                         *)
(***************************************************************************)
InsideBuffer(s) ==
  /\ s.cap \in Capacities
  /\ DOMAIN s.buf = 0 .. s.cap - 1
  /\ s.len \in 0 .. s.cap - 1

BuffersNotOverrun == \A h \in Live : InsideBuffer(strs[h])

(***************************************************************************)
(* strlen and everything built on it ends inside the buffer and reads no   *)
(* byte that was never written, even where the length is wrong and the     *)
(* next character is appended at a place that does not follow the text.    *)
(***************************************************************************)
ReadableText(b) ==
  \E i \in DOMAIN b : b[i] = NUL /\ \A j \in 0 .. i : j \in DOMAIN b /\ b[j] # Junk

TextsEnd == \A h \in Live : ReadableText(strs[h].buf)

(***************************************************************************)
(* The length is the length of the text, for every string that was not     *)
(* stripped or given a NUL since it was created or cleared.  A copy of a   *)
(* spoiled string is sound again: what is cut off stays lost.              *)
(***************************************************************************)
Sound(h) == strs[h].len = Strlen(strs[h].buf)

LengthsFitTexts == \A h \in Live \ spoiled : Sound(h)

(***************************************************************************)
(* While all lengths are right, the buffers are the texts of TextSpec and  *)
(* every operation changes them as it should; stripping removes the right  *)
(* characters.  The next append goes wrong where a length was spoiled, and *)
(* a NUL is the one character that may be lost.                            *)
(***************************************************************************)
Texts == [h \in Live |-> CText(strs[h].buf)]

Abstract == INSTANCE TextSpec WITH texts <- Texts

AppendsNul ==
  \E h \in Live \cap DOMAIN strs' :
    /\ strs'[h].len = strs[h].len + 1
    /\ strs'[h].buf[strs[h].len] = NUL

ImplementsTextWhileSound ==
  /\ Abstract!Init
  /\ [][(\A h \in Live : Sound(h)) /\ ~AppendsNul /\ alive'
           => Abstract!Next]_<<Texts, ret>>
=============================================================================
