--------------------------- MODULE FileStackProps ---------------------------
(* The promises of the file stack to the scanner.                          *)
EXTENDS FileStack, SequencesExt

Unread(f) == SubSeq(f.text, f.pos, Len(f.text))

Remaining == FlattenSeq([i \in DOMAIN stack |-> Unread(stack[i])])

(***************************************************************************)
(* The stack of files is one stream of characters: opening a file, reading *)
(* its last character and falling back into the file below never lose,     *)
(* repeat or reorder a character, nor report an end that is not there.     *)
(***************************************************************************)
Stream == INSTANCE CharStream WITH rest <- Remaining
ImplementsStream == Stream!Spec

(***************************************************************************)
(* A file stays on the stack only while it has a current character: no     *)
(* finished file is left under or on the top of the stack.                 *)
(***************************************************************************)
NoFinishedFile == \A i \in DOMAIN stack : Ch(stack[i]) # EOF

(***************************************************************************)
(* The line of every open file, the suspended ones included, is the line   *)
(* of its current character; a newline already counts as the next line.    *)
(* Columns restart at 1 on the newline, so that no two characters of a     *)
(* file have the same line and column.                                     *)
(***************************************************************************)
Newlines(f, to) == {i \in 1 .. to : f.text[i] = NL}

PositionsAreRight ==
  \A i \in DOMAIN stack : LET f == stack[i] IN
    Ch(f) # EOF =>
      /\ f.line = 1 + Cardinality(Newlines(f, f.pos))
      /\ IF Newlines(f, f.pos) = {} THEN f.col = f.pos
         ELSE \E n \in Newlines(f, f.pos) :
                Newlines(f, f.pos) \subseteq 1 .. n /\ f.col = f.pos - n + 1

(* fileio.c:104 "Return the line number of the current file."  On every    *)
(* character but a newline it is one more than the newlines before it.     *)
LineNumberOfCurrentFile ==
  stack # <<>> /\ GetChar(stack) \notin {NL, EOF} =>
    LineNo = 1 + Cardinality(Newlines(stack[1], stack[1].pos))
=============================================================================
