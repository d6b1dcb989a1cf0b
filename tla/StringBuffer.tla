---------------------------- MODULE StringBuffer ----------------------------
(***************************************************************************)
(* The string objects of strs.c over the allocator of memory.c, and the    *)
(* file names that utils.c makes of them.  A string is a buffer of bytes   *)
(* with a capacity and a length.  A write goes where the code sends it,    *)
(* also beyond the end of the buffer.  create_str_fmt and cat_str_fmt      *)
(* print into a C string first, which is then one of Literals.             *)
(***************************************************************************)
EXTENDS Integers, Sequences, FiniteSetsExt

CONSTANTS
  Handles,       \* the string objects
  Literals,      \* the C strings that callers pass
  Extensions,    \* what header_name and source_name append
  Chars,         \* the bytes other than NUL
  Spaces,        \* those that isspace accepts
  Upper, Lower,  \* toupper and tolower
  NUL,           \* the byte 0
  Junk,          \* a byte that was allocated and never written
  InitialCap,    \* the capacity of a new string, 0x01 << 3
  MaxDoublings,  \* bound: how often a capacity is doubled
  MaxBytes,      \* bound: the memory for buffers, after which calls fail
  HandleLens     \* strlen of a string object, which begins with a pointer

Capacities == {InitialCap * 2 ^ k : k \in 0 .. MaxDoublings}
Largest == InitialCap * 2 ^ MaxDoublings

(***************************************************************************)
(* The capacities are named by what doubling them gives, for the proofs.   *)
(* On the machines of the build a pointer has at least two zero bytes at   *)
(* its end, and InitialCap is the size of a pointer.                       *)
(***************************************************************************)
ASSUME StringAssumption ==
  /\ InitialCap \in Nat \ {0, 1} /\ MaxDoublings \in Nat /\ MaxBytes \in Nat
  /\ Capacities \subseteq Nat /\ {InitialCap, Largest} \subseteq Capacities
  /\ \A c \in Capacities : InitialCap <= c /\ c <= Largest
  /\ \A c \in Capacities : c < Largest => 2 * c \in Capacities
  /\ HandleLens \subseteq 0 .. InitialCap - 2
  /\ Literals \subseteq Seq(Chars) /\ Extensions \subseteq Seq(Chars)
  /\ Upper \in [Chars -> Chars] /\ Lower \in [Chars -> Chars]
  /\ NUL \notin Chars \cup Spaces /\ Junk \notin Chars \cup {NUL}

VARIABLES
  strs,     \* the strings that exist
  ret,      \* what the last operation returned, 0 if nothing
  spoiled,  \* history: strings that were stripped or given a NUL since cleared
  alive     \* FALSE once the process has exited

vars == <<strs, ret, spoiled, alive>>

Least(S) == CHOOSE x \in S : \A y \in S : x <= y

-----------------------------------------------------------------------------
(* memory.c: mem_alloc clears the block, mem_realloc does not.             *)
Alloc(c) == [i \in 0 .. c - 1 |-> NUL]
Realloc(b, c) == [i \in 0 .. c - 1 |-> IF i \in DOMAIN b THEN b[i] ELSE Junk]

(* memcpy of bytes to position at.                                         *)
Store(b, at, bytes) ==
  LET to == at .. at + Len(bytes) - 1
  IN  [i \in DOMAIN b \cup to |-> IF i \in to THEN bytes[i - at + 1] ELSE b[i]]

(* strlen, and the text that C functions see.                              *)
Strlen(b) == Least({i \in DOMAIN b : b[i] = NUL})
CText(b) == [i \in 1 .. Strlen(b) |-> b[i - 1]]

-----------------------------------------------------------------------------
(* The capacity is doubled until it is at least need.                      *)
Fits(need) == need <= Largest
Resized(s, c) == [s EXCEPT !.cap = c, !.buf = Realloc(@, c)]
Grown(s, need) ==
  IF need <= s.cap THEN s
  ELSE Resized(s, Least({c \in Capacities : s.cap <= c /\ need <= c}))

WrittenUnterminated(s, text) ==
  [s EXCEPT !.buf = Store(@, s.len, text), !.len = @ + Len(text)]
Written(s, text) ==
  [s EXCEPT !.buf = Store(@, s.len, text \o <<NUL>>), !.len = @ + Len(text)]

(* cat_string makes room for the text and its NUL, cat_str_str for one     *)
(* byte more.                                                              *)
NeedInside(s, text) == s.len + Len(text) + 1
NeedWithoutNul(s, text) == s.len + Len(text)
Need(s, text) == s.len + Len(text) + 2

CatString(s, text) == Written(Grown(s, NeedInside(s, text)), text)
Cat(s, text) == Written(Grown(s, Need(s, text)), text)

NewString == [buf |-> Alloc(InitialCap), len |-> 0, cap |-> InitialCap]
CreateFrom(text) == IF text = <<>> THEN NewString ELSE CatString(NewString, text)

(* cat_str_char doubles the capacity once.                                 *)
IsFullAtCap(s) == s.len >= s.cap
IsFull(s) == s.len + 1 >= s.cap
CatChar(s, c) ==
  Written(IF IsFull(s) THEN Resized(s, 2 * s.cap) ELSE s, <<c>>)

(* clear_str keeps the buffer.                                             *)
ClearedTextOnly(s) == [s EXCEPT !.buf = Store(@, 0, <<NUL>>)]
Cleared(s) == [s EXCEPT !.buf = Store(@, 0, <<NUL>>), !.len = 0]

(***************************************************************************)
(* strip_str: the text is moved over its leading spaces, the trailing ones *)
(* become NUL.  The byte at 0 is never overwritten; on an empty text the   *)
(* loop reads the byte before the buffer, to no effect.  The new length is *)
(* strlen of the object instead of the buffer.                             *)
(***************************************************************************)
WithoutLead(b) ==
  LET lead == Least({i \in 0 .. Strlen(b) : b[i] \notin Spaces})
      moved == [i \in 1 .. Strlen(b) - lead + 1 |-> b[lead + i - 1]]
  IN  IF lead = 0 THEN b ELSE Store(b, 0, moved)

WithoutTrail(b) ==
  [i \in DOMAIN b |->
     IF i > 0 /\ i < Strlen(b) /\ \A j \in i .. Strlen(b) - 1 : b[j] \in Spaces
     THEN NUL ELSE b[i]]

StrippedInFront(s, n) == [s EXCEPT !.buf = WithoutLead(@), !.len = n]
Stripped(s, n) == [s EXCEPT !.buf = WithoutTrail(WithoutLead(@)), !.len = n]

(* upcase_str and downcase_str stop at the first NUL.                      *)
Mapped(s, f) ==
  [s EXCEPT !.buf = [i \in DOMAIN @ |-> IF i < Strlen(@) THEN f[@[i]] ELSE @[i]]]

(* comp_str: strncmp stops at the first byte that differs.                 *)
SameTo(b, text) == \A i \in DOMAIN text : b[i - 1] = text[i]

-----------------------------------------------------------------------------
Init == strs = <<>> /\ ret = 0 /\ spoiled = {} /\ alive = TRUE

Live == DOMAIN strs
Free == Handles \ Live

(* The string h is now s, where there is memory for it.                    *)
Bytes(S) == MapThenSumSet(LAMBDA g : strs[g].cap, S)

Set(h, s) ==
  /\ Bytes(Live \ {h}) + s.cap <= MaxBytes
  /\ strs' = [g \in Live \cup {h} |-> IF g = h THEN s ELSE strs[g]]

Create(h) ==
  /\ alive /\ h \in Free
  /\ \E t \in Literals : Fits(NeedInside(NewString, t)) /\ Set(h, CreateFrom(t))
  /\ ret' = 0
  /\ UNCHANGED <<spoiled, alive>>

(* copy_str goes through the C string: it ends at the first NUL.           *)
CopyOf(s) == CreateFrom(CText(s.buf))

Copy(g, h) ==
  /\ alive /\ g \in Live /\ h \in Free
  /\ Set(h, CopyOf(strs[g]))
  /\ ret' = 0
  /\ UNCHANGED <<spoiled, alive>>

(* header_name and source_name: fatal when the copy is empty.              *)
FileName(g, h) ==
  /\ alive /\ g \in Live /\ h \in Free
  /\ CopyOf(strs[g]).len > 0
  /\ \E t \in Extensions :
       /\ Fits(Need(CopyOf(strs[g]), t))
       /\ Set(h, Cat(CopyOf(strs[g]), t))
  /\ ret' = strs'[h].len
  /\ UNCHANGED <<spoiled, alive>>

(* The process exits, and its strings are gone.                            *)
Exit == alive' = FALSE /\ strs' = <<>> /\ ret' = 0 /\ spoiled' = {}

NoFileName(g) == alive /\ g \in Live /\ CopyOf(strs[g]).len = 0 /\ Exit

(* mem_alloc or mem_realloc fails, in any operation.                       *)
OutOfMemory == alive /\ Exit

Destroy(h) ==
  /\ alive /\ h \in Live
  /\ strs' = [g \in Live \ {h} |-> strs[g]]
  /\ spoiled' = spoiled \ {h}
  /\ ret' = 0
  /\ UNCHANGED alive

CatOneChar(h) ==
  /\ alive /\ h \in Live
  /\ Fits(strs[h].len + 2)
  /\ \E c \in Chars \cup {NUL} :
       /\ Set(h, CatChar(strs[h], c))
       /\ spoiled' = IF c = NUL THEN spoiled \cup {h} ELSE spoiled
  /\ ret' = strs'[h].len
  /\ UNCHANGED alive

CatText(h) ==
  /\ alive /\ h \in Live
  /\ \E t \in Literals : Fits(Need(strs[h], t)) /\ Set(h, Cat(strs[h], t))
  /\ ret' = strs'[h].len
  /\ UNCHANGED <<spoiled, alive>>

Clear(h) ==
  /\ alive /\ h \in Live
  /\ Set(h, Cleared(strs[h]))
  /\ spoiled' = spoiled \ {h}
  /\ ret' = 0
  /\ UNCHANGED alive

Strip(h) ==
  /\ alive /\ h \in Live
  /\ \E n \in HandleLens : Set(h, Stripped(strs[h], n)) /\ ret' = n
  /\ spoiled' = spoiled \cup {h}
  /\ UNCHANGED alive

ChangeCase(h) ==
  /\ alive /\ h \in Live
  /\ \E f \in {Upper, Lower} : Set(h, Mapped(strs[h], f))
  /\ ret' = 0
  /\ UNCHANGED <<spoiled, alive>>

Compare(h) ==
  /\ alive /\ h \in Live
  /\ \E t \in Literals : ret' = IF SameTo(strs[h].buf, t) THEN 0 ELSE 1
  /\ UNCHANGED <<strs, spoiled, alive>>

Exited == ~alive /\ UNCHANGED vars

Next ==
  \/ \E h \in Handles :
       \/ Create(h) \/ Destroy(h) \/ CatOneChar(h) \/ CatText(h) \/ Clear(h)
       \/ Strip(h) \/ ChangeCase(h) \/ Compare(h) \/ NoFileName(h)
       \/ \E g \in Handles : Copy(g, h) \/ FileName(g, h)
  \/ OutOfMemory \/ Exited

Spec == Init /\ [][Next]_vars
=============================================================================
