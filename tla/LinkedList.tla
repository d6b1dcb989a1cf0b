----------------------------- MODULE LinkedList -----------------------------
(***************************************************************************)
(* The doubly linked list of list.c, pointer by pointer.  An element is    *)
(* its address: Elems are the addresses that the allocator may hand out,   *)
(* and an address can be handed out again once it was freed.               *)
(*                                                                         *)
(* The caller keeps to the rules of the comments in list.c: it passes      *)
(* elements that are in the list, and it does not add or delete an element *)
(* between reset_lst and the last iterate_lst that belongs to it.          *)
(***************************************************************************)
EXTENDS Integers, FiniteSets

CONSTANTS
  Elems,    \* addresses of elements
  Null,     \* NULL
  Wild,     \* ELEM_TO_VOID(NULL), an address just above NULL
  MaxPops   \* bound: how often the stack is popped

ASSUME PointerAssumption ==
  /\ Null \notin Elems
  /\ Wild \notin Elems \cup {Null}
  /\ MaxPops \in Nat

VARIABLES
  first, last, crnt, len,  \* the fields of struct _list_
  next, prev,              \* the fields of the elements
  live,                    \* the elements that are allocated
  ret,                     \* the pointer that the last operation returned
  iterating,               \* the caller is iterating
  pops,                    \* how often the stack was popped, for the bound
  op                       \* the last operation, with its arguments

links == <<first, last, crnt, len, next, prev, live>>
vars == <<links, ret, iterating, pops, op>>

Pointer == Elems \cup {Null}

(* The process was not killed and the list not destroyed.                  *)
Alive == op[1] \notin {"killed", "destroyed"}

Init ==
  /\ first = Null /\ last = Null /\ crnt = Null /\ len = 0
  /\ next = [e \in Elems |-> Null] /\ prev = [e \in Elems |-> Null]
  /\ live = {}
  /\ ret = Null
  /\ iterating = FALSE
  /\ pops = 0
  /\ op = <<"create">>

-----------------------------------------------------------------------------
(* The bodies of the operations on the links.  create_elem hands out a     *)
(* cleared element.                                                        *)

Free == Elems \ live
CreatedUncounted(e) == live' = live \cup {e} /\ UNCHANGED len
Created(e) == live' = live \cup {e} /\ len' = len + 1

AppendLinks(e) ==
  /\ Created(e)
  /\ last' = e
  /\ IF last # Null
     THEN /\ prev' = [prev EXCEPT ![e] = last]
          /\ next' = [next EXCEPT ![e] = Null, ![last] = e]
          /\ UNCHANGED <<first, crnt>>
     ELSE /\ prev' = [prev EXCEPT ![e] = Null]
          /\ next' = [next EXCEPT ![e] = Null]
          /\ first' = e /\ crnt' = e

PrependLinks(e) ==
  /\ Created(e)
  /\ first' = e
  /\ IF first # Null
     THEN /\ next' = [next EXCEPT ![e] = first]
          /\ prev' = [prev EXCEPT ![e] = Null, ![first] = e]
          /\ UNCHANGED <<last, crnt>>
     ELSE /\ prev' = [prev EXCEPT ![e] = Null]
          /\ next' = [next EXCEPT ![e] = Null]
          /\ last' = e /\ crnt' = e

(* Between two neighbours.                                                 *)
SplicedNextOnly(e, before, after) == [prev EXCEPT ![e] = before]
SplicedPrev(e, before, after) == [prev EXCEPT ![e] = before, ![after] = e]

Splice(e, before, after) ==
  /\ Created(e)
  /\ next' = [next EXCEPT ![e] = after, ![before] = e]
  /\ prev' = SplicedPrev(e, before, after)
  /\ UNCHANGED <<first, last, crnt>>

InsertAtTheEnd(w, e) == AppendLinks(e)
InsertAfterLinks(w, e) ==
  IF next[w] = Null THEN AppendLinks(e)
                    ELSE Splice(e, prev[next[w]], next[w])

InsertBeforeLinks(w, e) ==
  IF prev[w] = Null THEN PrependLinks(e)
                    ELSE Splice(e, prev[w], next[prev[w]])

(* free_elem                                                               *)
FreedNever(e) == UNCHANGED live
Freed(e) == live' = live \ {e}

NotBypassed(w) == next
BypassedNext(w) == [next EXCEPT ![prev[w]] = next[w]]

RemoveLinks(w) ==
  /\ Freed(w)
  /\ len' = len - 1
  /\ \/ /\ prev[w] = Null /\ next[w] # Null    \* the first of several
        /\ first' = next[w]
        /\ prev' = [prev EXCEPT ![next[w]] = Null]
        /\ UNCHANGED <<last, crnt, next>>
     \/ /\ next[w] = Null /\ prev[w] # Null    \* the last of several
        /\ last' = prev[w]
        /\ next' = [next EXCEPT ![prev[w]] = Null]
        /\ UNCHANGED <<first, crnt, prev>>
     \/ /\ next[w] = Null /\ prev[w] = Null    \* the only one
        /\ first' = Null /\ last' = Null /\ crnt' = Null
        /\ UNCHANGED <<next, prev>>
     \/ /\ next[w] # Null /\ prev[w] # Null    \* in the middle
        /\ prev' = [prev EXCEPT ![next[w]] = prev[w]]
        /\ next' = BypassedNext(w)
        /\ UNCHANGED <<first, last, crnt>>

(* pop_lst does not change len.                                            *)
PopLinks ==
  /\ Freed(first)
  /\ first' = next[first]
  /\ IF next[first] # Null
     THEN /\ prev' = [prev EXCEPT ![next[first]] = Null]
          /\ UNCHANGED <<last, crnt>>
     ELSE last' = Null /\ crnt' = Null /\ UNCHANGED prev
  /\ UNCHANGED <<next, len>>

(* ELEM_TO_VOID                                                            *)
ElemToVoid(p) == IF p = Null THEN Wild ELSE p

(* What iterate_lst moves crnt to.                                         *)
Successor(p) == IF p = Null THEN Null ELSE next[p]

(* get_elem: n links from p, and the element of an index, counted from the *)
(* end when it is negative.  insert_lst_idx and remove_lst_idx are the     *)
(* operations below on GetElem(index).                                     *)
Follow(link, p, n) ==
  LET go[k \in 0 .. n] ==
        IF k = 0 THEN p ELSE IF go[k - 1] = Null THEN Null ELSE link[go[k - 1]]
  IN  go[n]

GetElemBackwardsFromZero(i) ==
  IF i >= 0 THEN Follow(next, first, i) ELSE Follow(prev, last, -i)
GetElem(i) ==
  IF i >= 0 THEN Follow(next, first, i) ELSE Follow(prev, last, -i - 1)

-----------------------------------------------------------------------------
(* The operations.  Those that change the list end the iteration.          *)

Changes(name) == op' = name /\ iterating' = FALSE /\ UNCHANGED ret

AppendLst ==
  \E e \in Free :
    AppendLinks(e) /\ Changes(<<"append", e>>) /\ UNCHANGED pops

PrependLst ==   \* and push_lst
  \E e \in Free :
    PrependLinks(e) /\ Changes(<<"prepend", e>>) /\ UNCHANGED pops

InsertAfter ==
  \E w \in live, e \in Free :
    /\ InsertAfterLinks(w, e)
    /\ Changes(<<"insert after", w, e>>) /\ UNCHANGED pops

InsertBefore ==
  \E w \in live, e \in Free :
    /\ InsertBeforeLinks(w, e)
    /\ Changes(<<"insert before", w, e>>) /\ UNCHANGED pops

RemoveLst ==
  \E w \in live :
    RemoveLinks(w) /\ Changes(<<"remove", w>>) /\ UNCHANGED pops

PopLst ==
  /\ first # Null /\ pops < MaxPops
  /\ PopLinks
  /\ Changes(<<"pop">>) /\ pops' = pops + 1

(***************************************************************************)
(* The caller's mistakes: insert_lst_idx and remove_lst_idx abort on the   *)
(* NULL that get_elem returns for an index that no element has, and        *)
(* pop_lst reads through it where there is no element 0.                   *)
(***************************************************************************)
Killed ==
  \E i \in -(Cardinality(live) + 1) .. Cardinality(live) :
    /\ GetElem(i) = Null
    /\ Changes(<<"killed", i>>)
    /\ UNCHANGED <<links, pops>>

(* destroy_lst frees the elements from first on, and the list.             *)
DestroyLst ==
  /\ live' = live \ {Follow(next, first, n) : n \in 0 .. Cardinality(live)}
  /\ first' = Null /\ last' = Null /\ crnt' = Null /\ len' = 0
  /\ Changes(<<"destroyed">>)
  /\ pops' = 0
  /\ UNCHANGED <<next, prev>>

PeekLst ==
  /\ ret' = ElemToVoid(first)
  /\ op' = <<"peek">>
  /\ UNCHANGED <<links, iterating, pops>>

(***************************************************************************)
(* The loop of list.c:399-417 begins.  Its test is on ret, which is never  *)
(* NULL, so its body runs once on an empty list too.                       *)
(***************************************************************************)
ResetLst ==
  /\ crnt' = first
  /\ ret' = ElemToVoid(first)
  /\ iterating' = TRUE
  /\ op' = <<"reset">>
  /\ UNCHANGED <<first, last, len, next, prev, live, pops>>

IterateLst ==
  /\ iterating
  /\ crnt' = Successor(crnt)
  /\ ret' = crnt'
  /\ op' = <<"iterate">>
  /\ UNCHANGED <<first, last, len, next, prev, live, iterating, pops>>

Next ==
  \/ Alive /\ \/ AppendLst \/ PrependLst \/ InsertAfter \/ InsertBefore
              \/ RemoveLst \/ PopLst \/ DestroyLst \/ Killed
              \/ PeekLst \/ ResetLst \/ IterateLst
  \/ ~Alive /\ UNCHANGED vars

Spec == Init /\ [][Next]_vars
=============================================================================
