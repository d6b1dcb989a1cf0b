------------------------------ MODULE ListSpec ------------------------------
(***************************************************************************)
(* What list.h promises: a sequence of items that can grow and shrink at   *)
(* any place, and an iteration over it.  Adding or deleting an item ends   *)
(* the iteration, which has to be reset before it goes on (list.c:413).    *)
(***************************************************************************)
EXTENDS Integers, SequencesExt

CONSTANTS
  Elems,  \* the items that can be in the list
  Null    \* no item

VARIABLES
  items,  \* the list
  at,     \* the item that the iteration has reached
  op      \* the last operation, with its arguments

IndexOf(e) == CHOOSE i \in DOMAIN items : items[i] = e
Free == Elems \ ToSet(items)

Insert(e, i) == items' = InsertAt(items, i, e) /\ at' = Null
Delete(e) == items' = RemoveAt(items, IndexOf(e)) /\ at' = Null

Init == items = <<>> /\ at = Null /\ op = <<"create">>

Append_ ==
  \E e \in Free : Insert(e, Len(items) + 1) /\ op' = <<"append", e>>

Prepend ==
  \E e \in Free : Insert(e, 1) /\ op' = <<"prepend", e>>

InsertAfter ==
  \E e \in Free, w \in ToSet(items) :
    Insert(e, IndexOf(w) + 1) /\ op' = <<"insert after", w, e>>

InsertBefore ==
  \E e \in Free, w \in ToSet(items) :
    Insert(e, IndexOf(w)) /\ op' = <<"insert before", w, e>>

Remove_ == \E w \in ToSet(items) : Delete(w) /\ op' = <<"remove", w>>

Pop ==
  /\ items # <<>>
  /\ Delete(items[1])
  /\ op' = <<"pop">>

Reset ==
  /\ at' = IF items = <<>> THEN Null ELSE items[1]
  /\ op' = <<"reset">>
  /\ UNCHANGED items

Iterate ==
  /\ at # Null
  /\ at' = IF at = Last(items) THEN Null ELSE items[IndexOf(at) + 1]
  /\ op' = <<"iterate">>
  /\ UNCHANGED items

(* The iteration is over, or it was never begun.                           *)
IterateAtEnd == at = Null /\ op' = <<"iterate">> /\ UNCHANGED <<items, at>>

Peek == op' = <<"peek">> /\ UNCHANGED <<items, at>>

(* An index that no item has: the caller's mistake ends the process.       *)
Indexes == -Len(items) .. Len(items) - 1

Killed ==
  \E i \in -(Len(items) + 1) .. Len(items) :
    /\ i \notin Indexes
    /\ at' = Null
    /\ op' = <<"killed", i>>
    /\ UNCHANGED items

Destroy ==
  items' = <<>> /\ at' = Null /\ op' = <<"destroyed">>

Next ==
  \/ Append_ \/ Prepend \/ InsertAfter \/ InsertBefore
  \/ Remove_ \/ Pop \/ Peek \/ Reset \/ Iterate \/ IterateAtEnd
  \/ Destroy \/ Killed

Spec == Init /\ [][Next]_<<items, at, op>>
=============================================================================
