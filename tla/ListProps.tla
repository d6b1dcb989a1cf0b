----------------------------- MODULE ListProps ------------------------------
(* What the links mean: the list that they hold.                           *)
EXTENDS LinkedList, Sequences

(* The elements met from e on, following next; no more than are live.      *)
WalkFrom(e) ==
  LET walk[n \in 0 .. Cardinality(live)] ==
        [p \in Pointer |->
           IF p = Null \/ n = 0 THEN <<>> ELSE <<p>> \o walk[n - 1][next[p]]]
  IN  walk[Cardinality(live)][e]

Items == WalkFrom(first)

(* Every pointer is NULL or the address of an element.                     *)
TypeOK ==
  /\ first \in Pointer /\ last \in Pointer /\ crnt \in Pointer
  /\ len \in Nat
  /\ next \in [Elems -> Pointer] /\ prev \in [Elems -> Pointer]
  /\ live \subseteq Elems
  /\ ret \in Pointer \cup {Wild}
  /\ iterating \in BOOLEAN
  /\ pops \in Nat

(***************************************************************************)
(* The links agree: next and prev are inverse, they never lead to a freed  *)
(* element, and the ends of the chain are first and last.  insert_lst and  *)
(* remove_lst go through the neighbour of a neighbour and rely on it.      *)
(***************************************************************************)
EndsAgree ==
  /\ first = Null <=> last = Null
  /\ first # Null => first \in live /\ prev[first] = Null
  /\ last # Null => last \in live /\ next[last] = Null

NextLinked ==
  \A e \in live : IF next[e] = Null THEN e = last
                  ELSE next[e] \in live /\ prev[next[e]] = e
PrevLinked ==
  \A e \in live : IF prev[e] = Null THEN e = first
                  ELSE prev[e] \in live /\ next[prev[e]] = e

LinksAgree == EndsAgree /\ NextLinked /\ PrevLinked

Linked == Alive => LinksAgree

(***************************************************************************)
(* The body of a loop by the rules of list.c:399-417 runs on elements that *)
(* are in the list, and on no freed one.  The exception is its first run   *)
(* on an empty list: reset_lst returns an address that is no element's,    *)
(* but not NULL either, and the body is entered with it.                   *)
(***************************************************************************)
CursorIsLive ==
  iterating =>
    /\ crnt \in live \cup {Null}
    /\ op = <<"reset">> => ret # Null /\ (ret \in live <=> first # Null)
    /\ op = <<"iterate">> => ret \in live \cup {Null}

(***************************************************************************)
(* No element is lost: what can be reached from first is everything that   *)
(* is allocated.  A removed element is free, no element is unlinked and    *)
(* leaked, and nothing is left when the list is destroyed.                 *)
(***************************************************************************)
NothingLeaks == Len(Items) = Cardinality(live) /\ {Items[i] : i \in DOMAIN Items} = live

(***************************************************************************)
(* get_elem(i) is the i-th item from the front, and get_elem(-i) the i-th  *)
(* from the back, or NULL: the backward links hold the same list.          *)
(***************************************************************************)
IndexingIsRight ==
  \A i \in -(Len(Items) + 1) .. Len(Items) :
    GetElem(i) = IF i \in 0 .. Len(Items) - 1 THEN Items[i + 1]
                 ELSE IF -i \in 1 .. Len(Items) THEN Items[Len(Items) + i + 1]
                 ELSE Null

(***************************************************************************)
(* get_lst_len is the list length, as list.c:291 has it, only until the    *)
(* first pop_lst: len counts the elements, and the popped ones as well.    *)
(***************************************************************************)
LenCountsAllButPops ==
  Alive => IsFiniteSet(live) /\ len = Cardinality(live) + pops

(***************************************************************************)
(* The linked list is the list of ListSpec: each operation adds or deletes *)
(* the one element it should, where it should, and an iteration visits     *)
(* the items from the first to the last, each once.                        *)
(***************************************************************************)
Abstract ==
  INSTANCE ListSpec WITH items <- Items, at <- IF iterating THEN crnt ELSE Null
ImplementsList == Abstract!Spec
=============================================================================
