----------------------------- MODULE ListSequence -----------------------------
(***************************************************************************)
(* What a doubly linked list promises to the tables built on it: a         *)
(* sequence without repetitions.  An operation puts one new item somewhere, *)
(* takes one out, or empties it, and leaves the other items in their order. *)
(* LinkedList implements this specification with pointers.                 *)
(***************************************************************************)
EXTENDS Integers, SequencesExt

CONSTANT Item

VARIABLE list

Init == list = <<>>

Insert(x, k) ==
  /\ \A j \in 1..Len(list) : list[j] # x
  /\ list' = InsertAt(list, k, x)

TakeOut(k) == list' = RemoveAt(list, k)

Clear == list' = <<>>

Next ==
  \/ \E x \in Item, k \in 1..(Len(list) + 1) : Insert(x, k)
  \/ \E k \in 1..Len(list) : TakeOut(k)
  \/ Clear

Spec == Init /\ [][Next]_list
=============================================================================
