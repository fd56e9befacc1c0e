------------------------------ MODULE LinkedList ------------------------------
(***************************************************************************)
(* The intrusive doubly linked list of linkedlist/linkedlist.c, as         *)
(* pointers.  Every function is one action: its caller is alone in the     *)
(* list (module TableWalk looks at a reader beside a writer).              *)
(*                                                                         *)
(* A list is its base: base->right is the first cell, base->left stays     *)
(* NULL, and the first cell points back at the base.                       *)
(***************************************************************************)
EXTENDS Integers, FiniteSets, SequencesExt

CONSTANTS
  Cell,      \* doublylinkedlist_t objects embedded in entries
  Base,      \* the doublylinkedlist_t a table or graph holds
  NULL,
  Priority   \* what compare_function orders entries by

ASSUME ListAssumption ==
  /\ IsFiniteSet(Cell)
  /\ Base \notin Cell /\ NULL \notin Cell /\ NULL # Base
  /\ Priority \in [Cell -> Int]

VARIABLE node  \* node.left[c] is c->left, node.right[c] is c->right

(* Position k of the list s; the base comes before it, NULL after it.      *)
At(s, k) == IF k = 0 THEN Base ELSE IF k \in 1..Len(s) THEN s[k] ELSE NULL

IsWalk(h, s) == \A k \in 0..Len(s) : h.right[At(s, k)] = At(s, k + 1)

(* The cells ITERATE_DOUBLY_LINKED_LIST_BEGINING visits: from base->right  *)
(* along the right pointers to NULL.                                       *)
Visited(h) == CHOOSE s \in UNION {[1..n -> Cell] : n \in 0..Cardinality(Cell)} : IsWalk(h, s)

Listed == {Visited(node)[k] : k \in 1..Len(Visited(node))}
-----------------------------------------------------------------------------
(* The pointer assignments, as functions of the pointers h.                *)

(* Mutant: the new cell does not point at the rest of the list.            *)
AddNextDropsRest(h, current, new) ==
  [left  |-> [h.left EXCEPT ![new] = current],
   right |-> [h.right EXCEPT ![current] = new]]

AddNext(h, current, new) ==
  LET temp == h.right[current] IN
  IF temp = NULL
  THEN [left  |-> [h.left EXCEPT ![new] = current],
        right |-> [h.right EXCEPT ![current] = new]]
  ELSE [left  |-> [h.left EXCEPT ![new] = current, ![temp] = new],
        right |-> [h.right EXCEPT ![current] = new, ![new] = temp]]

AddBefore(h, current, new) ==
  LET temp == h.left[current] IN
  IF temp = NULL
  THEN [left  |-> [h.left EXCEPT ![new] = NULL, ![current] = new],
        right |-> [h.right EXCEPT ![new] = current]]
  ELSE [left  |-> [h.left EXCEPT ![new] = temp, ![current] = new],
        right |-> [h.right EXCEPT ![temp] = new, ![new] = current]]

(* Mutants of Unlink: the last cell keeps its left pointer; the neighbours *)
(* are pointed back at themselves.                                         *)
UnlinkKeepsLeft(h, current) ==
  LET l == h.left[current]  r == h.right[current] IN
  CASE l = NULL /\ r = NULL -> h
    [] l = NULL /\ r # NULL -> [left  |-> [h.left EXCEPT ![r] = NULL],
                               right |-> [h.right EXCEPT ![current] = NULL]]
    [] l # NULL /\ r = NULL -> [h EXCEPT !.right[l] = NULL]
    [] l # NULL /\ r # NULL -> [left  |-> [h.left EXCEPT ![r] = l, ![current] = NULL],
                               right |-> [h.right EXCEPT ![l] = r, ![current] = NULL]]

UnlinkCrossed(h, current) ==
  LET l == h.left[current]  r == h.right[current] IN
  CASE l = NULL /\ r = NULL -> h
    [] l = NULL /\ r # NULL -> [left  |-> [h.left EXCEPT ![r] = NULL],
                               right |-> [h.right EXCEPT ![current] = NULL]]
    [] l # NULL /\ r = NULL -> [left  |-> [h.left EXCEPT ![current] = NULL],
                               right |-> [h.right EXCEPT ![l] = NULL]]
    [] l # NULL /\ r # NULL -> [left  |-> [h.left EXCEPT ![r] = r, ![current] = NULL],
                               right |-> [h.right EXCEPT ![l] = l, ![current] = NULL]]

Unlink(h, current) ==
  LET l == h.left[current]  r == h.right[current] IN
  CASE l = NULL /\ r = NULL -> h
    [] l = NULL /\ r # NULL -> [left  |-> [h.left EXCEPT ![r] = NULL],
                               right |-> [h.right EXCEPT ![current] = NULL]]
    [] l # NULL /\ r = NULL -> [left  |-> [h.left EXCEPT ![current] = NULL],
                               right |-> [h.right EXCEPT ![l] = NULL]]
    [] l # NULL /\ r # NULL -> [left  |-> [h.left EXCEPT ![r] = l, ![current] = NULL],
                               right |-> [h.right EXCEPT ![l] = r, ![current] = NULL]]

(* The loop of delete reads the next cell before it unlinks the current.   *)
Emptied(h) ==
  LET s == Visited(h)
      after[k \in 0..Len(s)] == IF k = 0 THEN h ELSE Unlink(after[k - 1], s[k])
  IN after[Len(s)]

get_doubly_linked_list_count(h) == Len(Visited(h))

(* compare_function(a, b) == -1; any other result counts as "not before".  *)
Before(a, b) == Priority[a] < Priority[b]

(* Mutant: the one-element case compares the other way round.              *)
PredecessorSwapped(s, new) ==
  LET later == {k \in 1..Len(s) : Before(new, s[k])} IN
  CASE Len(s) = 1 -> IF Before(new, s[1]) THEN 1 ELSE 0
    [] Len(s) # 1 /\ later # {} -> CHOOSE k \in 0..Len(s) : k + 1 \in later /\ \A j \in later : k < j
    [] OTHER -> Len(s)

(* The position in s after which priority_insert puts new.  A list of one  *)
(* element puts an equal newcomer first, a longer list puts it last of its *)
(* equals.                                                                 *)
Predecessor(s, new) ==
  LET later == {k \in 1..Len(s) : Before(new, s[k])} IN
  CASE Len(s) = 1 -> IF Before(s[1], new) THEN 1 ELSE 0
    [] Len(s) # 1 /\ later # {} -> CHOOSE k \in 0..Len(s) : k + 1 \in later /\ \A j \in later : k < j
    [] OTHER -> Len(s)
-----------------------------------------------------------------------------
(* initialize_doubly_linkedlist                                            *)
Init == node = [left  |-> [c \in Cell \cup {Base} |-> NULL],
                right |-> [c \in Cell \cup {Base} |-> NULL]]

doubly_linkedlist_add_next(current, new) == node' = AddNext(node, current, new)

doubly_linkedlist_add_before(current, new) == node' = AddBefore(node, current, new)

remove_doubly_linkedlist(current) == node' = Unlink(node, current)

delete_doubly_linkedlist == node' = Emptied(node)

doubly_linkedlist_add_last(new) ==
  node' = AddNext(node, At(Visited(node), Len(Visited(node))), new)

doubly_linkedlist_priority_insert(new) ==
  LET detached == [left  |-> [node.left EXCEPT ![new] = NULL],
                   right |-> [node.right EXCEPT ![new] = NULL]]
      s == Visited(node)
  IN node' = AddNext(detached, At(s, Predecessor(s, new)), new)

(* Callers insert only cells that are in no list.                          *)
Next ==
  \/ \E new \in Cell \ Listed :
       \/ \E current \in Listed \cup {Base} : doubly_linkedlist_add_next(current, new)
       \/ \E current \in Listed : doubly_linkedlist_add_before(current, new)
       \/ doubly_linkedlist_add_last(new)
       \/ doubly_linkedlist_priority_insert(new)
  \/ \E current \in Listed : remove_doubly_linkedlist(current)
  \/ delete_doubly_linkedlist

Spec == Init /\ [][Next]_node
-----------------------------------------------------------------------------
(* Every pointer stays inside the structure, and nothing comes before the  *)
(* base.                                                                   *)
TypeOK ==
  /\ node \in [left  : [Cell \cup {Base} -> Cell \cup {Base, NULL}],
              right : [Cell \cup {Base} -> Cell \cup {NULL}]]
  /\ node.left[Base] = NULL

(* The list s is what the pointers h say in both directions, and a cell    *)
(* outside of it points nowhere, so that add_next, which does not write    *)
(* the right pointer of a new last cell, may insert it again.              *)
Represents(h, s) ==
  /\ IsInjective(s)
  /\ IsWalk(h, s)
  /\ \A k \in 1..Len(s) : h.left[s[k]] = At(s, k - 1)
  /\ \A c \in Cell : (\A k \in 1..Len(s) : s[k] # c) => h.left[c] = NULL /\ h.right[c] = NULL

(* The right pointers form one list without a cycle, the left pointers the *)
(* same list backwards, removed cells are reset, and the count is that of  *)
(* the cells that have a predecessor.                                      *)
WellLinked ==
  /\ Represents(node, Visited(node))
  /\ get_doubly_linked_list_count(node) = Cardinality({c \in Cell : node.left[c] # NULL})

(* Each function changes the sequence of visited cells in one place only:  *)
(* the pointers implement ListSequence.                                    *)
List == INSTANCE ListSequence WITH Item <- Cell, list <- Visited(node)

ImplementsListSequence == List!Spec

(* What the comments of doubly_linkedlist_priority_insert promise: a list  *)
(* in order of priority stays in order when it inserts, also among equals. *)
Sorted(s) == \A j, k \in 1..Len(s) : j < k => ~Before(s[k], s[j])

PriorityKeepsSorted ==
  [][(\E new \in Cell \ Listed : doubly_linkedlist_priority_insert(new)) /\ Sorted(Visited(node))
       => Sorted(Visited(node'))]_node
=============================================================================
