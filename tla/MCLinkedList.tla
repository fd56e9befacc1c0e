----------------------------- MODULE MCLinkedList -----------------------------
(* Five entries, two pairs of which compare equal.                         *)
EXTENDS LinkedList, TLC

CONSTANTS c1, c2, c3, c4, c5

MCPriority == c1 :> 1 @@ c2 :> 1 @@ c3 :> 2 @@ c4 :> 2 @@ c5 :> 3
=============================================================================
