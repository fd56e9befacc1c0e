------------------------------ MODULE MCTableWalk ------------------------------
(* Up to three entries in the table, one more being added.  Blocks, keys   *)
(* and values are interchangeable.                                         *)
EXTENDS TableWalk, TLC

CONSTANTS c1, c2, c3, c4, k1, k2, k3, v1, v2

Symmetry == Permutations(Cell) \cup Permutations(Key) \cup Permutations(Value)
=============================================================================
