---------------------------- MODULE MCGraphBuilder ----------------------------
(* Two nodes with two slots each, which three links can overrun, and names *)
(* of which one begins another and one is longer than its field.           *)
EXTENDS GraphBuilder, TLC

CONSTANTS n1, n2, l1, l2, l3, eth0, eth1, r, d1, a1

MCNodeName == {<<r>>, <<r, d1, d1>>}

Symmetry == Permutations(Node) \cup Permutations(Link) \cup Permutations(Name)
=============================================================================
