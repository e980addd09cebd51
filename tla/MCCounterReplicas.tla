------------------------- MODULE MCCounterReplicas --------------------------
(* Finite instances of CounterReplicas for TLC. *)
EXTENDS CounterReplicas, TLC

CONSTANTS n1, n2, n3, k1, k2

Symmetry == Permutations(Node) \cup Permutations(Key)
=============================================================================
