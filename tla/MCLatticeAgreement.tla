------------------------- MODULE MCLatticeAgreement -------------------------
(***************************************************************************)
(* Finite instances of LatticeAgreement for TLC.  Except for the gossip of *)
(* learners, all the protocol needs of a value is which increments it      *)
(* contains: the lattice is that of the sets of increments, one increment  *)
(* per writing node, named after the node.                                 *)
(***************************************************************************)
EXTENDS LatticeAgreement, TLC

CONSTANTS n1, n2, n3, Writers

SetValue == SUBSET Writers
SetBottom == {}
SetJoin(v, w) == v \cup w
SetIsIn(v, w) == v \subseteq w
SetStrictlyIsIn(v, w) == v \subseteq w /\ v # w
SetEquals(v, w) == v = w

\* Every writer proposes its increment, in one round or in several.
Increments == [n \in Node |-> IF n \in Writers THEN {{n}} ELSE {}]
OneRound == [n \in Node |-> 1]
TwoRounds == [n \in Node |-> 2]

TwoRoundsOfN1 == [OneRound EXCEPT ![n1] = 2]

Symmetry == Permutations(Writers) \cup Permutations(Node \ Writers)
=============================================================================
