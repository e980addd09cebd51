------------------------------ MODULE MCEngine ------------------------------
(***************************************************************************)
(* Finite instances of Engine for TLC.  A value is the set of increments   *)
(* it contains, each named by the operation that made it: the counters a   *)
(* node makes grow by one at a time, so a slot of a G-counter tells which  *)
(* of its increments are in.                                               *)
(***************************************************************************)
EXTENDS Engine, TLC

CONSTANTS n1, n2, n3, i1, i2, i3, r2

OnNode == (i1 :> n1) @@ (i2 :> n2) @@ (i3 :> n3) @@ (r2 :> n2)
OpNodes == [op \in Op |-> OnNode[op]]
OpKinds == [op \in Op |-> IF op = r2 THEN "read" ELSE "increment"]

SetValue == SUBSET (Op \cap {i1, i2, i3})
SetBottom == {}
SetJoin(v, w) == v \cup w
SetIsIn(v, w) == v \subseteq w
SetStrictlyIsIn(v, w) == v \subseteq w /\ v # w
SetEquals(v, w) == v = w
SetIncrement(v, op) == v \cup ({op} \ {r2})

\* The engine decides what is proposed.
NoProposals == [n \in Node |-> {}]

\* As many rounds as a node can start: one per operation, two per Start.
Rounds ==
  [n \in Node |-> Cardinality({op \in Op : OpNodes[op] = n})
                    + 2 * Cardinality(Starting \cap {n})]

\* Increments are named in values.
ASSUME NamedIncrements == IncrementsToldApart
=============================================================================
