------------------------------ MODULE MCGossip ------------------------------
(***************************************************************************)
(* LatticeAgreement over the CounterMaps of module CounterMap, with one    *)
(* key.  Here it matters which entries a counter has and not only what     *)
(* they add up to.                                                         *)
(***************************************************************************)
EXTENDS LatticeAgreement, CounterMap, TLC

CONSTANTS n1, n2, n3, k1

\* Counters made by a node that was not restarted have an entry for every
\* node, counters made by a restarted one only entries it or a merge wrote.
Dense == {[k \in {k1} |-> g] : g \in [Node -> {0, 1}]}
Sparse == {[k \in {k1} |-> [n \in S |-> 1]] : S \in (SUBSET Node) \ {{}}}

MapValue == {EmptyMap} \cup Dense \cup Sparse

DenseIncrement(n) == [k \in {k1} |-> [m \in Node |-> IF m = n THEN 1 ELSE 0]]
SparseIncrement(n) == [k \in {k1} |-> [m \in {n} |-> 1]]

\* One increment on n1 and one on n2, no node having been restarted.
FreshWriters == (n1 :> {DenseIncrement(n1)}) @@ (n2 :> {DenseIncrement(n2)}) @@ (n3 :> {})

\* The same, n2 having been restarted from its snapshot.
RestartedWriter == [FreshWriters EXCEPT ![n2] = {SparseIncrement(n2)}]

OneRound == [n \in Node |-> 1]
=============================================================================
