-------------------------- MODULE CounterReplicas ---------------------------
(***************************************************************************)
(* The counter maps the nodes of a cluster keep (Engine.localCounters) and *)
(* what happens to them: a node increments its own slot of a key, a copy   *)
(* of a node's map travels to the others as a gob message, a node merges   *)
(* the copy it receives, and a node is stopped and restarted from its      *)
(* snapshot.  Which copies are agreed on is the business of module         *)
(* LatticeAgreement; here any copy may arrive, at any time, in any order,  *)
(* more than once or never, which is what the CRDT must cope with.         *)
(***************************************************************************)
EXTENDS CounterMap

CONSTANTS
  Node,
  Key,
  Amount,      \* the values a client asks IncrementKey to add
  MaxTotal     \* bound: the largest sum of increments of one key

ASSUME ReplicasAssumption ==
  /\ IsFiniteSet(Node)
  /\ IsFiniteSet(Key)
  /\ Amount \subseteq Nat
  /\ MaxTotal \in Nat

VARIABLES
  counters,    \* counters[n]: the Counters field of node n's map
  nodeIds,     \* nodeIds[n]: the nodeIds field of node n's map
  wire,        \* wire[n]: the last copy of its map that n sent
  total        \* history: total[k] is the sum of all increments of k

vars == <<counters, nodeIds, wire, total>>

-----------------------------------------------------------------------------

\* NewCounterMap on every node: no key yet, the cluster's nodes as nodeIds.
Init ==
  /\ counters = [n \in Node |-> EmptyMap]
  /\ nodeIds = [n \in Node |-> Node]
  /\ wire = [n \in Node |-> EmptyMap]
  /\ total = [k \in Key |-> 0]

\* IncrementKey(k, n, v) on n's own map.
Increment(n, k, v) ==
  /\ total[k] + v <= MaxTotal
  /\ counters' = [counters EXCEPT ![n] =
       CMIncrementKey(counters[n], nodeIds[n], k, n, v)]
  /\ total' = [total EXCEPT ![k] = @ + v]
  /\ UNCHANGED <<nodeIds, wire>>

\* A copy of n's map is encoded.  nodeIds is unexported: gob leaves it out.
Send(n) ==
  /\ wire' = [wire EXCEPT ![n] = counters[n]]
  /\ UNCHANGED <<counters, nodeIds, total>>

\* Mutant: the copy received replaces the map instead of being merged.
MergeOverwrites(n, m) ==
  /\ counters' = [counters EXCEPT ![n] = wire[m]]
  /\ UNCHANGED <<nodeIds, wire, total>>

\* The copy m sent last is decoded at n and merged into n's map.
Merge(n, m) ==
  /\ counters' = [counters EXCEPT ![n] = CMMergeInPlace(counters[n], wire[m])]
  /\ UNCHANGED <<nodeIds, wire, total>>

\* Mutant: only the node itself is known again after a restart.
ReloadKnowsItself(n) ==
  /\ nodeIds' = [nodeIds EXCEPT ![n] = {n}]
  /\ UNCHANGED <<counters, wire, total>>

\* n is stopped, its final snapshot saved as JSON, and n is started again.
\* json leaves the unexported nodeIds out, and Load does not restore it: keys
\* that n creates from now on start with no entry at all.
Reload(n) ==
  /\ nodeIds' = [nodeIds EXCEPT ![n] = {}]
  /\ UNCHANGED <<counters, wire, total>>

Next ==
  \E n \in Node :
    \/ \E k \in Key, v \in Amount : Increment(n, k, v)
    \/ Send(n)
    \/ \E m \in Node : Merge(n, m)
    \/ Reload(n)

Spec == Init /\ [][Next]_vars

-----------------------------------------------------------------------------

\* Every map holds counts below Modulus for nodes of the cluster, and a map's
\* nodeIds is the whole cluster or nothing (NewCounterMap, FileStorage.Load).
TypeOK ==
  LET IsMap(cm) ==
        /\ DOMAIN cm \subseteq Key
        /\ \A k \in DOMAIN cm :
             /\ DOMAIN cm[k] \subseteq Node
             /\ \A n \in DOMAIN cm[k] : cm[k][n] \in 0 .. (Modulus - 1)
  IN  /\ \A n \in Node : IsMap(counters[n]) /\ IsMap(wire[n])
      /\ nodeIds \in [Node -> {Node, {}}]
      /\ total \in [Key -> 0 .. MaxTotal]

\* All the maps in the system: the nodes' own and the copies under way.
Maps == {counters[n] : n \in Node} \cup {wire[n] : n \in Node}

\* Join is the least upper bound of the order IsIn decides, whatever entries
\* happen to be present in the two maps (counter_map.go: Join, IsIn).
JoinIsLeastUpperBound ==
  \A a, b \in Maps :
    /\ CMIsIn(a, CMJoin(a, b))
    /\ CMIsIn(b, CMJoin(a, b))
    /\ \A c \in Maps : CMIsIn(a, c) /\ CMIsIn(b, c) => CMIsIn(CMJoin(a, b), c)

\* Two nodes that merge the same two maps in opposite orders may hold different
\* Go maps, but each is below the other and every key reads the same in both
\* (README: the order in which proposals arrive does not matter).
MergeOrderIsInvisible ==
  \A a, b \in Maps :
    /\ CMIsIn(CMJoin(a, b), CMJoin(b, a))
    /\ \A k \in Key : CMValueForKey(CMJoin(a, b), k) = CMValueForKey(CMJoin(b, a), k)

\* What cm says n contributed to k, zero if it says nothing.
Slot(cm, k, n) == IF k \in DOMAIN cm THEN Count(cm[k], n) ELSE 0

\* No copy of a node's slot, on any node or under way, is ahead of the node
\* itself: increments of one slot are never created by merging.
OwnSlotLeads ==
  \A n \in Node, k \in Key, cm \in Maps : Slot(cm, k, n) <= Slot(counters[n], k, n)

\* Once all nodes have merged all maps, every key reads exactly the sum of the
\* increments clients made, however the copies travelled (engine_test.go: the
\* cluster converges without dropping any increments).
NoIncrementDropped ==
  \A k \in Key :
    CMValueForKey(FoldFunction(CMJoin, CMBottom, counters), k) = total[k]

\* What Equals claims: maps it declares equal read the same at every key
\* (counter_map.go: "same counters with same values").
EqualMapsReadTheSame ==
  \A a, b \in Maps :
    CMEquals(a, b) => \A k \in Key : CMValueForKey(a, k) = CMValueForKey(b, k)
=============================================================================
