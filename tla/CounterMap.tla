----------------------------- MODULE CounterMap -----------------------------
(***************************************************************************)
(* The CRDT of internal/crdt: GCounter (a Go map from node to uint64) and  *)
(* CounterMap (a Go map from key to GCounter).                             *)
(*                                                                         *)
(* A Go map is a function whose DOMAIN is the set of keys present.  The    *)
(* domain is part of the value: reading an absent entry of Counts yields   *)
(* 0, while len, Equals and the "exists" tests of CounterMap look at what  *)
(* is present.  Operators named G* are methods of GCounter, CM* methods of *)
(* CounterMap.                                                             *)
(***************************************************************************)
EXTENDS Integers, FiniteSets, Functions

CONSTANT Modulus            \* one more than the largest uint64: 2^64 in the code

ASSUME ModulusAssumption == Modulus \in Nat \ {0}

EmptyMap == [x \in {} |-> x]

-----------------------------------------------------------------------------
(* GCounter *)

\* g.Counts[n]: an absent entry reads as zero.
Count(g, n) == IF n \in DOMAIN g THEN g[n] ELSE 0

NewGCounter(nodeIds) == [n \in nodeIds |-> 0]

\* Counts[n] += value, in unsigned arithmetic modulo Modulus.
GIncrement(g, n, value) ==
  [m \in DOMAIN g \cup {n} |->
     IF m = n THEN (Count(g, n) + value) % Modulus ELSE g[m]]

\* The sum of all counts, in unsigned arithmetic modulo Modulus.
GValue(g) == SumFunction(g) % Modulus

\* Mutants: the other counter's entry wins; the entries are added up.
GMergeLastWins(g, o) ==
  [n \in DOMAIN g \cup DOMAIN o |-> IF n \in DOMAIN o THEN o[n] ELSE g[n]]
GMergeAdds(g, o) ==
  [n \in DOMAIN g \cup DOMAIN o |-> Count(g, n) + Count(o, n)]

\* Entries of o that are not greater than g's are skipped, so a zero entry of
\* o that g lacks stays absent from the result.
GMergeInPlace(g, o) ==
  [n \in DOMAIN g \cup {m \in DOMAIN o : o[m] > Count(g, m)} |->
     IF Count(o, n) > Count(g, n) THEN Count(o, n) ELSE Count(g, n)]

GJoin(g, o) == GMergeInPlace(g, o)

GIsIn(g, o) == \A n \in DOMAIN g : g[n] <= Count(o, n)

\* Mutant: only the entries the receiver has are compared.
GEqualsNoLength(g, o) == \A n \in DOMAIN g : g[n] = Count(o, n)

GEquals(g, o) ==
  /\ Cardinality(DOMAIN g) = Cardinality(DOMAIN o)
  /\ \A n \in DOMAIN g : g[n] = Count(o, n)

-----------------------------------------------------------------------------
(* CounterMap *)

\* Mutant: a key that only the other map has is not taken over.
CMMergeInPlaceKeysLost(cm, o) ==
  [k \in DOMAIN cm |-> IF k \in DOMAIN o THEN GMergeInPlace(cm[k], o[k]) ELSE cm[k]]

CMMergeInPlace(cm, o) ==
  [k \in DOMAIN cm \cup DOMAIN o |->
     IF k \notin DOMAIN cm THEN o[k]
     ELSE IF k \in DOMAIN o THEN GMergeInPlace(cm[k], o[k])
     ELSE cm[k]]

CMJoin(cm, o) == CMMergeInPlace(cm, o)

CMIsIn(cm, o) ==
  /\ Cardinality(DOMAIN cm) <= Cardinality(DOMAIN o)
  /\ \A k \in DOMAIN cm : k \in DOMAIN o /\ GIsIn(cm[k], o[k])

CMEquals(cm, o) ==
  /\ Cardinality(DOMAIN cm) = Cardinality(DOMAIN o)
  /\ \A k \in DOMAIN cm : k \in DOMAIN o /\ GEquals(cm[k], o[k])

CMStrictlyIsIn(cm, o) == CMIsIn(cm, o) /\ ~CMEquals(cm, o)

CMBottom == EmptyMap

\* nodeIds is the unexported field of the receiver: the peers of a map made by
\* NewCounterMap, nothing for a map read back from JSON.
CMIncrementKey(cm, nodeIds, key, n, value) ==
  LET counter == IF key \in DOMAIN cm THEN cm[key] ELSE NewGCounter(nodeIds)
  IN  [k \in DOMAIN cm \cup {key} |->
         IF k = key THEN GIncrement(counter, n, value) ELSE cm[k]]

CMValueForKey(cm, key) == IF key \in DOMAIN cm THEN GValue(cm[key]) ELSE 0
=============================================================================
