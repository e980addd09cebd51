----------------------- MODULE CounterReplicasProofs ------------------------
(***************************************************************************)
(* CounterMap is a lattice, for every set of keys and of nodes: the facts  *)
(* that module LatticeAgreement assumes of its parameters.  Then the       *)
(* counter maps that are incremented, copied, merged and reloaded, for any *)
(* number of nodes and keys.                                               *)
(***************************************************************************)
EXTENDS CounterReplicas, FiniteSetTheorems, TLAPS

\* The GCounters over a set of nodes: any subset of them may be present.
GCounters(N) == UNION {[S -> Nat] : S \in SUBSET N}

\* The CounterMaps over a set of keys and a set of nodes.
CounterMaps(K, N) == UNION {[S -> GCounters(N)] : S \in SUBSET K}

-----------------------------------------------------------------------------
(* GCounter *)

LEMMA GCounterType ==
  ASSUME NEW N, NEW g
  PROVE  g \in GCounters(N)
           <=> /\ DOMAIN g \subseteq N
               /\ g \in [DOMAIN g -> Nat]
  BY DEF GCounters

LEMMA CountType ==
  ASSUME NEW N, NEW g \in GCounters(N), NEW n
  PROVE  Count(g, n) \in Nat
  BY DEF GCounters, Count

\* IsIn, which looks only at the receiver's entries, compares all nodes.
LEMMA GIsInPointwise ==
  ASSUME NEW N, NEW g \in GCounters(N), NEW h \in GCounters(N)
  PROVE  GIsIn(g, h) <=> \A n : Count(g, n) <= Count(h, n)
  BY DEF GCounters, GIsIn, Count

\* The merge is the pointwise maximum.
LEMMA GMergeCount ==
  ASSUME NEW N, NEW g \in GCounters(N), NEW h \in GCounters(N)
  PROVE  /\ GMergeInPlace(g, h) \in GCounters(N)
         /\ DOMAIN GMergeInPlace(g, h)
              = DOMAIN g \cup {m \in DOMAIN h : h[m] > Count(g, m)}
         /\ \A n : Count(GMergeInPlace(g, h), n)
                     = IF Count(h, n) > Count(g, n) THEN Count(h, n) ELSE Count(g, n)
<1> DEFINE D == DOMAIN g \cup {m \in DOMAIN h : h[m] > Count(g, m)}
           max(n) == IF Count(h, n) > Count(g, n) THEN Count(h, n) ELSE Count(g, n)
<1>1. GMergeInPlace(g, h) = [n \in D |-> max(n)]
  BY DEF GMergeInPlace
<1>2. D \subseteq N
  BY DEF GCounters
<1>3. \A n : max(n) \in Nat
  BY CountType
<1>4. \A n : n \notin D => max(n) = 0
  BY CountType DEF Count, GCounters
<1> HIDE DEF D, max
<1>5. GMergeInPlace(g, h) \in [D -> Nat]
  BY <1>1, <1>3
<1>6. GMergeInPlace(g, h) \in GCounters(N)
  BY <1>2, <1>5 DEF GCounters
<1>7. \A n : Count(GMergeInPlace(g, h), n) = max(n)
  BY <1>1, <1>4 DEF Count
<1> QED  BY <1>1, <1>6, <1>7 DEF D, max

LEMMA GMergeIsLub ==
  ASSUME NEW N, NEW g \in GCounters(N), NEW h \in GCounters(N)
  PROVE  /\ GIsIn(g, GMergeInPlace(g, h)) /\ GIsIn(h, GMergeInPlace(g, h))
         /\ \A c \in GCounters(N) :
              GIsIn(g, c) /\ GIsIn(h, c) => GIsIn(GMergeInPlace(g, h), c)
<1>1. /\ GMergeInPlace(g, h) \in GCounters(N)
      /\ \A n : Count(GMergeInPlace(g, h), n)
                  = IF Count(h, n) > Count(g, n) THEN Count(h, n) ELSE Count(g, n)
  BY ZenonT(60), GMergeCount
<1>2. \A n : Count(g, n) \in Nat /\ Count(h, n) \in Nat
  BY CountType
<1>3. GIsIn(g, GMergeInPlace(g, h)) /\ GIsIn(h, GMergeInPlace(g, h))
  BY <1>1, <1>2, GIsInPointwise
<1>4. ASSUME NEW c \in GCounters(N), GIsIn(g, c), GIsIn(h, c)
      PROVE  GIsIn(GMergeInPlace(g, h), c)
  <2>1. \A n : Count(g, n) <= Count(c, n) /\ Count(h, n) <= Count(c, n)
    BY <1>4, GIsInPointwise
  <2>2. \A n : Count(GMergeInPlace(g, h), n) <= Count(c, n)
    BY <1>1, <2>1
  <2> QED  BY <1>1, <2>2, GIsInPointwise
<1> QED  BY <1>3, <1>4

LEMMA GIsInOrder ==
  ASSUME NEW N, NEW g \in GCounters(N), NEW h \in GCounters(N), NEW c \in GCounters(N)
  PROVE  GIsIn(g, g) /\ (GIsIn(g, h) /\ GIsIn(h, c) => GIsIn(g, c))
<1>1. \A n : Count(g, n) \in Nat /\ Count(h, n) \in Nat /\ Count(c, n) \in Nat
  BY CountType
<1> QED  BY <1>1, GIsInPointwise

-----------------------------------------------------------------------------
(* Regular counters *)

\* A counter made by NewGCounter has an entry for every node, one made on a
\* restarted node has an entry only where something positive was written.
Regular(N, g) == DOMAIN g = N \/ \A n \in DOMAIN g : g[n] > 0

RegularMaps(K, N) == {cm \in CounterMaps(K, N) : \A k \in DOMAIN cm : Regular(N, cm[k])}

LEMMA GMergeRegular ==
  ASSUME NEW N, NEW g \in GCounters(N), NEW h \in GCounters(N), Regular(N, g)
  PROVE  Regular(N, GMergeInPlace(g, h))
<1> DEFINE r == GMergeInPlace(g, h)
<1>1. /\ r \in GCounters(N)
      /\ DOMAIN r = DOMAIN g \cup {m \in DOMAIN h : h[m] > Count(g, m)}
      /\ \A n : Count(r, n) = IF Count(h, n) > Count(g, n) THEN Count(h, n) ELSE Count(g, n)
  BY ZenonT(60), GMergeCount
<1>2. \A n : Count(g, n) \in Nat /\ Count(h, n) \in Nat
  BY CountType
<1> SUFFICES Regular(N, r)
  OBVIOUS
<1> HIDE DEF r
<1>3. CASE DOMAIN g = N
  BY <1>1, <1>3 DEF Regular, GCounters
<1>4. CASE \A n \in DOMAIN g : g[n] > 0
  <2>1. ASSUME NEW n \in DOMAIN r
        PROVE  r[n] > 0
    <3>1. r[n] = Count(r, n)
      BY DEF Count
    <3>2. CASE n \in DOMAIN g
      BY <1>1, <1>2, <1>4, <3>1, <3>2 DEF Count
    <3>3. CASE n \notin DOMAIN g
      BY <1>1, <1>2, <3>1, <3>3 DEF Count
    <3> QED  BY <3>2, <3>3
  <2> QED  BY <2>1 DEF Regular
<1> QED  BY <1>3, <1>4 DEF Regular

\* On regular counters Equals, which compares lengths and the receiver's
\* entries only, means equality.
LEMMA GEqualsSound ==
  ASSUME NEW N, IsFiniteSet(N), NEW g \in GCounters(N), NEW h \in GCounters(N),
         Regular(N, g), Regular(N, h), GEquals(g, h)
  PROVE  g = h
<1>1. /\ DOMAIN g \subseteq N /\ DOMAIN h \subseteq N
      /\ g \in [DOMAIN g -> Nat] /\ h \in [DOMAIN h -> Nat]
  BY GCounterType
<1>2. /\ IsFiniteSet(DOMAIN g) /\ IsFiniteSet(DOMAIN h)
      /\ Cardinality(DOMAIN g) = Cardinality(DOMAIN h)
      /\ \A n \in DOMAIN g : g[n] = Count(h, n)
  BY <1>1, FS_Subset DEF GEquals
<1>3. DOMAIN g = DOMAIN h
  <2>1. CASE DOMAIN g = N
    BY <1>1, <1>2, <2>1, FS_Subset
  <2>2. CASE \A n \in DOMAIN g : g[n] > 0
    <3>1. DOMAIN g \subseteq DOMAIN h
      BY <1>2, <2>2 DEF Count
    <3> QED  BY <1>2, <3>1, FS_Subset
  <2> QED  BY <2>1, <2>2 DEF Regular
<1> QED  BY <1>1, <1>2, <1>3 DEF Count

-----------------------------------------------------------------------------
(* CounterMap *)

LEMMA CounterMapType ==
  ASSUME NEW K, NEW N, NEW cm
  PROVE  cm \in CounterMaps(K, N)
           <=> /\ DOMAIN cm \subseteq K
               /\ cm \in [DOMAIN cm -> GCounters(N)]
  BY DEF CounterMaps

\* The comparison of lengths at the start of IsIn never decides the result.
LEMMA CMIsInPointwise ==
  ASSUME NEW K, NEW N, IsFiniteSet(K), NEW a \in CounterMaps(K, N), NEW b \in CounterMaps(K, N)
  PROVE  CMIsIn(a, b) <=> \A k \in DOMAIN a : k \in DOMAIN b /\ GIsIn(a[k], b[k])
<1>1. IsFiniteSet(DOMAIN b)
  BY CounterMapType, FS_Subset
<1>2. DOMAIN a \subseteq DOMAIN b => Cardinality(DOMAIN a) <= Cardinality(DOMAIN b)
  BY <1>1, FS_Subset
<1> QED  BY <1>2 DEF CMIsIn

LEMMA CMIsInReflexive ==
  ASSUME NEW K, NEW N, IsFiniteSet(K), NEW a \in CounterMaps(K, N)
  PROVE  CMIsIn(a, a)
<1>1. \A k \in DOMAIN a : GIsIn(a[k], a[k])
  BY CounterMapType, GIsInOrder
<1> QED  BY <1>1, CMIsInPointwise

LEMMA CMIsInTransitive ==
  ASSUME NEW K, NEW N, IsFiniteSet(K), NEW a \in CounterMaps(K, N),
         NEW b \in CounterMaps(K, N), NEW c \in CounterMaps(K, N),
         CMIsIn(a, b), CMIsIn(b, c)
  PROVE  CMIsIn(a, c)
<1>1. ASSUME NEW k \in DOMAIN a
      PROVE  k \in DOMAIN c /\ GIsIn(a[k], c[k])
  <2>1. k \in DOMAIN b /\ GIsIn(a[k], b[k])
    BY CMIsInPointwise
  <2>2. k \in DOMAIN c /\ GIsIn(b[k], c[k])
    BY <2>1, CMIsInPointwise
  <2>3. a[k] \in GCounters(N) /\ b[k] \in GCounters(N) /\ c[k] \in GCounters(N)
    BY <2>1, <2>2, CounterMapType
  <2> QED  BY <2>1, <2>2, <2>3, GIsInOrder
<1> QED  BY <1>1, CMIsInPointwise

LEMMA CMJoinType ==
  ASSUME NEW K, NEW N, NEW a \in CounterMaps(K, N), NEW b \in CounterMaps(K, N)
  PROVE  /\ CMJoin(a, b) \in CounterMaps(K, N)
         /\ DOMAIN CMJoin(a, b) = DOMAIN a \cup DOMAIN b
         /\ \A k \in DOMAIN a \cup DOMAIN b :
              CMJoin(a, b)[k] = IF k \notin DOMAIN a THEN b[k]
                                ELSE IF k \in DOMAIN b THEN GMergeInPlace(a[k], b[k])
                                ELSE a[k]
<1> DEFINE D == DOMAIN a \cup DOMAIN b
           entry(k) == IF k \notin DOMAIN a THEN b[k]
                       ELSE IF k \in DOMAIN b THEN GMergeInPlace(a[k], b[k])
                       ELSE a[k]
<1>1. CMJoin(a, b) = [k \in D |-> entry(k)]
  BY DEF CMJoin, CMMergeInPlace
<1>2. /\ D \subseteq K
      /\ \A k \in DOMAIN a : a[k] \in GCounters(N)
      /\ \A k \in DOMAIN b : b[k] \in GCounters(N)
  BY CounterMapType
<1>3. \A k \in D : entry(k) \in GCounters(N)
  BY ZenonT(60), <1>2, GMergeCount
<1> SUFFICES /\ CMJoin(a, b) \in CounterMaps(K, N)
             /\ DOMAIN CMJoin(a, b) = D
             /\ \A k \in D : CMJoin(a, b)[k] = entry(k)
  OBVIOUS
<1> HIDE DEF D, entry
<1> QED  BY <1>1, <1>2, <1>3 DEF CounterMaps

\* Merging regular counters makes regular counters.
LEMMA CMJoinRegular ==
  ASSUME NEW K, NEW N, NEW a \in RegularMaps(K, N), NEW b \in RegularMaps(K, N)
  PROVE  CMJoin(a, b) \in RegularMaps(K, N)
<1> DEFINE j == CMJoin(a, b)
<1>1. /\ a \in CounterMaps(K, N) /\ b \in CounterMaps(K, N)
      /\ \A k \in DOMAIN a : a[k] \in GCounters(N) /\ Regular(N, a[k])
      /\ \A k \in DOMAIN b : b[k] \in GCounters(N) /\ Regular(N, b[k])
  BY CounterMapType DEF RegularMaps
<1>2. /\ j \in CounterMaps(K, N)
      /\ DOMAIN j = DOMAIN a \cup DOMAIN b
      /\ \A k \in DOMAIN a \cup DOMAIN b :
           j[k] = IF k \notin DOMAIN a THEN b[k]
                  ELSE IF k \in DOMAIN b THEN GMergeInPlace(a[k], b[k]) ELSE a[k]
  BY ZenonT(60), <1>1, CMJoinType
<1> HIDE DEF j
<1>3. ASSUME NEW k \in DOMAIN j
      PROVE  Regular(N, j[k])
  <2>1. CASE k \notin DOMAIN a
    BY <1>1, <1>2, <2>1
  <2>2. CASE k \in DOMAIN a /\ k \in DOMAIN b
    <3>1. j[k] = GMergeInPlace(a[k], b[k])
      BY <1>2, <2>2
    <3> QED  BY ZenonT(60), <1>1, <2>2, <3>1, GMergeRegular
  <2>3. CASE k \in DOMAIN a /\ k \notin DOMAIN b
    BY <1>1, <1>2, <2>3
  <2> QED  BY <2>1, <2>2, <2>3
<1> QED  BY <1>2, <1>3 DEF RegularMaps, j

LEMMA CMJoinIsLub ==
  ASSUME NEW K, NEW N, IsFiniteSet(K),
         NEW a \in CounterMaps(K, N), NEW b \in CounterMaps(K, N)
  PROVE  /\ CMIsIn(a, CMJoin(a, b)) /\ CMIsIn(b, CMJoin(a, b))
         /\ \A c \in CounterMaps(K, N) :
              CMIsIn(a, c) /\ CMIsIn(b, c) => CMIsIn(CMJoin(a, b), c)
<1> DEFINE j == CMJoin(a, b)
<1>1. /\ j \in CounterMaps(K, N)
      /\ DOMAIN j = DOMAIN a \cup DOMAIN b
      /\ \A k \in DOMAIN a \cup DOMAIN b :
           j[k] = IF k \notin DOMAIN a THEN b[k]
                  ELSE IF k \in DOMAIN b THEN GMergeInPlace(a[k], b[k]) ELSE a[k]
  BY ZenonT(60), CMJoinType
<1>2. /\ \A k \in DOMAIN a : a[k] \in GCounters(N)
      /\ \A k \in DOMAIN b : b[k] \in GCounters(N)
  BY CounterMapType
<1> SUFFICES /\ CMIsIn(a, j) /\ CMIsIn(b, j)
             /\ \A c \in CounterMaps(K, N) : CMIsIn(a, c) /\ CMIsIn(b, c) => CMIsIn(j, c)
  OBVIOUS
<1> HIDE DEF j
<1>3. ASSUME NEW k \in DOMAIN a
      PROVE  k \in DOMAIN j /\ GIsIn(a[k], j[k])
  <2>1. CASE k \in DOMAIN b
    BY <1>1, <1>2, <2>1, GMergeIsLub
  <2>2. CASE k \notin DOMAIN b
    <3>1. j[k] = a[k] /\ k \in DOMAIN j
      BY <1>1, <2>2
    <3> QED  BY <1>2, <3>1, GIsInOrder
  <2> QED  BY <2>1, <2>2
<1>4. ASSUME NEW k \in DOMAIN b
      PROVE  k \in DOMAIN j /\ GIsIn(b[k], j[k])
  <2>1. CASE k \in DOMAIN a
    BY <1>1, <1>2, <2>1, GMergeIsLub
  <2>2. CASE k \notin DOMAIN a
    <3>1. j[k] = b[k] /\ k \in DOMAIN j
      BY <1>1, <2>2
    <3> QED  BY <1>2, <3>1, GIsInOrder
  <2> QED  BY <2>1, <2>2
<1>5. ASSUME NEW c \in CounterMaps(K, N), CMIsIn(a, c), CMIsIn(b, c)
      PROVE  CMIsIn(j, c)
  <2>1. \A k \in DOMAIN c : c[k] \in GCounters(N)
    BY CounterMapType
  <2>2. /\ \A k \in DOMAIN a : k \in DOMAIN c /\ GIsIn(a[k], c[k])
        /\ \A k \in DOMAIN b : k \in DOMAIN c /\ GIsIn(b[k], c[k])
    BY <1>2, <1>5, <2>1, CMIsInPointwise
  <2>3. \A k \in DOMAIN j : k \in DOMAIN c /\ GIsIn(j[k], c[k])
    BY <1>1, <1>2, <2>1, <2>2, GMergeIsLub
  <2> QED  BY <1>1, <2>1, <2>3, CMIsInPointwise
<1> QED  BY <1>1, <1>2, <1>3, <1>4, <1>5, CMIsInPointwise

\* On maps of regular counters Equals means equality.
LEMMA CMEqualsSound ==
  ASSUME NEW K, NEW N, IsFiniteSet(K), IsFiniteSet(N),
         NEW a \in RegularMaps(K, N), NEW b \in RegularMaps(K, N), CMEquals(a, b)
  PROVE  a = b
<1>1. /\ DOMAIN b \subseteq K
      /\ a \in [DOMAIN a -> GCounters(N)] /\ b \in [DOMAIN b -> GCounters(N)]
      /\ \A k \in DOMAIN a : Regular(N, a[k])
      /\ \A k \in DOMAIN b : Regular(N, b[k])
  BY CounterMapType DEF RegularMaps
<1>2. DOMAIN a = DOMAIN b
  <2>1. DOMAIN a \subseteq DOMAIN b /\ Cardinality(DOMAIN a) = Cardinality(DOMAIN b)
    BY DEF CMEquals
  <2> QED  BY <1>1, <2>1, FS_Subset
<1>3. \A k \in DOMAIN a : a[k] = b[k]
  BY <1>1, <1>2, GEqualsSound DEF CMEquals
<1> QED  BY <1>1, <1>2, <1>3

\* CounterMaps over finitely many keys and nodes are a lattice in the sense of
\* LatticeAssumption of module LatticeAgreement, as long as every counter has
\* all entries or only positive ones (counter_map.go, gcounter.go).
THEOREM CounterMapIsLattice ==
  ASSUME NEW K, NEW N, IsFiniteSet(K), IsFiniteSet(N)
  PROVE  LET Value == RegularMaps(K, N)
         IN  /\ CMBottom \in Value
             /\ \A v \in Value : CMIsIn(v, v) /\ CMIsIn(CMBottom, v)
             /\ \A u, v, w \in Value : CMIsIn(u, v) /\ CMIsIn(v, w) => CMIsIn(u, w)
             /\ \A u, v \in Value :
                  /\ CMJoin(u, v) \in Value
                  /\ CMIsIn(u, CMJoin(u, v)) /\ CMIsIn(v, CMJoin(u, v))
                  /\ \A w \in Value :
                       CMIsIn(u, w) /\ CMIsIn(v, w) => CMIsIn(CMJoin(u, v), w)
                  /\ CMEquals(u, v) => CMIsIn(u, v) /\ CMIsIn(v, u)
                  /\ CMStrictlyIsIn(u, v) => CMIsIn(u, v)
<1> DEFINE V == RegularMaps(K, N)
<1>1. V \subseteq CounterMaps(K, N)
  BY DEF RegularMaps
<1>2. CMBottom \in V /\ CMBottom \in CounterMaps(K, N)
  <2>1. DOMAIN CMBottom = {} /\ CMBottom \in [{} -> GCounters(N)]
    BY DEF CMBottom, EmptyMap
  <2> QED  BY ZenonT(60), <2>1 DEF CounterMaps, RegularMaps
<1>3. \A v \in V : CMIsIn(v, v) /\ CMIsIn(CMBottom, v)
  <2>1. \A v \in V : CMIsIn(CMBottom, v)
    BY <1>1, <1>2, CMIsInPointwise DEF CMBottom, EmptyMap
  <2> QED  BY <1>1, <2>1, CMIsInReflexive
<1>4. \A u, v, w \in V : CMIsIn(u, v) /\ CMIsIn(v, w) => CMIsIn(u, w)
  BY <1>1, CMIsInTransitive
<1>5. \A u, v \in V : /\ CMJoin(u, v) \in V
                      /\ CMIsIn(u, CMJoin(u, v)) /\ CMIsIn(v, CMJoin(u, v))
                      /\ \A w \in V : CMIsIn(u, w) /\ CMIsIn(v, w) => CMIsIn(CMJoin(u, v), w)
  BY ZenonT(60), <1>1, CMJoinRegular, CMJoinIsLub
<1>6. \A u, v \in V : CMEquals(u, v) => CMIsIn(u, v) /\ CMIsIn(v, u)
  BY <1>3, CMEqualsSound
<1>7. \A u, v \in V : CMStrictlyIsIn(u, v) => CMIsIn(u, v)
  BY DEF CMStrictlyIsIn
<1> HIDE DEF V
<1> QED  BY <1>2, <1>3, <1>4, <1>5, <1>6, <1>7 DEF V

-----------------------------------------------------------------------------
(* What the operations do to a slot *)

LEMMA SlotType ==
  ASSUME NEW cm \in CounterMaps(Key, Node), NEW k, NEW n
  PROVE  Slot(cm, k, n) \in Nat
  BY CounterMapType, CountType DEF Slot

LEMMA EmptyMapSlots ==
  EmptyMap \in CounterMaps(Key, Node) /\ \A k, n : Slot(EmptyMap, k, n) = 0
  BY ZenonT(60) DEF EmptyMap, CounterMaps, Slot

\* Merging takes the larger slot.
LEMMA MergeSlot ==
  ASSUME NEW a \in CounterMaps(Key, Node), NEW b \in CounterMaps(Key, Node)
  PROVE  /\ CMMergeInPlace(a, b) \in CounterMaps(Key, Node)
         /\ \A k, n : Slot(CMMergeInPlace(a, b), k, n)
                        = IF Slot(b, k, n) > Slot(a, k, n) THEN Slot(b, k, n)
                          ELSE Slot(a, k, n)
<1> DEFINE D == DOMAIN a \cup DOMAIN b
           entry(k) == IF k \notin DOMAIN a THEN b[k]
                       ELSE IF k \in DOMAIN b THEN GMergeInPlace(a[k], b[k])
                       ELSE a[k]
<1>1. CMMergeInPlace(a, b) = [k \in D |-> entry(k)]
  BY DEF CMMergeInPlace
<1>2. /\ D \subseteq Key
      /\ \A k \in DOMAIN a : a[k] \in GCounters(Node)
      /\ \A k \in DOMAIN b : b[k] \in GCounters(Node)
  BY CounterMapType
<1>3. \A k \in D : entry(k) \in GCounters(Node)
  BY ZenonT(60), <1>2, GMergeCount
<1>4. CMMergeInPlace(a, b) \in CounterMaps(Key, Node)
  <2> HIDE DEF D, entry
  <2> QED  BY <1>1, <1>2, <1>3 DEF CounterMaps
<1>5. ASSUME NEW k, NEW n
      PROVE  Slot(CMMergeInPlace(a, b), k, n)
               = IF Slot(b, k, n) > Slot(a, k, n) THEN Slot(b, k, n) ELSE Slot(a, k, n)
  <2>0. Slot(a, k, n) \in Nat /\ Slot(b, k, n) \in Nat
    BY SlotType
  <2>1. CASE k \in DOMAIN a /\ k \in DOMAIN b
    <3>1. CMMergeInPlace(a, b)[k] = GMergeInPlace(a[k], b[k]) /\ k \in DOMAIN CMMergeInPlace(a, b)
      BY <1>1, <2>1
    <3>2. Count(GMergeInPlace(a[k], b[k]), n)
            = IF Count(b[k], n) > Count(a[k], n) THEN Count(b[k], n) ELSE Count(a[k], n)
      BY ZenonT(60), <1>2, <2>1, GMergeCount
    <3> QED  BY <2>1, <3>1, <3>2 DEF Slot
  <2>2. CASE k \in DOMAIN a /\ k \notin DOMAIN b
    <3>1. CMMergeInPlace(a, b)[k] = a[k] /\ k \in DOMAIN CMMergeInPlace(a, b)
      BY <1>1, <2>2
    <3> QED  BY <2>0, <2>2, <3>1 DEF Slot
  <2>3. CASE k \notin DOMAIN a /\ k \in DOMAIN b
    <3>1. CMMergeInPlace(a, b)[k] = b[k] /\ k \in DOMAIN CMMergeInPlace(a, b)
      BY <1>1, <2>3
    <3> QED  BY <2>0, <2>3, <3>1 DEF Slot
  <2>4. CASE k \notin DOMAIN a /\ k \notin DOMAIN b
    <3>1. k \notin DOMAIN CMMergeInPlace(a, b)
      BY <1>1, <2>4
    <3> QED  BY <2>0, <2>4, <3>1 DEF Slot
  <2> QED  BY <2>1, <2>2, <2>3, <2>4
<1> QED  BY <1>4, <1>5

\* An increment that does not overflow adds to one slot and leaves the rest,
\* whether or not the key and the entry exist already.
LEMMA IncrementSlot ==
  ASSUME NEW cm \in CounterMaps(Key, Node), NEW ids \in {Node, {}}, NEW key \in Key,
         NEW n \in Node, NEW v \in Nat, Slot(cm, key, n) + v < Modulus
  PROVE  /\ CMIncrementKey(cm, ids, key, n, v) \in CounterMaps(Key, Node)
         /\ \A k, m : Slot(CMIncrementKey(cm, ids, key, n, v), k, m)
                        = IF k = key /\ m = n THEN Slot(cm, k, m) + v ELSE Slot(cm, k, m)
<1> DEFINE counter == IF key \in DOMAIN cm THEN cm[key] ELSE NewGCounter(ids)
           r == CMIncrementKey(cm, ids, key, n, v)
<1>1. counter \in GCounters(Node) /\ \A m : Count(counter, m) = Slot(cm, key, m)
  <2>1. CASE key \in DOMAIN cm
    BY <2>1, CounterMapType DEF Slot
  <2>2. CASE key \notin DOMAIN cm
    BY <2>2 DEF Slot, NewGCounter, GCounters, Count
  <2> QED  BY <2>1, <2>2
<1>2. r = [k \in DOMAIN cm \cup {key} |->
             IF k = key THEN GIncrement(counter, n, v) ELSE cm[k]]
  BY DEF CMIncrementKey
<1> HIDE DEF counter
<1>3. Slot(cm, key, n) \in Nat /\ (Slot(cm, key, n) + v) % Modulus = Slot(cm, key, n) + v
  BY SlotType, ModulusAssumption
<1>4. GIncrement(counter, n, v)
        = [m \in DOMAIN counter \cup {n} |->
             IF m = n THEN Slot(cm, key, n) + v ELSE counter[m]]
  BY <1>1, <1>3 DEF GIncrement
<1>5. /\ GIncrement(counter, n, v) \in GCounters(Node)
      /\ \A m : Count(GIncrement(counter, n, v), m)
                  = IF m = n THEN Slot(cm, key, n) + v ELSE Slot(cm, key, m)
  <2> DEFINE g == GIncrement(counter, n, v)
             D == DOMAIN counter \cup {n}
  <2>1. D \subseteq Node /\ \A m \in DOMAIN counter : counter[m] \in Nat
    BY <1>1, GCounterType
  <2>2. g \in [D -> Nat]
    BY <1>3, <1>4, <2>1
  <2>3. g \in GCounters(Node)
    <3> HIDE DEF D, g
    <3> QED  BY <2>1, <2>2 DEF GCounters
  <2>4. ASSUME NEW m
        PROVE  Count(g, m) = IF m = n THEN Slot(cm, key, n) + v ELSE Slot(cm, key, m)
    BY <1>1, <1>4 DEF Count
  <2> QED  BY <2>3, <2>4
<1>6. r \in CounterMaps(Key, Node)
  <2>1. DOMAIN cm \cup {key} \subseteq Key /\ \A k \in DOMAIN cm : cm[k] \in GCounters(Node)
    BY CounterMapType
  <2> HIDE DEF r
  <2> QED  BY <1>2, <1>5, <2>1 DEF CounterMaps
<1>7. \A k, m : Slot(r, k, m) = IF k = key /\ m = n THEN Slot(cm, k, m) + v ELSE Slot(cm, k, m)
  <2> HIDE DEF r
  <2> QED  BY SMTT(60), <1>2, <1>5 DEF Slot
<1> QED  BY <1>6, <1>7

-----------------------------------------------------------------------------
(* Merging, whether or not counts overflow *)

\* An increment makes a counter map, even if the count wraps around.
LEMMA IncrementType ==
  ASSUME NEW cm \in CounterMaps(Key, Node), NEW ids \in {Node, {}}, NEW key \in Key,
         NEW n \in Node, NEW v \in Nat
  PROVE  CMIncrementKey(cm, ids, key, n, v) \in CounterMaps(Key, Node)
<1> DEFINE counter == IF key \in DOMAIN cm THEN cm[key] ELSE NewGCounter(ids)
           D == DOMAIN counter \cup {n}
           g == GIncrement(counter, n, v)
           E == DOMAIN cm \cup {key}
           r == CMIncrementKey(cm, ids, key, n, v)
<1>1. counter \in GCounters(Node)
  <2>1. CASE key \in DOMAIN cm
    BY <2>1, CounterMapType
  <2>2. CASE key \notin DOMAIN cm
    BY <2>2 DEF NewGCounter, GCounters
  <2> QED  BY <2>1, <2>2
<1>2. r = [k \in E |-> IF k = key THEN g ELSE cm[k]]
  BY DEF CMIncrementKey
<1> HIDE DEF counter
<1>3. D \subseteq Node /\ \A m \in DOMAIN counter : counter[m] \in Nat
  BY <1>1, GCounterType
<1>4. Count(counter, n) \in Nat /\ (Count(counter, n) + v) % Modulus \in Nat
  BY <1>1, CountType, ModulusAssumption
<1>5. g \in [D -> Nat]
  BY <1>3, <1>4 DEF GIncrement
<1>6. E \subseteq Key /\ \A k \in DOMAIN cm : cm[k] \in GCounters(Node)
  BY CounterMapType
<1> HIDE DEF D, g
<1>7. g \in GCounters(Node)
  BY <1>3, <1>5 DEF GCounters
<1>8. r \in [E -> GCounters(Node)]
  BY <1>2, <1>6, <1>7
<1> HIDE DEF E, r
<1>9. r \in CounterMaps(Key, Node)
  BY <1>6, <1>8 DEF CounterMaps
<1> QED  BY <1>9 DEF r

\* What every node keeps and sends is a counter map of the cluster.
MapsInv ==
  /\ counters \in [Node -> CounterMaps(Key, Node)]
  /\ wire \in [Node -> CounterMaps(Key, Node)]
  /\ nodeIds \in [Node -> {Node, {}}]

LEMMA MapsInit == Init => MapsInv
  BY EmptyMapSlots DEF Init, MapsInv

LEMMA MapsStep ==
  ASSUME MapsInv, [Next]_vars
  PROVE  MapsInv'
<1>1. ASSUME NEW n \in Node, NEW k \in Key, NEW v \in Amount, Increment(n, k, v)
      PROVE  MapsInv'
  <2>1. /\ counters[n] \in CounterMaps(Key, Node) /\ nodeIds[n] \in {Node, {}}
        /\ v \in Nat
    BY ReplicasAssumption DEF MapsInv
  <2>2. CMIncrementKey(counters[n], nodeIds[n], k, n, v) \in CounterMaps(Key, Node)
    BY ZenonT(60), <2>1, IncrementType
  <2> QED  BY <1>1, <2>2 DEF Increment, MapsInv
<1>2. ASSUME NEW n \in Node, Send(n)
      PROVE  MapsInv'
  BY <1>2 DEF Send, MapsInv
<1>3. ASSUME NEW n \in Node, NEW m \in Node, Merge(n, m)
      PROVE  MapsInv'
  <2>1. CMMergeInPlace(counters[n], wire[m]) \in CounterMaps(Key, Node)
    BY MergeSlot DEF MapsInv
  <2> QED  BY <1>3, <2>1 DEF Merge, MapsInv
<1>4. ASSUME NEW n \in Node, Reload(n)
      PROVE  MapsInv'
  BY <1>4 DEF Reload, MapsInv
<1>5. CASE UNCHANGED vars
  BY <1>5 DEF vars, MapsInv
<1> QED  BY <1>1, <1>2, <1>3, <1>4, <1>5 DEF Next

\* Whatever maps travel and whatever entries they have, Join is the least upper
\* bound of two of them: merging in any order and grouping loses nothing and
\* adds nothing, after restarts and even after counts have wrapped around.
THEOREM JoinIsAlwaysLub == Spec => []JoinIsLeastUpperBound
<1>1. MapsInv => JoinIsLeastUpperBound
  <2> SUFFICES ASSUME MapsInv
               PROVE  JoinIsLeastUpperBound
    OBVIOUS
  <2>1. \A a \in Maps : a \in CounterMaps(Key, Node)
    BY DEF MapsInv, Maps
  <2> QED  BY ZenonT(60), <2>1, ReplicasAssumption, CMJoinIsLub DEF JoinIsLeastUpperBound
<1> QED  BY <1>1, MapsInit, MapsStep, PTL DEF Spec

-----------------------------------------------------------------------------
(* A node is never behind on its own slot *)

\* The inductive invariant: types, the property, and a bound on every slot that
\* keeps increments from overflowing.
LeadInv ==
  /\ counters \in [Node -> CounterMaps(Key, Node)]
  /\ wire \in [Node -> CounterMaps(Key, Node)]
  /\ nodeIds \in [Node -> {Node, {}}]
  /\ total \in [Key -> Nat]
  /\ \A n, m \in Node, k \in Key :
       /\ Slot(counters[m], k, n) <= Slot(counters[n], k, n)
       /\ Slot(wire[m], k, n) <= Slot(counters[n], k, n)
  /\ \A n \in Node, k \in Key : Slot(counters[n], k, n) <= total[k]

LEMMA OwnSlotTypes ==
  ASSUME LeadInv
  PROVE  \A n, m \in Node, k \in Key : /\ Slot(counters[m], k, n) \in Nat
                                       /\ Slot(wire[m], k, n) \in Nat
  BY SlotType DEF LeadInv

\* An increment adds to the node's own slot and to the total, and nothing else.
LEMMA IncrementAdds ==
  ASSUME MaxTotal < Modulus, LeadInv,
         NEW n \in Node, NEW k \in Key, NEW v \in Amount, Increment(n, k, v)
  PROVE  /\ v \in Nat
         /\ counters' \in [Node -> CounterMaps(Key, Node)]
         /\ \A p, m \in Node, l \in Key :
              Slot(counters'[p], l, m)
                = IF p = n /\ l = k /\ m = n THEN Slot(counters[p], l, m) + v
                  ELSE Slot(counters[p], l, m)
         /\ total' \in [Key -> Nat]
         /\ \A l \in Key : total'[l] = IF l = k THEN total[l] + v ELSE total[l]
         /\ UNCHANGED <<nodeIds, wire>>
<1> USE DEF LeadInv
<1>1. v \in Nat /\ MaxTotal \in Nat /\ Modulus \in Nat /\ total[k] \in Nat
  BY ReplicasAssumption, ModulusAssumption
<1>2. /\ total[k] + v <= MaxTotal
      /\ counters' = [counters EXCEPT ![n] =
                        CMIncrementKey(counters[n], nodeIds[n], k, n, v)]
      /\ total' = [total EXCEPT ![k] = @ + v]
      /\ UNCHANGED <<nodeIds, wire>>
  BY DEF Increment
<1>3. Slot(counters[n], k, n) + v < Modulus /\ Slot(counters[n], k, n) <= total[k]
  BY SMTT(60), <1>1, <1>2, OwnSlotTypes
<1>4. /\ CMIncrementKey(counters[n], nodeIds[n], k, n, v) \in CounterMaps(Key, Node)
      /\ \A l, m : Slot(CMIncrementKey(counters[n], nodeIds[n], k, n, v), l, m)
                     = IF l = k /\ m = n THEN Slot(counters[n], l, m) + v
                       ELSE Slot(counters[n], l, m)
  <2>1. counters[n] \in CounterMaps(Key, Node) /\ nodeIds[n] \in {Node, {}}
    OBVIOUS
  <2> HIDE DEF LeadInv
  <2>2. /\ counters[n] \in CounterMaps(Key, Node) /\ v \in Nat
        /\ Slot(counters[n], k, n) + v < Modulus
    BY <1>1, <1>3, <2>1
  <2>3. CASE nodeIds[n] = Node
    BY <2>2, <2>3, IncrementSlot
  <2>4. CASE nodeIds[n] = {}
    BY <2>2, <2>4, IncrementSlot
  <2> QED  BY <2>1, <2>3, <2>4
<1>5. /\ counters' \in [Node -> CounterMaps(Key, Node)]
      /\ \A p, m \in Node, l \in Key :
           Slot(counters'[p], l, m)
             = IF p = n /\ l = k /\ m = n THEN Slot(counters[p], l, m) + v
               ELSE Slot(counters[p], l, m)
  BY <1>2, <1>4
<1>6. total' \in [Key -> Nat] /\ \A l \in Key : total'[l] = IF l = k THEN total[l] + v ELSE total[l]
  BY <1>1, <1>2
<1> QED  BY <1>1, <1>2, <1>5, <1>6

\* A merge takes the larger of two slots, so it leaves every node's own alone.
LEMMA MergeKeepsOwn ==
  ASSUME LeadInv, NEW n \in Node, NEW m \in Node, Merge(n, m)
  PROVE  /\ counters' \in [Node -> CounterMaps(Key, Node)]
         /\ \A p, q \in Node, l \in Key :
              Slot(counters'[p], l, q)
                = IF p = n /\ Slot(wire[m], l, q) > Slot(counters[p], l, q)
                  THEN Slot(wire[m], l, q) ELSE Slot(counters[p], l, q)
         /\ \A p \in Node, l \in Key : Slot(counters'[p], l, p) = Slot(counters[p], l, p)
         /\ UNCHANGED <<nodeIds, wire, total>>
<1> USE DEF LeadInv
<1>1. /\ counters' = [counters EXCEPT ![n] = CMMergeInPlace(counters[n], wire[m])]
      /\ UNCHANGED <<nodeIds, wire, total>>
  BY DEF Merge
<1>2. /\ CMMergeInPlace(counters[n], wire[m]) \in CounterMaps(Key, Node)
      /\ \A l, q : Slot(CMMergeInPlace(counters[n], wire[m]), l, q)
                     = IF Slot(wire[m], l, q) > Slot(counters[n], l, q)
                       THEN Slot(wire[m], l, q) ELSE Slot(counters[n], l, q)
  BY MergeSlot
<1>3. /\ counters' \in [Node -> CounterMaps(Key, Node)]
      /\ \A p, q \in Node, l \in Key :
           Slot(counters'[p], l, q)
             = IF p = n /\ Slot(wire[m], l, q) > Slot(counters[p], l, q)
               THEN Slot(wire[m], l, q) ELSE Slot(counters[p], l, q)
  BY <1>1, <1>2
<1>4. \A p \in Node, l \in Key : Slot(counters'[p], l, p) = Slot(counters[p], l, p)
  BY <1>3, OwnSlotTypes
<1> QED  BY <1>1, <1>3, <1>4

\* Every step keeps the invariant, as long as no slot can overflow.
LEMMA LeadStep ==
  ASSUME MaxTotal < Modulus, LeadInv, [Next]_vars
  PROVE  LeadInv'
<1>0. \A n, m \in Node, k \in Key : /\ Slot(counters[m], k, n) \in Nat
                                    /\ Slot(wire[m], k, n) \in Nat
  BY OwnSlotTypes
<1>1. ASSUME NEW n \in Node, NEW k \in Key, NEW v \in Amount, Increment(n, k, v)
      PROVE  LeadInv'
  <2>1. /\ v \in Nat
        /\ counters' \in [Node -> CounterMaps(Key, Node)]
        /\ \A p, m \in Node, l \in Key :
             Slot(counters'[p], l, m)
               = IF p = n /\ l = k /\ m = n THEN Slot(counters[p], l, m) + v
                 ELSE Slot(counters[p], l, m)
        /\ total' \in [Key -> Nat]
        /\ \A l \in Key : total'[l] = IF l = k THEN total[l] + v ELSE total[l]
        /\ UNCHANGED <<nodeIds, wire>>
    BY ZenonT(60), <1>1, IncrementAdds
  <2>2. \A p, m \in Node, l \in Key :
          /\ Slot(counters'[m], l, p) <= Slot(counters'[p], l, p)
          /\ Slot(wire[m], l, p) <= Slot(counters'[p], l, p)
    BY SMTT(60), <1>0, <2>1 DEF LeadInv
  <2>3. \A p \in Node, l \in Key : Slot(counters'[p], l, p) <= total'[l]
    BY SMTT(60), <1>0, <2>1 DEF LeadInv
  <2> QED  BY SMTT(60), <2>1, <2>2, <2>3 DEF LeadInv
<1>2. ASSUME NEW n \in Node, Send(n)
      PROVE  LeadInv'
  BY SMTT(60), <1>2 DEF Send, LeadInv
<1>3. ASSUME NEW n \in Node, NEW m \in Node, Merge(n, m)
      PROVE  LeadInv'
  <2>1. /\ counters' \in [Node -> CounterMaps(Key, Node)]
        /\ \A p, q \in Node, l \in Key :
             Slot(counters'[p], l, q)
               = IF p = n /\ Slot(wire[m], l, q) > Slot(counters[p], l, q)
                 THEN Slot(wire[m], l, q) ELSE Slot(counters[p], l, q)
        /\ \A p \in Node, l \in Key : Slot(counters'[p], l, p) = Slot(counters[p], l, p)
        /\ UNCHANGED <<nodeIds, wire, total>>
    BY ZenonT(60), <1>3, MergeKeepsOwn
  <2>2. \A p, q \in Node, l \in Key : Slot(counters'[q], l, p) <= Slot(counters[p], l, p)
    BY SMTT(60), <2>1 DEF LeadInv
  <2> QED  BY SMTT(60), <2>1, <2>2 DEF LeadInv
<1>4. ASSUME NEW n \in Node, Reload(n)
      PROVE  LeadInv'
  BY SMTT(60), <1>4 DEF Reload, LeadInv
<1>5. CASE UNCHANGED vars
  BY SMTT(60), <1>5 DEF vars, LeadInv
<1> QED  BY SMTT(60), <1>1, <1>2, <1>3, <1>4, <1>5 DEF Next

\* As long as no key's increments add up to the modulus of a count, no copy of
\* a slot is ahead of the node that owns it.
THEOREM OwnSlotAlwaysLeads ==
  ASSUME MaxTotal < Modulus
  PROVE  Spec => []OwnSlotLeads
<1>1. Init => LeadInv
  BY EmptyMapSlots DEF Init, LeadInv
<1>2. LeadInv => OwnSlotLeads
  BY DEF LeadInv, OwnSlotLeads, Maps
<1> QED  BY <1>1, <1>2, LeadStep, PTL DEF Spec

\* Under the same condition every count in every map is one a uint64 holds and
\* belongs to a node of the cluster, on nodes that were restarted too.
THEOREM ReplicasTypeCorrect ==
  ASSUME MaxTotal < Modulus
  PROVE  Spec => []TypeOK
<1> DEFINE Bounded == \A k \in Key : total[k] =< MaxTotal
<1>1. Init => LeadInv /\ Bounded
  BY EmptyMapSlots, ReplicasAssumption DEF Init, LeadInv
<1>2. LeadInv /\ Bounded /\ [Next]_vars => Bounded'
  BY ReplicasAssumption
     DEF Next, Increment, Send, Merge, Reload, vars, LeadInv
<1>3. LeadInv /\ Bounded => TypeOK
  <2> SUFFICES ASSUME LeadInv, Bounded
               PROVE  TypeOK
    OBVIOUS
  <2>1. ASSUME NEW cm \in Maps, NEW k \in DOMAIN cm
        PROVE  /\ k \in Key /\ DOMAIN cm[k] \subseteq Node
               /\ \A n \in DOMAIN cm[k] : cm[k][n] \in 0 .. (Modulus - 1)
    <3>1. cm \in CounterMaps(Key, Node)
      BY DEF LeadInv, Maps
    <3>2. /\ k \in Key /\ DOMAIN cm[k] \subseteq Node
          /\ cm[k] \in [DOMAIN cm[k] -> Nat]
      BY <3>1, CounterMapType, GCounterType
    <3>3. ASSUME NEW n \in DOMAIN cm[k]
          PROVE  cm[k][n] \in 0 .. (Modulus - 1)
      <4>1. cm[k][n] = Slot(cm, k, n) /\ cm[k][n] \in Nat /\ n \in Node
        BY <3>2 DEF Slot, Count
      <4>2. Slot(counters[n], k, n) \in Nat
        BY <3>2, <4>1, SlotType DEF LeadInv
      <4>3. Slot(cm, k, n) <= Slot(counters[n], k, n)
        BY <3>2, <4>1 DEF LeadInv, Maps
      <4>4. Slot(counters[n], k, n) <= MaxTotal
        BY SMTT(60), <3>2, <4>1, <4>2, ReplicasAssumption DEF LeadInv
      <4> QED
        BY SMTT(60), <4>1, <4>2, <4>3, <4>4, ModulusAssumption, ReplicasAssumption
    <3> QED  BY <3>2, <3>3
  <2>2. total \in [Key -> 0 .. MaxTotal] /\ nodeIds \in [Node -> {Node, {}}]
    BY ReplicasAssumption DEF LeadInv
  <2>3. \A n \in Node : counters[n] \in Maps /\ wire[n] \in Maps
    BY DEF Maps
  <2> QED  BY <2>1, <2>2, <2>3 DEF TypeOK
<1>4. LeadInv /\ [Next]_vars => LeadInv'
  BY LeadStep
<1> QED  BY <1>1, <1>2, <1>3, <1>4, PTL DEF Spec

-----------------------------------------------------------------------------
(* Equals is sound when increments are positive *)

\* An increment by something positive leaves no zero in a counter that has not
\* an entry for every node.
LEMMA IncrementRegular ==
  ASSUME NEW cm \in RegularMaps(Key, Node), NEW ids, ids = Node \/ ids = {},
         NEW key \in Key, NEW n \in Node, NEW v \in Nat \ {0},
         Slot(cm, key, n) + v < Modulus,
         CMIncrementKey(cm, ids, key, n, v) \in CounterMaps(Key, Node)
  PROVE  CMIncrementKey(cm, ids, key, n, v) \in RegularMaps(Key, Node)
<1> DEFINE counter == IF key \in DOMAIN cm THEN cm[key] ELSE NewGCounter(ids)
           g == GIncrement(counter, n, v)
           r == CMIncrementKey(cm, ids, key, n, v)
<1>1. /\ cm \in CounterMaps(Key, Node) /\ \A k \in DOMAIN cm : Regular(Node, cm[k])
      /\ \A k \in DOMAIN cm : cm[k] \in GCounters(Node)
  BY CounterMapType DEF RegularMaps
<1>2. /\ Regular(Node, counter) /\ DOMAIN counter \subseteq Node
      /\ Count(counter, n) = Slot(cm, key, n)
  <2>1. CASE key \in DOMAIN cm
    BY SMTT(60), <1>1, <2>1, GCounterType DEF Slot
  <2>2. CASE key \notin DOMAIN cm
    BY <2>2 DEF Regular, NewGCounter, Slot, Count
  <2> QED  BY <2>1, <2>2
<1>3. r = [k \in DOMAIN cm \cup {key} |-> IF k = key THEN g ELSE cm[k]]
  BY DEF CMIncrementKey
<1> HIDE DEF counter
<1>4. Slot(cm, key, n) \in Nat /\ (Slot(cm, key, n) + v) % Modulus = Slot(cm, key, n) + v
  BY SMTT(60), <1>1, SlotType, ModulusAssumption
<1>5. g = [m \in DOMAIN counter \cup {n} |->
             IF m = n THEN Slot(cm, key, n) + v ELSE counter[m]]
  BY SMTT(60), <1>2, <1>4 DEF GIncrement
<1>6. Regular(Node, g)
  <2>1. CASE DOMAIN counter = Node
    BY <1>5, <2>1 DEF Regular
  <2>2. CASE \A m \in DOMAIN counter : counter[m] > 0
    BY <1>4, <1>5, <2>2 DEF Regular
  <2> QED  BY <1>2, <2>1, <2>2 DEF Regular
<1> HIDE DEF g
<1>7. \A k \in DOMAIN r : Regular(Node, r[k])
  <2> HIDE DEF r
  <2> QED  BY <1>1, <1>3, <1>6
<1> QED  BY <1>7 DEF RegularMaps

\* Every map on a node or under way is a map of regular counters.
RegularInv ==
  \A n \in Node : counters[n] \in RegularMaps(Key, Node) /\ wire[n] \in RegularMaps(Key, Node)

LEMMA RegularStep ==
  ASSUME MaxTotal < Modulus, 0 \notin Amount, LeadInv, LeadInv', RegularInv, [Next]_vars
  PROVE  RegularInv'
<1>1. ASSUME NEW n \in Node, NEW k \in Key, NEW v \in Amount, Increment(n, k, v)
      PROVE  RegularInv'
  <2>1. /\ total[k] + v <= MaxTotal
        /\ counters' = [counters EXCEPT ![n] =
                          CMIncrementKey(counters[n], nodeIds[n], k, n, v)]
        /\ UNCHANGED wire
    BY <1>1 DEF Increment
  <2>2. /\ v \in Nat \ {0} /\ MaxTotal \in Nat /\ Modulus \in Nat /\ total[k] \in Nat
        /\ nodeIds[n] = Node \/ nodeIds[n] = {}
    BY SMTT(60), ReplicasAssumption, ModulusAssumption DEF LeadInv
  <2>3. Slot(counters[n], k, n) \in Nat /\ Slot(counters[n], k, n) <= total[k]
    BY SMTT(60), SlotType DEF LeadInv
  <2>4. Slot(counters[n], k, n) + v < Modulus
    BY SMTT(60), <2>1, <2>2, <2>3
  <2>5. CMIncrementKey(counters[n], nodeIds[n], k, n, v) \in CounterMaps(Key, Node)
    <3>1. counters'[n] = CMIncrementKey(counters[n], nodeIds[n], k, n, v)
      BY SMTT(60), <2>1 DEF LeadInv
    <3> QED  BY <3>1 DEF LeadInv
  <2>6. CMIncrementKey(counters[n], nodeIds[n], k, n, v) \in RegularMaps(Key, Node)
    BY SMTT(60), <2>2, <2>4, <2>5, IncrementRegular DEF RegularInv
  <2> QED  BY SMTT(60), <2>1, <2>6 DEF RegularInv, LeadInv
<1>2. ASSUME NEW n \in Node, Send(n)
      PROVE  RegularInv'
  BY SMTT(60), <1>2 DEF Send, RegularInv, LeadInv
<1>3. ASSUME NEW n \in Node, NEW m \in Node, Merge(n, m)
      PROVE  RegularInv'
  <2>1. CMMergeInPlace(counters[n], wire[m]) \in RegularMaps(Key, Node)
    BY ZenonT(60), CMJoinRegular DEF RegularInv, CMJoin
  <2> QED  BY <1>3, <2>1 DEF Merge, RegularInv, LeadInv
<1>4. ASSUME NEW n \in Node, Reload(n)
      PROVE  RegularInv'
  BY <1>4 DEF Reload, RegularInv
<1>5. CASE UNCHANGED vars
  BY <1>5 DEF vars, RegularInv
<1> QED  BY SMTT(60), <1>1, <1>2, <1>3, <1>4, <1>5 DEF Next

\* At the start all maps are empty.
LEMMA RegularInit == Init => LeadInv /\ RegularInv
<1>1. EmptyMap \in RegularMaps(Key, Node)
  BY EmptyMapSlots DEF RegularMaps, EmptyMap
<1> QED  BY EmptyMapSlots, <1>1 DEF Init, LeadInv, RegularInv

\* Maps that Equals declares the same read the same at every key, provided no
\* increment is zero and none overflows; restarts do no harm.
THEOREM EqualsIsSound ==
  ASSUME MaxTotal < Modulus, 0 \notin Amount
  PROVE  Spec => []EqualMapsReadTheSame
<1>1. Init => LeadInv /\ RegularInv
  BY RegularInit
<1>2. RegularInv => EqualMapsReadTheSame
  <2> SUFFICES ASSUME RegularInv, NEW a \in Maps, NEW b \in Maps, CMEquals(a, b)
               PROVE  a = b
    BY DEF EqualMapsReadTheSame
  <2>1. a \in RegularMaps(Key, Node) /\ b \in RegularMaps(Key, Node)
    BY SMTT(60) DEF RegularInv, Maps
  <2> QED  BY <2>1, ReplicasAssumption, CMEqualsSound
<1>3. LeadInv /\ [Next]_vars => LeadInv'
  BY LeadStep
<1>4. LeadInv /\ LeadInv' /\ RegularInv /\ [Next]_vars => RegularInv'
  BY RegularStep
<1> QED  BY <1>1, <1>2, <1>3, <1>4, PTL DEF Spec

-----------------------------------------------------------------------------
(* What a key reads *)

\* One unit for everything n contributes to f.
Units(f, s) == UNION {{n} \X (1 .. f[n]) : n \in s}

LEMMA ColumnSize ==
  ASSUME NEW n, NEW b \in Nat
  PROVE  IsFiniteSet({n} \X (1 .. b)) /\ Cardinality({n} \X (1 .. b)) = b
<1> DEFINE T == 1 .. b
<1>1. IsFiniteSet({n}) /\ Cardinality({n}) = 1
  BY ZenonT(60), FS_Singleton
<1>2. IsFiniteSet(T) /\ Cardinality(T) = b
  BY SMTT(60), FS_Interval
<1> HIDE DEF T
<1>3. IsFiniteSet({n} \X T) /\ Cardinality({n} \X T) = 1 * Cardinality(T)
  BY ZenonT(60), <1>1, <1>2, FS_Product
<1>4. 1 * Cardinality(T) = b
  BY <1>2
<1> QED  BY ZenonT(60), <1>3, <1>4 DEF T

LEMMA DisjointUnion ==
  ASSUME NEW S, NEW T, IsFiniteSet(S), IsFiniteSet(T), S \cap T = {}
  PROVE  /\ IsFiniteSet(S \cup T)
         /\ Cardinality(S \cup T) = Cardinality(S) + Cardinality(T)
<1>1. /\ IsFiniteSet(S \cup T)
      /\ Cardinality(S \cup T) = Cardinality(S) + Cardinality(T) - Cardinality(S \cap T)
  BY ZenonT(60), FS_Union
<1>2. Cardinality(S \cap T) = 0
  BY ZenonT(60), FS_EmptySet
<1>3. Cardinality(S) \in Nat /\ Cardinality(T) \in Nat
  BY ZenonT(60), FS_CardinalityType
<1> QED  BY <1>1, <1>2, <1>3

LEMMA UnitsFinite ==
  ASSUME NEW f, NEW s, IsFiniteSet(s), \A n \in s : f[n] \in Nat
  PROVE  IsFiniteSet(Units(f, s))
<1> DEFINE column(n) == {n} \X (1 .. f[n])
           columns == {column(n) : n \in s}
           c == [n \in s |-> column(n)]
<1>1. \A n \in s : IsFiniteSet(column(n))
  BY ZenonT(60), ColumnSize
<1> HIDE DEF column
<1>2. c \in Surjection(s, columns)
  BY ZenonT(60) DEF Surjection
<1>3. IsFiniteSet(columns)
  BY <1>2, FS_Surjection
<1>4. IsFiniteSet(UNION columns)
  BY SMTT(60), <1>1, <1>3, FS_UNION
<1> QED  BY <1>4 DEF Units, column

LEMMA UnitsOfOne ==
  ASSUME NEW f, NEW s, IsFiniteSet(s), \A n \in s : f[n] \in Nat, NEW x \in s
  PROVE  Cardinality(Units(f, s)) = f[x] + Cardinality(Units(f, s \ {x}))
<1> DEFINE column == {x} \X (1 .. f[x])
           others == Units(f, s \ {x})
<1>1. IsFiniteSet(column) /\ Cardinality(column) = f[x]
  BY ZenonT(60), ColumnSize
<1>2. IsFiniteSet(others)
  BY FS_RemoveElement, UnitsFinite
<1>3. Units(f, s) = column \cup others /\ column \cap others = {}
  BY DEF Units
<1> HIDE DEF column, others
<1>4. Cardinality(Units(f, s)) = Cardinality(column) + Cardinality(others)
  BY ZenonT(60), <1>1, <1>2, <1>3, DisjointUnion
<1> QED  BY <1>1, <1>4 DEF others

IsSum(f, g) ==
  g = [s \in SUBSET DOMAIN f |->
        IF s = {} THEN 0 ELSE f[CHOOSE x \in s : TRUE] + g[s \ {CHOOSE x \in s : TRUE}]]

LEMMA SumIsFold ==
  ASSUME NEW f
  PROVE  SumFunction(f) = (CHOOSE g : IsSum(f, g))[DOMAIN f]
  BY DEF SumFunction, SumFunctionOnSet, FoldFunctionOnSet, MapThenFoldSet, IsSum

LEMMA SumExists ==
  ASSUME NEW f, IsFiniteSet(DOMAIN f), \A n \in DOMAIN f : f[n] \in Nat
  PROVE  IsSum(f, CHOOSE g : IsSum(f, g))
<1> DEFINE g == [s \in SUBSET DOMAIN f |-> Cardinality(Units(f, s))]
<1>1. ASSUME NEW s \in SUBSET DOMAIN f
      PROVE  g[s] = IF s = {} THEN 0
                    ELSE f[CHOOSE x \in s : TRUE] + g[s \ {CHOOSE x \in s : TRUE}]
  <2>1. CASE s = {}
    BY <2>1, FS_EmptySet DEF Units
  <2>2. CASE s # {}
    <3> DEFINE x == CHOOSE x \in s : TRUE
    <3>1. x \in s
      BY <2>2
    <3> HIDE DEF x
    <3>2. IsFiniteSet(s) /\ \A n \in s : f[n] \in Nat
      BY FS_Subset
    <3>3. Cardinality(Units(f, s)) = f[x] + Cardinality(Units(f, s \ {x}))
      BY <3>1, <3>2, UnitsOfOne
    <3>4. g[s] = f[x] + g[s \ {x}]
      BY <3>3
    <3> QED  BY <2>2, <3>4 DEF x
  <2> QED  BY <2>1, <2>2
<1>2. IsSum(f, g)
  <2>1. \A s \in SUBSET DOMAIN f : g[s] = IF s = {} THEN 0
                    ELSE f[CHOOSE x \in s : TRUE] + g[s \ {CHOOSE x \in s : TRUE}]
    BY ZenonT(60), <1>1
  <2>2. g = [s \in SUBSET DOMAIN f |-> g[s]]
    OBVIOUS
  <2> HIDE DEF g
  <2> QED  BY ZenonT(60), <2>1, <2>2 DEF IsSum
<1> QED  BY ZenonT(60), <1>2

\* A non-empty set of finite sets has one none of whose proper subsets is in it.
LEMMA SmallestSet ==
  ASSUME NEW S, IsFiniteSet(S), NEW Bad \in SUBSET SUBSET S, Bad # {}
  PROVE  \E s \in Bad : \A x \in s : s \ {x} \notin Bad
<1>1. PICK s \in Bad : \A t \in Bad : <<t, s>> \notin StrictSubsetOrdering(S)
  BY ZenonT(60), FS_StrictSubsetOrderingWellFounded, FS_FiniteSubsetsOfFinite, WFMin
<1>2. ASSUME NEW x \in s, s \ {x} \in Bad PROVE FALSE
  <2>1. <<s \ {x}, s>> \in StrictSubsetOrdering(S)
    BY <1>2 DEF StrictSubsetOrdering
  <2> QED  BY ZenonT(60), <1>1, <1>2, <2>1
<1> QED  BY <1>1, <1>2

\* What a fold with + computes is a number of units.
LEMMA SumCountsUnits ==
  ASSUME NEW f, IsFiniteSet(DOMAIN f), \A n \in DOMAIN f : f[n] \in Nat
  PROVE  SumFunction(f) = Cardinality(Units(f, DOMAIN f))
<1> DEFINE g == CHOOSE g : IsSum(f, g)
           Bad == {s \in SUBSET DOMAIN f : g[s] # Cardinality(Units(f, s))}
<1>1. SumFunction(f) = g[DOMAIN f]
  BY ZenonT(60), SumIsFold
<1>2. IsSum(f, g)
  BY ZenonT(60), SumExists
<1> HIDE DEF g
<1>3. ASSUME NEW s \in Bad, \A x \in s : s \ {x} \notin Bad PROVE FALSE
  <2> DEFINE y == CHOOSE x \in s : TRUE
  <2>1. g[s] = IF s = {} THEN 0 ELSE f[y] + g[s \ {y}]
    BY ZenonT(60), <1>2 DEF IsSum
  <2>2. CASE s = {}
    BY <2>1, <2>2, FS_EmptySet DEF Units
  <2>3. CASE s # {}
    <3>1. y \in s
      BY <2>3
    <3> HIDE DEF y
    <3>2. g[s \ {y}] = Cardinality(Units(f, s \ {y}))
      BY <1>3, <3>1
    <3>3. Cardinality(Units(f, s)) = f[y] + Cardinality(Units(f, s \ {y}))
      <4>1. IsFiniteSet(s) /\ \A n \in s : f[n] \in Nat
        BY FS_Subset
      <4> QED  BY SMTT(60), <3>1, <4>1, UnitsOfOne
    <3> QED  BY <2>1, <2>3, <3>2, <3>3
  <2> QED  BY <2>2, <2>3
<1>4. Bad = {}
  <2> HIDE DEF Bad
  <2>1. Bad \in SUBSET SUBSET DOMAIN f
    BY DEF Bad
  <2> QED  BY ZenonT(60), <1>3, <2>1, SmallestSet
<1> QED  BY ZenonT(60), <1>1, <1>4

\* A key reads the number of units its slots hold, whatever entries are present.
LEMMA ReadCountsUnits ==
  ASSUME NEW cm \in CounterMaps(Key, Node), NEW k
  PROVE  CMValueForKey(cm, k)
           = Cardinality(Units([n \in Node |-> Slot(cm, k, n)], Node)) % Modulus
<1> DEFINE f == [n \in Node |-> Slot(cm, k, n)]
<1>1. CASE k \in DOMAIN cm
  <2> DEFINE g == cm[k]
  <2>1. g \in GCounters(Node)
    BY <1>1, CounterMapType
  <2>2. DOMAIN g \subseteq Node /\ \A n \in DOMAIN g : g[n] \in Nat
    BY <2>1, GCounterType
  <2>3. IsFiniteSet(DOMAIN g)
    BY <2>2, ReplicasAssumption, FS_Subset
  <2>4. \A n \in Node : f[n] = IF n \in DOMAIN g THEN g[n] ELSE 0
    BY <1>1 DEF Slot, Count
  <2>5. CMValueForKey(cm, k) = SumFunction(g) % Modulus
    BY <1>1 DEF CMValueForKey, GValue
  <2> HIDE DEF f, g
  <2>6. Units(f, Node) = Units(g, DOMAIN g)
    BY <2>2, <2>4 DEF Units
  <2>7. SumFunction(g) = Cardinality(Units(g, DOMAIN g))
    BY ZenonT(60), <2>2, <2>3, SumCountsUnits
  <2> QED  BY ZenonT(60), <2>5, <2>6, <2>7 DEF f
<1>2. CASE k \notin DOMAIN cm
  <2>1. \A n \in Node : f[n] = 0
    BY <1>2 DEF Slot
  <2> HIDE DEF f
  <2>2. Units(f, Node) = {}
    BY <2>1 DEF Units
  <2>3. Cardinality(Units(f, Node)) % Modulus = 0
    BY <2>2, FS_EmptySet, ModulusAssumption
  <2> QED  BY <1>2, <2>3 DEF CMValueForKey, f
<1> QED  BY <1>1, <1>2

\* Two nodes that merge the same maps in opposite orders end with maps that are
\* below each other and read the same at every key, after restarts and even
\* after counts have wrapped around.
THEOREM MergeOrderIsAlwaysInvisible == Spec => []MergeOrderIsInvisible
<1>1. MapsInv => MergeOrderIsInvisible
  <2> SUFFICES ASSUME MapsInv, NEW a \in Maps, NEW b \in Maps
               PROVE  /\ CMIsIn(CMJoin(a, b), CMJoin(b, a))
                      /\ \A k \in Key : CMValueForKey(CMJoin(a, b), k)
                                        = CMValueForKey(CMJoin(b, a), k)
    BY DEF MergeOrderIsInvisible
  <2>1. a \in CounterMaps(Key, Node) /\ b \in CounterMaps(Key, Node)
    BY DEF MapsInv, Maps
  <2> DEFINE ab == CMJoin(a, b)
             ba == CMJoin(b, a)
  <2>2. ab \in CounterMaps(Key, Node) /\ ba \in CounterMaps(Key, Node)
    BY ZenonT(60), <2>1, CMJoinType
  <2>3. CMIsIn(ab, ba)
    BY ZenonT(60), <2>1, <2>2, ReplicasAssumption, CMJoinIsLub
  <2>4. ASSUME NEW k \in Key
        PROVE  CMValueForKey(ab, k) = CMValueForKey(ba, k)
    <3>1. \A n : Slot(ab, k, n) = IF Slot(b, k, n) > Slot(a, k, n)
                                  THEN Slot(b, k, n) ELSE Slot(a, k, n)
      BY <2>1, MergeSlot DEF CMJoin
    <3>2. \A n : Slot(ba, k, n) = IF Slot(a, k, n) > Slot(b, k, n)
                                  THEN Slot(a, k, n) ELSE Slot(b, k, n)
      BY <2>1, MergeSlot DEF CMJoin
    <3>3. \A n : Slot(a, k, n) \in Nat /\ Slot(b, k, n) \in Nat
      BY <2>1, SlotType
    <3> HIDE DEF ab, ba
    <3>4. \A n : Slot(ab, k, n) = Slot(ba, k, n)
      BY <3>1, <3>2, <3>3
    <3>5. [n \in Node |-> Slot(ab, k, n)] = [n \in Node |-> Slot(ba, k, n)]
      BY <3>4
    <3> QED  BY ZenonT(60), <2>2, <3>5, ReadCountsUnits
  <2> QED  BY <2>3, <2>4
<1> QED  BY <1>1, MapsInit, MapsStep, PTL DEF Spec

-----------------------------------------------------------------------------
(* Merging the maps of all nodes *)

\* g[s] is the merge of the maps c[n] for n in s.
IsFold(c, g) ==
  g = [s \in SUBSET DOMAIN c |->
        IF s = {} THEN CMBottom
        ELSE CMJoin(c[CHOOSE x \in s : TRUE], g[s \ {CHOOSE x \in s : TRUE}])]

\* The merge of all the maps of c.
Merged(c) == FoldFunction(CMJoin, CMBottom, c)

LEMMA MergedIsFold ==
  ASSUME NEW c
  PROVE  Merged(c) = (CHOOSE g : IsFold(c, g))[DOMAIN c]
  BY DEF Merged, FoldFunction, FoldFunctionOnSet, MapThenFoldSet, IsFold

\* The same for the sets of at most i nodes.
FoldUpTo(c, g, i) ==
  g = [s \in {t \in SUBSET DOMAIN c : Cardinality(t) <= i} |->
        IF s = {} THEN CMBottom
        ELSE CMJoin(c[CHOOSE x \in s : TRUE], g[s \ {CHOOSE x \in s : TRUE}])]

LEMMA FoldGrows ==
  ASSUME NEW c, IsFiniteSet(DOMAIN c), NEW i \in Nat, NEW g, FoldUpTo(c, g, i)
  PROVE  \E h : FoldUpTo(c, h, i + 1)
<1> DEFINE Small(j) == {t \in SUBSET DOMAIN c : Cardinality(t) <= j}
           first(s) == CHOOSE x \in s : TRUE
           entry(e, s) == IF s = {} THEN CMBottom ELSE CMJoin(c[first(s)], e[s \ {first(s)}])
           h == [s \in Small(i + 1) |-> entry(g, s)]
<1>1. g = [s \in Small(i) |-> entry(g, s)]
  BY ZenonT(60) DEF FoldUpTo
<1>2. ASSUME NEW s \in Small(i + 1), s # {}
      PROVE  s \ {first(s)} \in Small(i)
  <2>1. first(s) \in s /\ IsFiniteSet(s) /\ Cardinality(s) <= i + 1
    BY <1>2, FS_Subset
  <2> HIDE DEF first
  <2>2. Cardinality(s) \in Nat /\ Cardinality(s \ {first(s)}) = Cardinality(s) - 1
    BY <2>1, FS_CardinalityType, FS_RemoveElement
  <2> QED  BY <2>1, <2>2
<1>3. \A s \in Small(i) : s \in Small(i + 1)
  <2>1. \A s \in SUBSET DOMAIN c : Cardinality(s) \in Nat
    BY FS_Subset, FS_CardinalityType
  <2> QED  BY <2>1
<1> HIDE DEF Small, first
<1>4. \A s \in Small(i) : h[s] = g[s]
  BY ZenonT(60), <1>1, <1>3
<1>5. \A s \in Small(i + 1) : entry(g, s) = entry(h, s)
  BY ZenonT(60), <1>2, <1>4
<1>6. h = [s \in Small(i + 1) |-> entry(h, s)]
  BY ZenonT(60), <1>5
<1> HIDE DEF h
<1>7. FoldUpTo(c, h, i + 1)
  BY ZenonT(60), <1>6 DEF FoldUpTo, Small, first
<1> QED  BY ZenonT(60), <1>7

\* A non-empty set of numbers has one whose predecessor is not in it.
LEMMA SmallestNumber ==
  ASSUME NEW Bad \in SUBSET Nat, Bad # {}
  PROVE  \E i \in Bad : i - 1 \notin Bad
<1>1. PICK i \in Bad : \A j \in Bad : <<j, i>> \notin OpToRel(<, Nat)
  BY ZenonT(60), NatLessThanWellFounded, WFMin
<1>2. ASSUME i - 1 \in Bad PROVE FALSE
  <2>1. i - 1 \in Nat /\ i \in Nat /\ i - 1 < i
    BY <1>2
  <2>2. <<i - 1, i>> \in OpToRel(<, Nat)
    BY <2>1 DEF OpToRel
  <2> QED  BY ZenonT(60), <1>1, <1>2, <2>2
<1> QED  BY ZenonT(60), <1>1, <1>2

LEMMA FoldExists ==
  ASSUME NEW c, IsFiniteSet(DOMAIN c)
  PROVE  IsFold(c, CHOOSE g : IsFold(c, g))
<1> DEFINE Bad == {i \in Nat : ~ \E g : FoldUpTo(c, g, i)}
           N == Cardinality(DOMAIN c)
<1>1. 0 \notin Bad
  <2> DEFINE g == [s \in {t \in SUBSET DOMAIN c : Cardinality(t) <= 0} |-> CMBottom]
  <2>1. \A s \in SUBSET DOMAIN c : Cardinality(s) <= 0 => s = {}
    BY FS_Subset, FS_CardinalityType, FS_EmptySet
  <2>2. FoldUpTo(c, g, 0)
    BY ZenonT(60), <2>1 DEF FoldUpTo
  <2> QED  BY <2>2
<1>2. ASSUME NEW i \in Bad, i - 1 \notin Bad PROVE FALSE
  <2>1. i \in Nat /\ i # 0 /\ ~ \E g : FoldUpTo(c, g, i)
    BY ZenonT(60), <1>1
  <2> DEFINE j == i - 1
  <2>2. j \in Nat /\ j + 1 = i
    BY <2>1
  <2> HIDE DEF j
  <2>3. PICK g : FoldUpTo(c, g, j)
    BY ZenonT(60), <1>2, <2>2 DEF j
  <2> QED  BY ZenonT(60), <2>1, <2>2, <2>3, FoldGrows
<1>3. Bad = {}
  <2> HIDE DEF Bad
  <2>1. Bad \in SUBSET Nat
    BY DEF Bad
  <2> QED  BY ZenonT(60), <1>2, <2>1, SmallestNumber
<1>4. N \in Nat
  BY FS_CardinalityType
<1>5. PICK g : FoldUpTo(c, g, N)
  BY ZenonT(60), <1>3, <1>4
<1>6. {t \in SUBSET DOMAIN c : Cardinality(t) <= N} = SUBSET DOMAIN c
  BY FS_Subset
<1>7. IsFold(c, g)
  BY ZenonT(60), <1>5, <1>6 DEF FoldUpTo, IsFold
<1> QED  BY ZenonT(60), <1>7

\* When every node leads on its own slot, the merge of all maps has exactly the
\* own slots of the nodes.
LEMMA MergedSlots ==
  ASSUME NEW c \in [Node -> CounterMaps(Key, Node)], NEW k,
         \A n, m \in Node : Slot(c[m], k, n) <= Slot(c[n], k, n)
  PROVE  /\ Merged(c) \in CounterMaps(Key, Node)
         /\ \A n \in Node : Slot(Merged(c), k, n) = Slot(c[n], k, n)
<1> DEFINE g == CHOOSE g : IsFold(c, g)
           Good(s) == /\ g[s] \in CounterMaps(Key, Node)
                      /\ \A n \in Node : Slot(g[s], k, n) <= Slot(c[n], k, n)
                      /\ \A n \in s : Slot(g[s], k, n) = Slot(c[n], k, n)
           Bad == {s \in SUBSET Node : ~ Good(s)}
<1>1. IsFiniteSet(Node) /\ DOMAIN c = Node
  BY ReplicasAssumption
<1>2. IsFold(c, g)
  BY ZenonT(60), <1>1, FoldExists
<1>3. Merged(c) = g[Node]
  BY ZenonT(60), <1>1, MergedIsFold
<1> HIDE DEF g
<1>4. \A n, m \in Node : Slot(c[m], k, n) \in Nat
  BY SlotType
<1>5. ASSUME NEW s \in SUBSET Node, \A x \in s : Good(s \ {x})
      PROVE  Good(s)
  <2> DEFINE x == CHOOSE x \in s : TRUE
             rest == g[s \ {x}]
  <2>1. g[s] = IF s = {} THEN CMBottom ELSE CMJoin(c[x], rest)
    BY ZenonT(60), <1>1, <1>2 DEF IsFold
  <2>2. CASE s = {}
    <3>1. CMBottom \in CounterMaps(Key, Node) /\ \A n : Slot(CMBottom, k, n) = 0
      BY ZenonT(60), EmptyMapSlots DEF CMBottom
    <3> QED  BY <1>4, <2>1, <2>2, <3>1
  <2>3. CASE s # {}
    <3>1. x \in s
      BY <2>3
    <3> HIDE DEF x
    <3>2. Good(s \ {x})
      <4> HIDE DEF Good
      <4> QED  BY ZenonT(60), <1>5, <3>1
    <3>3. /\ rest \in CounterMaps(Key, Node)
          /\ \A n \in Node : Slot(rest, k, n) <= Slot(c[n], k, n)
          /\ \A n \in s \ {x} : Slot(rest, k, n) = Slot(c[n], k, n)
      BY SMTT(60), <3>2
    <3>4. g[s] = CMMergeInPlace(c[x], rest) /\ c[x] \in CounterMaps(Key, Node)
      BY SMTT(60), <2>1, <2>3, <3>1 DEF CMJoin
    <3> HIDE DEF rest
    <3>5. /\ g[s] \in CounterMaps(Key, Node)
          /\ \A n : Slot(g[s], k, n) = IF Slot(rest, k, n) > Slot(c[x], k, n)
                                        THEN Slot(rest, k, n) ELSE Slot(c[x], k, n)
      BY <3>3, <3>4, MergeSlot
    <3>6. \A n \in Node : Slot(rest, k, n) \in Nat /\ Slot(c[x], k, n) <= Slot(c[n], k, n)
      BY SMTT(60), <3>1, <3>3, SlotType
    <3>7. \A n \in Node : Slot(g[s], k, n) <= Slot(c[n], k, n)
      BY SMTT(60), <3>3, <3>5, <3>6
    <3>8. \A n \in s : Slot(g[s], k, n) = Slot(c[n], k, n)
      BY <1>4, <3>1, <3>3, <3>5, <3>6
    <3> QED  BY <3>5, <3>7, <3>8
  <2> QED  BY <2>2, <2>3
<1>6. Bad = {}
  <2> HIDE DEF Good
  <2>1. ASSUME NEW s \in Bad, \A x \in s : s \ {x} \notin Bad PROVE FALSE
    <3>1. s \in SUBSET Node /\ \A x \in s : Good(s \ {x})
      BY <2>1
    <3> QED  BY ZenonT(60), <1>5, <3>1
  <2>2. Bad \in SUBSET SUBSET Node
    OBVIOUS
  <2> HIDE DEF Bad
  <2> QED  BY ZenonT(60), <1>1, <2>1, <2>2, SmallestSet
<1>7. Good(Node)
  BY ZenonT(60), <1>6
<1> QED  BY ZenonT(60), <1>3, <1>7

\* The units that the nodes' own slots hold for a key.
Own(k) == Units([n \in Node |-> Slot(counters[n], k, n)], Node)

\* The nodes' own slots of a key add up to what clients added to it.
TotalInv == \A k \in Key : total[k] = Cardinality(Own(k))

LEMMA TotalStep ==
  ASSUME MaxTotal < Modulus, LeadInv, TotalInv, [Next]_vars
  PROVE  TotalInv'
<1>0. \A n, m \in Node, k \in Key : Slot(counters[m], k, n) \in Nat
  BY OwnSlotTypes
<1>1. ASSUME \A n \in Node, k \in Key : Slot(counters'[n], k, n) = Slot(counters[n], k, n),
             total' = total
      PROVE  TotalInv'
  <2>1. ASSUME NEW k \in Key
        PROVE  [n \in Node |-> Slot(counters'[n], k, n)]
                 = [n \in Node |-> Slot(counters[n], k, n)]
    BY <1>1
  <2> QED  BY ZenonT(60), <1>1, <2>1 DEF TotalInv, Own
<1>2. ASSUME NEW n \in Node, NEW k \in Key, NEW v \in Amount, Increment(n, k, v)
      PROVE  TotalInv'
  <2>1. /\ v \in Nat
        /\ counters' \in [Node -> CounterMaps(Key, Node)]
        /\ \A p, m \in Node, l \in Key :
             Slot(counters'[p], l, m)
               = IF p = n /\ l = k /\ m = n THEN Slot(counters[p], l, m) + v
                 ELSE Slot(counters[p], l, m)
        /\ total' \in [Key -> Nat]
        /\ \A l \in Key : total'[l] = IF l = k THEN total[l] + v ELSE total[l]
        /\ UNCHANGED <<nodeIds, wire>>
    BY ZenonT(60), <1>2, IncrementAdds
  <2>2. ASSUME NEW l \in Key
        PROVE  total'[l] = Cardinality(Own(l)')
    <3> DEFINE f == [m \in Node |-> Slot(counters[m], l, m)]
               h == [m \in Node |-> Slot(counters'[m], l, m)]
    <3>1. Own(l) = Units(f, Node) /\ Own(l)' = Units(h, Node)
      BY ZenonT(60) DEF Own
    <3>2. total[l] = Cardinality(Units(f, Node))
      BY ZenonT(60), <3>1 DEF TotalInv
    <3>3. CASE l # k
      <4>1. f = h
        BY <2>1, <3>3
      <4> HIDE DEF f, h
      <4>2. total'[l] = total[l]
        BY <2>1, <3>3
      <4> QED  BY ZenonT(60), <3>1, <3>2, <4>1, <4>2
    <3>4. CASE l = k
      <4>1. /\ \A m \in Node : f[m] \in Nat /\ h[m] \in Nat
            /\ h[n] = f[n] + v
            /\ \A m \in Node \ {n} : h[m] = f[m]
        BY <1>0, <2>1, <3>4
      <4>2. total'[l] = total[l] + v
        BY <2>1, <3>4
      <4> HIDE DEF f, h
      <4>3. Units(h, Node \ {n}) = Units(f, Node \ {n})
        <5>1. {{m} \X (1 .. h[m]) : m \in Node \ {n}} = {{m} \X (1 .. f[m]) : m \in Node \ {n}}
          BY ZenonT(60), <4>1
        <5> QED  BY ZenonT(60), <5>1 DEF Units
      <4>4. IsFiniteSet(Node) /\ IsFiniteSet(Node \ {n})
        BY ReplicasAssumption, FS_RemoveElement
      <4>5. /\ Cardinality(Units(f, Node)) = f[n] + Cardinality(Units(f, Node \ {n}))
            /\ Cardinality(Units(h, Node)) = h[n] + Cardinality(Units(h, Node \ {n}))
        <5>1. (\A m \in Node : f[m] \in Nat) /\ (\A m \in Node : h[m] \in Nat)
          BY ZenonT(60), <4>1
        <5>2. Cardinality(Units(f, Node)) = f[n] + Cardinality(Units(f, Node \ {n}))
          BY ZenonT(60), <4>4, <5>1, UnitsOfOne
        <5>3. Cardinality(Units(h, Node)) = h[n] + Cardinality(Units(h, Node \ {n}))
          BY ZenonT(60), <4>4, <5>1, UnitsOfOne
        <5> QED  BY <5>2, <5>3
      <4>6. Cardinality(Units(f, Node \ {n})) \in Nat
        <5>1. IsFiniteSet(Units(f, Node \ {n}))
          BY SMTT(60), <4>1, <4>4, UnitsFinite
        <5> QED  BY ZenonT(60), <5>1, FS_CardinalityType
      <4>7. Cardinality(Units(h, Node)) = Cardinality(Units(f, Node)) + v
        BY <2>1, <4>1, <4>3, <4>5, <4>6
      <4> QED  BY ZenonT(60), <3>1, <3>2, <4>2, <4>7
    <3> QED  BY <3>3, <3>4
  <2> QED  BY ZenonT(60), <2>2 DEF TotalInv
<1>3. ASSUME NEW n \in Node, NEW m \in Node, Merge(n, m)
      PROVE  TotalInv'
  BY ZenonT(60), <1>1, <1>3, MergeKeepsOwn
<1>4. ASSUME NEW n \in Node, Send(n) \/ Reload(n)
      PROVE  TotalInv'
  BY <1>1, <1>4 DEF Send, Reload
<1>5. CASE UNCHANGED vars
  BY <1>1, <1>5 DEF vars
<1> QED  BY <1>2, <1>3, <1>4, <1>5 DEF Next

LEMMA TotalInit == Init => TotalInv
<1> SUFFICES ASSUME Init, NEW k \in Key
             PROVE  total[k] = Cardinality(Own(k))
  BY DEF TotalInv
<1> DEFINE f == [n \in Node |-> Slot(counters[n], k, n)]
<1>1. \A n \in Node : f[n] = 0
  BY DEF Init, EmptyMap, Slot
<1> HIDE DEF f
<1>2. Units(f, Node) = {}
  BY <1>1 DEF Units
<1>3. Own(k) = {}
  BY ZenonT(60), <1>2 DEF Own, f
<1> QED  BY <1>3, FS_EmptySet DEF Init

\* Once every node has merged every map, each key reads exactly the sum of what
\* clients added to it, for any number of nodes and keys and however copies
\* travelled, as long as no key's increments add up to the modulus of a count.
THEOREM NoIncrementIsDropped ==
  ASSUME MaxTotal < Modulus
  PROVE  Spec => []NoIncrementDropped
<1> DEFINE Bounded == \A k \in Key : total[k] =< MaxTotal
<1>1. Init => LeadInv /\ Bounded
  BY RegularInit, ReplicasAssumption DEF Init
<1>2. LeadInv /\ [Next]_vars => LeadInv'
  BY LeadStep
<1>3. LeadInv /\ Bounded /\ [Next]_vars => Bounded'
  BY ReplicasAssumption
     DEF Next, Increment, Send, Merge, Reload, vars, LeadInv
<1>4. LeadInv /\ TotalInv /\ [Next]_vars => TotalInv'
  BY TotalStep
<1>5. LeadInv /\ Bounded /\ TotalInv => NoIncrementDropped
  <2> SUFFICES ASSUME LeadInv, Bounded, TotalInv, NEW k \in Key
               PROVE  CMValueForKey(Merged(counters), k) = total[k]
    BY ZenonT(60) DEF NoIncrementDropped, Merged
  <2> DEFINE all == Merged(counters)
  <2>1. /\ counters \in [Node -> CounterMaps(Key, Node)]
        /\ \A n, m \in Node : Slot(counters[m], k, n) <= Slot(counters[n], k, n)
    BY DEF LeadInv
  <2>2. /\ all \in CounterMaps(Key, Node)
        /\ \A n \in Node : Slot(all, k, n) = Slot(counters[n], k, n)
    BY ZenonT(60), <2>1, MergedSlots
  <2> HIDE DEF all
  <2>3. [n \in Node |-> Slot(all, k, n)] = [n \in Node |-> Slot(counters[n], k, n)]
    BY <2>2
  <2>4. CMValueForKey(all, k) = total[k] % Modulus
    <3>1. CMValueForKey(all, k)
            = Cardinality(Units([n \in Node |-> Slot(all, k, n)], Node)) % Modulus
      BY ZenonT(60), <2>2, ReadCountsUnits
    <3>2. total[k] = Cardinality(Units([n \in Node |-> Slot(counters[n], k, n)], Node))
      BY ZenonT(60) DEF TotalInv, Own
    <3> QED  BY ZenonT(60), <2>3, <3>1, <3>2
  <2>5. total[k] \in Nat /\ total[k] <= MaxTotal
    BY DEF LeadInv
  <2>6. total[k] % Modulus = total[k]
    BY <2>5, ReplicasAssumption, ModulusAssumption
  <2> QED  BY <2>4, <2>6 DEF all
<1> QED  BY <1>1, <1>2, <1>3, <1>4, <1>5, TotalInit, PTL DEF Spec
=============================================================================
