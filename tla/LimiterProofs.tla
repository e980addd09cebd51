--------------------------- MODULE LimiterProofs ----------------------------
(***************************************************************************)
(* Theorems about module Limiter, for every set of nodes and requests,     *)
(* every rule, and clocks that drift without bound.                        *)
(***************************************************************************)
EXTENDS Limiter, TLAPS

\* Counted and Consumed for clocks f that requests have read.
CountedAt(f, S, key) == {c \in S : BuildKey(WindowStart(f[c])) = key}
ConsumedAt(f, prev, cur, t) ==
  Estimate(Total(CountedAt(f, prev, BuildKey(WindowStart(t) - Window))),
           Total(CountedAt(f, cur, BuildKey(WindowStart(t)))), t)

\* Consumed depends on the variables through now only.
LEMMA ConsumedIsAt ==
  /\ \A S, key : Counted(S, key) = CountedAt(now, S, key)
  /\ \A S, T, t : Consumed(S, T, t) = ConsumedAt(now, S, T, t)
BY DEF Consumed, ConsumedAt, Counted, CountedAt, CurrentKey

\* A larger product has a larger quotient.
LEMMA ProductMonotone == \A p, q, k \in Nat : p <= q => p * k <= q * k
OBVIOUS

LEMMA QuotientMonotone ==
  \A a, b \in Nat, w \in Nat \ {0} : a <= b => a \div w <= b \div w /\ a \div w \in Nat
OBVIOUS

\* The estimate of the sliding window is monotone in both counts, and at least
\* the count of the current window.
LEMMA EstimateMonotone ==
  ASSUME NEW p \in Nat, NEW q \in Nat, NEW a \in Nat, NEW b \in Nat, NEW t \in Nat,
         p <= q, a <= b
  PROVE  /\ Estimate(p, a, t) \in Nat /\ Estimate(p, a, t) >= a
         /\ Estimate(p, a, t) <= Estimate(q, b, t)
<1> DEFINE weight == Window - (t % Window)
<1>1. weight \in Nat /\ Window \in Nat \ {0}
  BY RuleAssumption
<1> HIDE DEF weight
<1>2. p * weight \in Nat /\ q * weight \in Nat /\ p * weight <= q * weight
  BY <1>1, ProductMonotone
<1>3. /\ (p * weight) \div Window <= (q * weight) \div Window
      /\ (p * weight) \div Window \in Nat /\ (q * weight) \div Window \in Nat
  BY <1>1, <1>2, QuotientMonotone
<1>4. /\ Estimate(p, a, t) = (p * weight) \div Window + a
      /\ Estimate(q, b, t) = (q * weight) \div Window + b
  BY DEF Estimate, weight
<1> QED
  BY <1>3, <1>4

\* What is consumed grows with the sets of requests it is computed from.
LEMMA ConsumedMonotone ==
  ASSUME NEW f, NEW S \in SUBSET Check, NEW T \in SUBSET Check,
         NEW P \in SUBSET S, NEW C \in SUBSET T, NEW t \in Nat
  PROVE  /\ ConsumedAt(f, P, C, t) \in Nat
         /\ ConsumedAt(f, P, C, t) <= ConsumedAt(f, S, T, t)
         /\ Total(CountedAt(f, C, BuildKey(WindowStart(t)))) <= ConsumedAt(f, P, C, t)
<1> DEFINE kp == BuildKey(WindowStart(t) - Window)
           kc == BuildKey(WindowStart(t))
<1>1. /\ CountedAt(f, S, kp) \in SUBSET Check /\ CountedAt(f, P, kp) \in SUBSET CountedAt(f, S, kp)
      /\ CountedAt(f, T, kc) \in SUBSET Check /\ CountedAt(f, C, kc) \in SUBSET CountedAt(f, T, kc)
  BY DEF CountedAt
<1>2. /\ Total(CountedAt(f, P, kp)) \in Nat /\ Total(CountedAt(f, S, kp)) \in Nat
      /\ Total(CountedAt(f, P, kp)) <= Total(CountedAt(f, S, kp))
  BY <1>1, TotalAssumption
<1>3. /\ Total(CountedAt(f, C, kc)) \in Nat /\ Total(CountedAt(f, T, kc)) \in Nat
      /\ Total(CountedAt(f, C, kc)) <= Total(CountedAt(f, T, kc))
  BY <1>1, TotalAssumption
<1> QED
  BY ZenonT(60), <1>2, <1>3, EstimateMonotone DEF ConsumedAt

\* It is the same for clocks that agree on those sets.
LEMMA ConsumedSameClock ==
  ASSUME NEW f, NEW g, NEW S, NEW T, NEW t, \A c \in S \cup T : f[c] = g[c]
  PROVE  ConsumedAt(f, S, T, t) = ConsumedAt(g, S, T, t)
<1>1. \A key : CountedAt(f, S, key) = CountedAt(g, S, key) /\ CountedAt(f, T, key) = CountedAt(g, T, key)
  BY DEF CountedAt
<1> QED
  BY <1>1 DEF ConsumedAt
-----------------------------------------------------------------------------
(* The inductive invariant *)

\* The checks that have incremented, and the requests the engine has answered.
Incremented == {c \in Check : pc[c] \in {"waiting", "signalled", "allowed", "exceeded", "unavailable"}}
Settled(r) == pc[r] \in {"signalled", "allowed", "exceeded", "reported"}
OwnBefore(s) == {c \in before[s] : RequestNode[c] = RequestNode[s]}

\* Who has counted what: nothing is counted that has not incremented, the agreed
\* values are a chain, and an answer is one of them.
CountInv ==
  /\ TypeOK
  /\ \A n \in Node : local[n] \subseteq Incremented
  /\ \A v \in agreed : v \subseteq Issued
  /\ \A u, v \in agreed : u \subseteq v \/ v \subseteq u
  /\ \A r \in Request : Settled(r) => result[r] \in agreed /\ result[r] \subseteq local[RequestNode[r]]
  /\ \A c \in Incremented : c \in local[RequestNode[c]]
  /\ \A c \in Check : Settled(c) => c \in result[c]

\* What was answered when a check incremented was answered without it.  A Status
\* that was answered has the checks its node had answered before.
BeforeInv ==
  /\ \A c \in Incremented : \A d \in before[c] : pc[d] \in {"allowed", "exceeded"} /\ c \notin result[d]
  /\ \A s \in Status : pc[s] \in {"waiting", "signalled", "reported"} =>
       OwnBefore(s) \subseteq local[RequestNode[s]]
  /\ \A s \in Status : Settled(s) => OwnBefore(s) \subseteq result[s]

\* The requests allowed in a window are all in one agreed value within the limit.
QuotaInv ==
  \A start \in Int :
    \/ AllowedIn(start) = {}
    \/ \E v \in agreed : /\ AllowedIn(start) \subseteq v
                         /\ Total(CountedAt(now, v, BuildKey(start))) <= Limit

LimiterInv == CountInv /\ BeforeInv /\ QuotaInv /\ AllowedWithinWindow /\ DenialIsDue

LEMMA WindowStartInt == \A t \in Nat : WindowStart(t) \in Int
BY RuleAssumption DEF WindowStart

LEMMA LimiterInit == Init => LimiterInv
<1> SUFFICES ASSUME Init PROVE LimiterInv
  OBVIOUS
<1>1. TypeOK
  BY RuleAssumption DEF Init, TypeOK
<1>2. /\ Incremented = {}
      /\ \A r \in Request : ~Settled(r) /\ pc[r] = "idle"
      /\ \A start \in Int : AllowedIn(start) = {}
  BY DEF Init, Incremented, Settled, AllowedIn, Request
<1>3. CountInv
  BY <1>1, <1>2, RuleAssumption DEF CountInv, Init, Request
<1>4. BeforeInv /\ QuotaInv
  BY <1>2 DEF BeforeInv, QuotaInv, Request
<1>5. AllowedWithinWindow /\ DenialIsDue
  BY <1>2 DEF AllowedWithinWindow, DenialIsDue, Request
<1> QED
  BY <1>3, <1>4, <1>5 DEF LimiterInv

\* What the engine answers is consumed: a natural number.
LEMMA ConsumedNat ==
  ASSUME TypeOK, NEW S \in SUBSET Check, NEW T \in SUBSET Check, NEW t \in Nat
  PROVE  Consumed(S, T, t) \in Nat
BY ConsumedMonotone, ConsumedIsAt

\* The steps of the requests one by one.
LEMMA NextCases ==
  Next <=> \/ \E c \in Check : CheckLocal(c) \/ CheckIncrement(c) \/ CheckReturn(c)
           \/ \E s \in Status : StatusCall(s) \/ StatusReturn(s)
           \/ \E r \in Request : Timeout(r)
           \/ Agree
           \/ \E n \in Node : Tick(n) \/ \E v \in agreed : OnLearn(n, v)
BY DEF Next, HandleCheck, HandleStatus, Request

LEMMA LimiterTypeStep == TypeOK /\ [Next]_vars => TypeOK'
<1> SUFFICES ASSUME TypeOK, [Next]_vars PROVE TypeOK'
  OBVIOUS
<1>1. ASSUME NEW c \in Check, CheckLocal(c) PROVE TypeOK'
  BY <1>1, RuleAssumption DEF TypeOK, CheckLocal, Request
<1>2. ASSUME NEW c \in Check, CheckIncrement(c) PROVE TypeOK'
  BY <1>2, RuleAssumption DEF TypeOK, CheckIncrement, Request, Answered
<1>3. ASSUME NEW c \in Check, CheckReturn(c) PROVE TypeOK'
  BY <1>3 DEF TypeOK, CheckReturn, Request
<1>4. ASSUME NEW s \in Status, StatusCall(s) PROVE TypeOK'
  BY <1>4, RuleAssumption DEF TypeOK, StatusCall, Request, Answered
<1>5. ASSUME NEW s \in Status, StatusReturn(s) PROVE TypeOK'
  <2> DEFINE consumed == Consumed(local[RequestNode[s]], result[s], now[s])
  <2>1. local[RequestNode[s]] \in SUBSET Check /\ result[s] \in SUBSET Check /\ now[s] \in Nat
    BY RuleAssumption DEF TypeOK, Request
  <2>2. consumed \in Nat
    BY <2>1, ConsumedNat
  <2> HIDE DEF consumed
  <2>3. (Limit - consumed) % Modulus \in Nat
    BY <2>2, RuleAssumption
  <2>4. /\ remaining' = [remaining EXCEPT ![s] = (Limit - consumed) % Modulus]
        /\ pc' = [pc EXCEPT ![s] = "reported"]
        /\ UNCHANGED <<clock, now, local, agreed, result, before>>
    BY <1>5 DEF StatusReturn, consumed
  <2> QED
    BY <2>3, <2>4 DEF TypeOK, Request
<1>6. ASSUME NEW r \in Request, Timeout(r) PROVE TypeOK'
  BY <1>6 DEF TypeOK, Timeout, Request
<1>7. ASSUME Agree PROVE TypeOK'
  BY <1>7 DEF TypeOK, Agree, Agreement!Choose, Issued
<1>8. ASSUME NEW n \in Node, NEW v \in agreed, OnLearn(n, v) PROVE TypeOK'
  BY <1>8 DEF TypeOK, OnLearn
<1>9. ASSUME NEW n \in Node, Tick(n) PROVE TypeOK'
  BY <1>9 DEF TypeOK, Tick
<1>10. ASSUME UNCHANGED vars PROVE TypeOK'
  BY <1>10 DEF TypeOK, vars
<1> QED
  BY <1>1, <1>2, <1>3, <1>4, <1>5, <1>6, <1>7, <1>8, <1>9, <1>10, NextCases

\* What a step never takes back.
Kept ==
  /\ agreed \subseteq agreed'
  /\ \A n \in Node : local[n] \subseteq local'[n]
  /\ \A c \in Incremented : c \in Incremented' /\ now'[c] = now[c] /\ before'[c] = before[c]
  /\ \A c \in Check : pc[c] = "refused" => pc'[c] = "refused" /\ now'[c] = now[c]
  /\ \A r \in Request : pc[r] \in {"allowed", "exceeded", "reported"} => pc'[r] = pc[r] /\ result'[r] = result[r]

LEMMA StepKeeps == TypeOK /\ [Next]_vars => Kept
<1> SUFFICES ASSUME TypeOK, [Next]_vars PROVE Kept
  OBVIOUS
<1> USE RuleAssumption
<1>1. ASSUME NEW c \in Check, CheckLocal(c) PROVE Kept
  BY <1>1 DEF Kept, TypeOK, Incremented, Request, CheckLocal
<1>2. ASSUME NEW c \in Check, CheckIncrement(c) PROVE Kept
  BY <1>2 DEF Kept, TypeOK, Incremented, Request, CheckIncrement
<1>3. ASSUME NEW c \in Check, CheckReturn(c) PROVE Kept
  BY <1>3 DEF Kept, TypeOK, Incremented, Request, CheckReturn
<1>4. ASSUME NEW s \in Status, StatusCall(s) PROVE Kept
  BY <1>4 DEF Kept, TypeOK, Incremented, Request, StatusCall
<1>5. ASSUME NEW s \in Status, StatusReturn(s) PROVE Kept
  BY <1>5 DEF Kept, TypeOK, Incremented, Request, StatusReturn
<1>6. ASSUME NEW r \in Request, Timeout(r) PROVE Kept
  BY <1>6 DEF Kept, TypeOK, Incremented, Request, Timeout
<1>7. ASSUME Agree PROVE Kept
  BY <1>7 DEF Kept, TypeOK, Incremented, Request, Agree, Agreement!Choose
<1>8. ASSUME NEW n \in Node, NEW v \in agreed, OnLearn(n, v) PROVE Kept
  BY <1>8 DEF Kept, TypeOK, Incremented, Request, OnLearn
<1>9. ASSUME NEW n \in Node, Tick(n) PROVE Kept
  BY <1>9 DEF Kept, TypeOK, Incremented, Request, Tick
<1>10. ASSUME UNCHANGED vars PROVE Kept
  BY <1>10 DEF Kept, TypeOK, Incremented, Request, vars
<1> QED
  BY <1>1, <1>2, <1>3, <1>4, <1>5, <1>6, <1>7, <1>8, <1>9, <1>10, NextCases

LEMMA CountStep == CountInv /\ [Next]_vars => CountInv'
<1> SUFFICES ASSUME CountInv, [Next]_vars PROVE CountInv'
  OBVIOUS
<1> USE RuleAssumption
<1>0. TypeOK /\ TypeOK'
  BY SMTT(60), LimiterTypeStep DEF CountInv
<1>1. ASSUME NEW c \in Check, CheckLocal(c) PROVE CountInv'
  BY SMTT(60), <1>1, <1>0 DEF CountInv, TypeOK, Incremented, Settled, Issued, Request, CheckLocal
<1>2. ASSUME NEW c \in Check, CheckIncrement(c) PROVE CountInv'
  BY SMTT(60), <1>2, <1>0 DEF CountInv, TypeOK, Incremented, Settled, Issued, Request, CheckIncrement
<1>3. ASSUME NEW c \in Check, CheckReturn(c) PROVE CountInv'
  BY SMTT(60), <1>3, <1>0 DEF CountInv, TypeOK, Incremented, Settled, Issued, Request, CheckReturn
<1>4. ASSUME NEW s \in Status, StatusCall(s) PROVE CountInv'
  BY SMTT(60), <1>4, <1>0 DEF CountInv, TypeOK, Incremented, Settled, Issued, Request, StatusCall
<1>5. ASSUME NEW s \in Status, StatusReturn(s) PROVE CountInv'
  BY <1>5, <1>0 DEF CountInv, TypeOK, Incremented, Settled, Issued, Request, StatusReturn
<1>6. ASSUME NEW r \in Request, Timeout(r) PROVE CountInv'
  BY SMTT(60), <1>6, <1>0 DEF CountInv, TypeOK, Incremented, Settled, Issued, Request, Timeout
<1>7. ASSUME Agree PROVE CountInv'
  <2>1. PICK v \in SUBSET Issued : /\ \A w \in agreed : v \subseteq w \/ w \subseteq v
                                   /\ agreed' = agreed \cup {v}
    BY ZenonT(60), <1>7 DEF Agree, Agreement!Choose, Contained
  <2>2. UNCHANGED <<pc, local, result>>
    BY <1>7 DEF Agree
  <2>3. \A u \in agreed' : u \subseteq Issued'
    BY <2>1, <2>2 DEF CountInv, Issued
  <2>4. \A u, w \in agreed' : u \subseteq w \/ w \subseteq u
    BY <2>1 DEF CountInv
  <2> QED
    BY <1>0, <2>1, <2>2, <2>3, <2>4 DEF CountInv, Incremented, Settled
<1>8. ASSUME NEW n \in Node, NEW v \in agreed, OnLearn(n, v) PROVE CountInv'
  <2> DEFINE merged == local[n] \cup v
             answered == {r \in Request : RequestNode[r] = n /\ pc[r] = "waiting" /\ merged \subseteq v}
  <2>1. /\ local' = [local EXCEPT ![n] = merged]
        /\ pc' = [r \in Request |-> IF r \in answered THEN "signalled" ELSE pc[r]]
        /\ result' = [r \in Request |-> IF r \in answered THEN merged ELSE result[r]]
        /\ UNCHANGED agreed
    BY <1>8 DEF OnLearn
  <2>2. Incremented' = Incremented
    BY <1>0, <2>1 DEF Incremented, Request, TypeOK
  <2>3. v \subseteq Incremented /\ Issued' = Issued /\ \A m \in Node : local[m] \subseteq local'[m]
    BY <1>0, <2>1 DEF CountInv, Issued, TypeOK
  <2>4. \A m \in Node : local'[m] \subseteq Incremented'
    BY <1>0, <2>1, <2>2, <2>3 DEF CountInv, TypeOK
  <2>5. ASSUME NEW r \in Request, Settled(r)'
        PROVE  /\ result'[r] \in agreed' /\ result'[r] \subseteq local'[RequestNode[r]]
               /\ r \in Check => r \in result'[r]
    <3>1. CASE r \in answered
      <4>1. result'[r] = merged /\ merged = v /\ RequestNode[r] = n /\ pc[r] = "waiting" /\ local'[n] = merged
        BY <1>0, <2>1, <3>1 DEF TypeOK
      <4>2. r \in Check => r \in local[n]
        BY <4>1 DEF CountInv, Incremented
      <4> QED
        BY ZenonT(60), <2>1, <4>1, <4>2
    <3>2. CASE r \notin answered
      <4>1. pc'[r] = pc[r] /\ result'[r] = result[r] /\ Settled(r) /\ RequestNode[r] \in Node
        BY <2>1, <2>5, <3>2 DEF Settled
      <4> QED
        BY <2>1, <2>3, <4>1 DEF CountInv
    <3> QED
      BY <3>1, <3>2
  <2>6. \A c \in Incremented' : c \in local'[RequestNode[c]]
    <3>1. \A c \in Incremented : c \in local[RequestNode[c]] /\ RequestNode[c] \in Node
      BY DEF CountInv, Incremented, Request
    <3> QED
      BY <2>2, <2>3, <3>1
  <2>7. \A u \in agreed' : u \subseteq Issued'
    BY <2>1, <2>3 DEF CountInv
  <2>8. \A u, w \in agreed' : u \subseteq w \/ w \subseteq u
    BY SMTT(60), <2>1 DEF CountInv
  <2> HIDE DEF merged, answered
  <2> QED
    BY <1>0, <2>4, <2>5, <2>6, <2>7, <2>8 DEF CountInv, Request
<1>9. ASSUME NEW n \in Node, Tick(n) PROVE CountInv'
  BY SMTT(60), <1>9, <1>0 DEF CountInv, TypeOK, Incremented, Settled, Issued, Request, Tick
<1>10. ASSUME UNCHANGED vars PROVE CountInv'
  BY <1>10, <1>0 DEF CountInv, TypeOK, Incremented, Settled, Issued, Request, vars
<1> QED
  BY <1>1, <1>2, <1>3, <1>4, <1>5, <1>6, <1>7, <1>8, <1>9, <1>10, NextCases

\* A step of one request moves no other.
LEMMA OthersStay ==
  ASSUME TypeOK, NEW r \in Request
  PROVE  /\ \A c \in Check : CheckLocal(c) => IF c = r THEN pc'[r] \in {"refused", "counting"} ELSE pc'[r] = pc[r]
         /\ \A c \in Check : CheckIncrement(c) => IF c = r THEN pc'[r] = "waiting" ELSE pc'[r] = pc[r]
         /\ \A c \in Check : CheckReturn(c) => IF c = r THEN pc'[r] \in {"allowed", "exceeded"} ELSE pc'[r] = pc[r]
         /\ \A s \in Status : StatusCall(s) => IF s = r THEN pc'[r] = "waiting" ELSE pc'[r] = pc[r]
         /\ \A s \in Status : StatusReturn(s) => IF s = r THEN pc'[r] = "reported" ELSE pc'[r] = pc[r]
         /\ \A x \in Request : Timeout(x) => IF x = r THEN pc'[r] = "unavailable" ELSE pc'[r] = pc[r]
<1>1. \A c \in Check : CheckLocal(c) =>
        \E x \in {"refused", "counting"} : pc' = [pc EXCEPT ![c] = x]
  BY ZenonT(60) DEF CheckLocal
<1>2. \A c \in Check : CheckIncrement(c) => pc' = [pc EXCEPT ![c] = "waiting"]
  BY DEF CheckIncrement
<1>3. \A c \in Check : CheckReturn(c) =>
        \E x \in {"allowed", "exceeded"} : pc' = [pc EXCEPT ![c] = x]
  BY ZenonT(60) DEF CheckReturn
<1>4. \A s \in Status : StatusCall(s) => pc' = [pc EXCEPT ![s] = "waiting"]
  BY DEF StatusCall
<1>5. \A s \in Status : StatusReturn(s) => pc' = [pc EXCEPT ![s] = "reported"]
  BY DEF StatusReturn
<1>6. \A x \in Request : Timeout(x) => pc' = [pc EXCEPT ![x] = "unavailable"]
  BY DEF Timeout
<1> QED
  BY <1>1, <1>2, <1>3, <1>4, <1>5, <1>6 DEF TypeOK

LEMMA BeforeStep == CountInv /\ BeforeInv /\ [Next]_vars => BeforeInv'
<1> SUFFICES ASSUME CountInv, BeforeInv, [Next]_vars PROVE BeforeInv'
  OBVIOUS
<1>0. TypeOK /\ TypeOK' /\ CountInv' /\ Kept
  BY CountStep, StepKeeps DEF CountInv
<1> USE RuleAssumption
<1>1. ASSUME NEW c \in Incremented', NEW d \in before'[c]
      PROVE  pc'[d] \in {"allowed", "exceeded"} /\ c \notin result'[d]
  <2>1. CASE c \in Incremented
    BY ZenonT(60), <1>0, <1>1, <2>1 DEF Kept, BeforeInv, TypeOK, Incremented, Request
  <2>2. CASE c \notin Incremented
    <3>1. CheckIncrement(c) /\ c \in Check
      <4>1. c \in Check /\ pc[c] # pc'[c] /\ pc[c] # "waiting" /\ pc[c] # "signalled" /\ c \notin Status
        BY <1>1, <2>2 DEF Incremented
      <4>2. pc'[c] \in {"waiting", "signalled", "allowed", "exceeded", "unavailable"}
        BY <1>1 DEF Incremented
      <4>3. \A n \in Node, v \in agreed : OnLearn(n, v) => pc'[c] = pc[c]
        BY <1>0, <4>1 DEF OnLearn, Request
      <4>4. (Agree => pc' = pc) /\ \A n \in Node : Tick(n) => pc' = pc
        BY DEF Agree, Tick
      <4>5. \A x \in Check : CheckReturn(x) => pc[x] = "signalled"
        BY DEF CheckReturn
      <4>6. \A x \in Request : Timeout(x) => pc[x] \in {"waiting", "signalled"}
        BY DEF Timeout
      <4> QED
        BY <1>0, <4>1, <4>2, <4>3, <4>4, <4>5, <4>6, OthersStay, NextCases DEF vars, Request
    <3>2. before'[c] = Answered /\ result' = result
      BY <1>0, <3>1 DEF CheckIncrement, TypeOK, Request
    <3>3. d \in Check /\ pc[d] \in {"allowed", "exceeded"} /\ Settled(d)
      BY <1>1, <3>2 DEF Answered, Settled
    <3>4. result[d] \subseteq Incremented
      BY ZenonT(60), <3>3 DEF CountInv, Request
    <3> QED
      BY ZenonT(60), <1>0, <2>2, <3>2, <3>3, <3>4 DEF Kept, Request
  <2> QED
    BY <2>1, <2>2
<1> DEFINE Own(s) == /\ pc[s] \in {"waiting", "signalled", "reported"} => OwnBefore(s) \subseteq local[RequestNode[s]]
                     /\ Settled(s) => OwnBefore(s) \subseteq result[s]
<1>2. ASSUME NEW s \in Status PROVE Own(s)'
  <2>0. /\ s \in Request /\ s \notin Check /\ RequestNode[s] \in Node /\ Own(s)
        /\ local[RequestNode[s]] \subseteq local'[RequestNode[s]]
    BY SMTT(60), <1>0 DEF BeforeInv, Request, Kept
  <2>1. ASSUME NEW c \in Check, CheckLocal(c) \/ CheckIncrement(c) \/ CheckReturn(c) PROVE Own(s)'
    <3>1. pc'[s] = pc[s] /\ before'[s] = before[s] /\ result' = result
      BY <1>0, <2>0, <2>1 DEF CheckLocal, CheckIncrement, CheckReturn, TypeOK
    <3>2. OwnBefore(s)' = OwnBefore(s) /\ Settled(s)' = Settled(s)
      BY <3>1 DEF OwnBefore, Settled
    <3> QED
      BY SMTT(60), <2>0, <3>1, <3>2
  <2>2. ASSUME NEW x \in Status, StatusCall(x) PROVE Own(s)'
    <3>1. CASE x = s
      <4>1. before'[s] = Answered /\ pc'[s] = "waiting" /\ local' = local
        BY <1>0, <2>0, <2>2, <3>1 DEF StatusCall, TypeOK
      <4>2. Answered \subseteq Incremented
        BY SMTT(60) DEF Answered, Incremented
      <4> QED
        BY <4>1, <4>2 DEF OwnBefore, Settled, CountInv
    <3>2. CASE x # s
      BY SMTT(60), <1>0, <2>0, <2>2, <3>2 DEF StatusCall, TypeOK, OwnBefore, Settled
    <3> QED
      BY <3>1, <3>2
  <2>3. ASSUME NEW x \in Status, StatusReturn(x) PROVE Own(s)'
    BY <1>0, <2>0, <2>3 DEF StatusReturn, TypeOK, OwnBefore, Settled
  <2>4. ASSUME NEW r \in Request, Timeout(r) PROVE Own(s)'
    BY SMTT(60), <1>0, <2>0, <2>4 DEF Timeout, TypeOK, OwnBefore, Settled
  <2>5. ASSUME Agree \/ (\E n \in Node : Tick(n)) \/ UNCHANGED vars PROVE Own(s)'
    BY SMTT(60), <2>0, <2>5 DEF Agree, Tick, vars, OwnBefore, Settled
  <2>6. ASSUME NEW n \in Node, NEW v \in agreed, OnLearn(n, v) PROVE Own(s)'
    <3>1. before' = before /\ OwnBefore(s)' = OwnBefore(s)
      BY <2>6 DEF OnLearn, OwnBefore
    <3>2. CASE pc'[s] = pc[s] /\ result'[s] = result[s]
      BY <2>0, <3>1, <3>2 DEF Settled
    <3>3. CASE ~(pc'[s] = pc[s] /\ result'[s] = result[s])
      <4>1. pc[s] = "waiting" /\ RequestNode[s] = n /\ result'[s] = local[n] \cup v /\ local'[n] = local[n] \cup v
        BY <1>0, <2>0, <2>6, <3>3 DEF OnLearn, TypeOK
      <4>2. OwnBefore(s)' \subseteq local'[RequestNode[s]] /\ OwnBefore(s)' \subseteq result'[s]
        BY <2>0, <3>1, <4>1
      <4> QED
        BY SMTT(60), <4>2
    <3> QED
      BY <3>2, <3>3
  <2> QED
    BY ZenonT(60), <2>1, <2>2, <2>3, <2>4, <2>5, <2>6, NextCases
<1>3. /\ \A s \in Status : pc'[s] \in {"waiting", "signalled", "reported"} => OwnBefore(s)' \subseteq local'[RequestNode[s]]
      /\ \A s \in Status : Settled(s)' => OwnBefore(s)' \subseteq result'[s]
  BY <1>2
<1> QED
  BY <1>1, <1>3 DEF BeforeInv

\* Allowed and denied requests were so by the counts of that moment.
LEMMA DecisionStep ==
  LimiterInv /\ [Next]_vars => QuotaInv' /\ AllowedWithinWindow' /\ DenialIsDue'
<1> SUFFICES ASSUME LimiterInv, [Next]_vars PROVE QuotaInv' /\ AllowedWithinWindow' /\ DenialIsDue'
  BY SMTT(60)
<1>0. /\ TypeOK /\ CountInv /\ BeforeInv /\ QuotaInv /\ AllowedWithinWindow /\ DenialIsDue
      /\ TypeOK' /\ CountInv' /\ BeforeInv' /\ Kept
  BY ZenonT(60), CountStep, BeforeStep, StepKeeps DEF LimiterInv, CountInv
<1> USE RuleAssumption
<1>1. /\ Issued \subseteq Incremented /\ Issued \subseteq Issued' /\ Issued' \subseteq Check
      /\ Incremented \subseteq Check
      /\ \A c \in Incremented : now'[c] = now[c]
  BY SMTT(60), <1>0 DEF CountInv, Issued, Incremented, Kept
\* A check that is newly decided was decided by CheckLocal or CheckReturn.
<1>2. ASSUME NEW c \in Check, pc'[c] \in {"allowed", "exceeded", "refused"}, pc'[c] # pc[c]
      PROVE  CheckLocal(c) \/ CheckReturn(c)
  <2>1. (Agree => pc' = pc) /\ \A n \in Node : Tick(n) => pc' = pc
    BY DEF Agree, Tick
  <2>2. \A n \in Node, v \in agreed : OnLearn(n, v) => pc'[c] \in {pc[c], "signalled"}
    BY DEF OnLearn, Request
  <2> QED
    BY <1>0, <1>2, <2>1, <2>2, OthersStay, NextCases DEF vars, Request
<1>3. ASSUME NEW c \in Check, pc'[c] \in {"refused", "exceeded"}
      PROVE  Consumed(Issued, Issued, now[c])' >= Limit
  <2> DEFINE n == RequestNode[c]
  <2>1. PICK t \in Nat : t = now'[c]
    BY <1>0 DEF TypeOK, Request
  <2>2. ASSUME NEW P \in SUBSET Issued, NEW C \in SUBSET Issued, Consumed(P, C, t) >= Limit
        PROVE  Consumed(Issued, Issued, now[c])' >= Limit
    <3>1. ConsumedAt(now, P, C, t) = ConsumedAt(now', P, C, t)
      BY <1>1, ConsumedSameClock
    <3>2. /\ ConsumedAt(now', P, C, t) \in Nat
          /\ ConsumedAt(now', P, C, t) <= ConsumedAt(now', Issued', Issued', t)
          /\ ConsumedAt(now', Issued', Issued', t) \in Nat
      <4>1. P \in SUBSET (Issued') /\ C \in SUBSET (Issued') /\ Issued' \in SUBSET Check
        BY <1>1
      <4> QED
        BY <4>1, ConsumedMonotone
    <3>3. Consumed(Issued, Issued, now[c])' = ConsumedAt(now', Issued', Issued', t)
      BY <2>1 DEF Consumed, ConsumedAt, Counted, CountedAt, CurrentKey
    <3> QED
      BY <2>2, <3>1, <3>2, <3>3, ConsumedIsAt
  <2>3. CASE pc'[c] = pc[c]
    <3>1. now'[c] = now[c] /\ Consumed(Issued, Issued, now[c]) >= Limit
      BY <1>0, <1>3, <2>3 DEF Kept, DenialIsDue, Incremented
    <3> QED
      BY SMTT(60), <2>1, <2>2, <3>1
  <2>4. CASE pc'[c] # pc[c]
    <3>1. n \in Node /\ local[n] \in SUBSET Issued
      BY SMTT(60) DEF Request, Issued
    <3>2. CASE CheckLocal(c)
      <4>1. clock[n] = now'[c] /\ Consumed(local[n], local[n], clock[n]) >= Limit
        BY SMTT(60), <1>0, <1>3, <3>2 DEF CheckLocal, TypeOK, Request
      <4> QED
        BY SMTT(60), <2>1, <2>2, <3>1, <4>1
    <3>3. CASE CheckReturn(c)
      <4>1. now' = now /\ pc'[c] = "exceeded" /\ ~(Consumed(local[n], result[c], now[c]) <= Limit) /\ Settled(c)
        BY ZenonT(60), <1>0, <1>3, <3>3 DEF CheckReturn, TypeOK, Request, Settled
      <4>2. result[c] \in SUBSET Issued /\ result[c] \in SUBSET Check /\ local[n] \in SUBSET Check
        BY SMTT(60), <1>0, <3>1, <4>1 DEF CountInv, Request, TypeOK
      <4>3. Consumed(local[n], result[c], t) \in Nat
        BY ZenonT(60), <1>0, <4>2, ConsumedNat
      <4>4. Consumed(local[n], result[c], t) >= Limit
        BY SMTT(60), <2>1, <4>1, <4>3
      <4> QED
        BY SMTT(60), <2>2, <3>1, <4>2, <4>4
    <3> QED
      BY <1>2, <1>3, <2>4, <3>2, <3>3
  <2> QED
    BY <2>3, <2>4
\* A check that is newly allowed has an agreed answer within the limit.
<1>4. ASSUME NEW c \in Check, pc'[c] = "allowed", pc'[c] # pc[c]
      PROVE  /\ UNCHANGED <<now, agreed, before, local, result>> /\ result[c] \in agreed /\ c \in result[c]
             /\ result[c] \in SUBSET local[RequestNode[c]] /\ local[RequestNode[c]] \in SUBSET Check
             /\ ConsumedAt(now, local[RequestNode[c]], result[c], now[c]) <= Limit
             /\ now[c] \in Nat
             /\ \A x \in Check : x # c => pc'[x] = pc[x]
  <2>1. CheckReturn(c)
    <3>1. CheckLocal(c) => pc'[c] # "allowed"
      BY SMTT(60), <1>0 DEF CheckLocal, TypeOK, Request
    <3> QED
      BY SMTT(60), <1>2, <1>4, <3>1
  <2>2. Settled(c) /\ Consumed(local[RequestNode[c]], result[c], now[c]) <= Limit
    BY ZenonT(60), <1>0, <1>4, <2>1 DEF CheckReturn, TypeOK, Request, Settled
  <2>3. UNCHANGED <<now, agreed, before, local, result>>
    BY ZenonT(60), <2>1 DEF CheckReturn
  <2>4. \A x \in Check : x # c => pc'[x] = pc[x]
    BY SMTT(60), <1>0, <2>1, OthersStay DEF Request
  <2> QED
    BY <1>0, <2>2, <2>3, <2>4, ConsumedIsAt DEF CountInv, TypeOK, Request
<1>5. ASSUME NEW c \in Check, pc'[c] = "allowed"
      PROVE  Consumed(before[c], before[c] \cup {c}, now[c])' <= Limit
  <2>0. Consumed(before[c], before[c] \cup {c}, now[c])'
          = ConsumedAt(now', before'[c], before'[c] \cup {c}, now'[c])
    BY ZenonT(60) DEF Consumed, ConsumedAt, Counted, CountedAt, CurrentKey
  <2>1. CASE pc[c] = "allowed"
    <3>1. c \in Incremented /\ before'[c] = before[c] /\ now'[c] = now[c]
      BY SMTT(60), <1>0, <2>1 DEF Incremented, Kept
    <3>2. before[c] \cup {c} \subseteq Incremented
      BY SMTT(60), <1>0, <3>1 DEF BeforeInv, TypeOK, Incremented, Request
    <3>3. ConsumedAt(now', before[c], before[c] \cup {c}, now[c]) = ConsumedAt(now, before[c], before[c] \cup {c}, now[c])
      BY SMTT(60), <1>1, <3>2, ConsumedSameClock
    <3> QED
      BY SMTT(60), <1>0, <2>0, <2>1, <3>1, <3>3, ConsumedIsAt DEF AllowedWithinWindow
  <2>2. CASE pc[c] # "allowed"
    <3>1. before' = before /\ now' = now /\ c \in result[c] /\ result[c] \in agreed
      BY ZenonT(60), <1>4, <1>5, <2>2
    <3>2. before[c] \in SUBSET result[c]
      <4>1. SUFFICES ASSUME NEW d \in before[c] PROVE d \in result[c]
        OBVIOUS
      <4>2. c \in Incremented' /\ before'[c] = before[c] /\ pc'[d] \in {"allowed", "exceeded"} /\ c \notin result'[d]
        BY SMTT(60), <1>0, <1>5, <3>1 DEF BeforeInv, Incremented
      <4>3. d \in Check /\ Settled(d)' /\ result'[d] \in agreed' /\ d \in result'[d]
        BY <1>0, <4>2 DEF CountInv, TypeOK, Settled, Request
      <4>4. result' = result /\ agreed' = agreed
        BY ZenonT(60), <1>4, <1>5, <2>2
      <4>5. result[d] \subseteq result[c] \/ result[c] \subseteq result[d]
        BY SMTT(60), <1>0, <3>1, <4>3, <4>4 DEF CountInv
      <4> QED
        BY <3>1, <4>2, <4>3, <4>4, <4>5
    <3>3. /\ before[c] \in SUBSET local[RequestNode[c]] /\ before[c] \cup {c} \in SUBSET result[c]
          /\ local[RequestNode[c]] \in SUBSET Check /\ result[c] \in SUBSET Check
          /\ now[c] \in Nat
      BY ZenonT(60), <1>4, <1>5, <2>2, <3>1, <3>2
    <3>4. /\ ConsumedAt(now, before[c], before[c] \cup {c}, now[c]) \in Nat
          /\ ConsumedAt(now, local[RequestNode[c]], result[c], now[c]) \in Nat
          /\ ConsumedAt(now, before[c], before[c] \cup {c}, now[c])
               <= ConsumedAt(now, local[RequestNode[c]], result[c], now[c])
      BY <3>3, ConsumedMonotone
    <3>5. ConsumedAt(now, local[RequestNode[c]], result[c], now[c]) <= Limit
      BY ZenonT(60), <1>4, <1>5, <2>2
    <3>6. ConsumedAt(now, before[c], before[c] \cup {c}, now[c]) <= Limit
      BY <3>4, <3>5
    <3> QED
      BY SMTT(60), <2>0, <3>1, <3>6
  <2> QED
    BY SMTT(60), <2>1, <2>2
<1>6. ASSUME NEW start \in Int, AllowedIn(start)' # {}
      PROVE  \E v \in agreed' : /\ AllowedIn(start)' \subseteq v
                                /\ Total(CountedAt(now', v, BuildKey(start))) <= Limit
  <2>1. \A v \in agreed : v \in agreed' /\ CountedAt(now', v, BuildKey(start)) = CountedAt(now, v, BuildKey(start))
    <3>1. \A v \in agreed : v \in agreed' /\ v \subseteq Incremented
      BY <1>0, <1>1 DEF Kept, CountInv
    <3>2. ASSUME NEW v \in agreed PROVE CountedAt(now', v, BuildKey(start)) = CountedAt(now, v, BuildKey(start))
      <4>1. \A c \in v \cup v : now'[c] = now[c]
        BY <1>1, <3>1
      <4> QED
        BY <4>1 DEF CountedAt
    <3> QED
      BY SMTT(60), <3>1, <3>2
  <2>2. CASE AllowedIn(start)' \subseteq AllowedIn(start)
    BY <1>0, <1>6, <2>1, <2>2 DEF QuotaInv
  <2>3. CASE ~(AllowedIn(start)' \subseteq AllowedIn(start))
    <3>1. PICK c \in Check : pc'[c] = "allowed" /\ pc'[c] # pc[c] /\ WindowStart(now'[c]) = start
      BY SMTT(60), <1>0, <2>3 DEF AllowedIn, Kept, Incremented
    <3>2. /\ AllowedIn(start)' \subseteq AllowedIn(start) \cup {c} /\ UNCHANGED <<now, agreed>>
          /\ result[c] \in agreed /\ c \in result[c] /\ result[c] \in SUBSET Check
      BY ZenonT(60), <1>4, <3>1 DEF AllowedIn
    <3>3. Total(CountedAt(now, result[c], BuildKey(start))) <= Limit
      <4>1. /\ Total(CountedAt(now, result[c], BuildKey(start)))
                 <= ConsumedAt(now, local[RequestNode[c]], result[c], now[c])
            /\ ConsumedAt(now, local[RequestNode[c]], result[c], now[c]) \in Nat
        BY ZenonT(60), <1>4, <3>1, <3>2, ConsumedMonotone
      <4>2. Total(CountedAt(now, result[c], BuildKey(start))) \in Nat
        BY <3>2, TotalAssumption DEF CountedAt
      <4>3. ConsumedAt(now, local[RequestNode[c]], result[c], now[c]) <= Limit
        BY ZenonT(60), <1>4, <3>1
      <4> QED
        BY <4>1, <4>2, <4>3
    <3>4. CASE AllowedIn(start) = {}
      BY <3>2, <3>3, <3>4
    <3>5. CASE AllowedIn(start) # {}
      <4>1. PICK v \in agreed : AllowedIn(start) \subseteq v /\ Total(CountedAt(now, v, BuildKey(start))) <= Limit
        BY SMTT(60), <1>0, <3>5 DEF QuotaInv
      <4>2. v \subseteq result[c] \/ result[c] \subseteq v
        BY <1>0, <3>2 DEF CountInv
      <4> QED
        BY <3>2, <3>3, <4>1, <4>2
    <3> QED
      BY SMTT(60), <3>4, <3>5
  <2> QED
    BY <2>2, <2>3
<1>7. QuotaInv'
  BY <1>6 DEF QuotaInv
<1> QED
  BY <1>3, <1>5, <1>7 DEF AllowedWithinWindow, DenialIsDue

LEMMA LimiterInvariant == Spec => []LimiterInv
<1>1. LimiterInv /\ [Next]_vars => LimiterInv'
  BY CountStep, BeforeStep, DecisionStep DEF LimiterInv
<1> QED
  BY LimiterInit, <1>1, PTL DEF Spec
-----------------------------------------------------------------------------
(* The theorems *)

\* Requests, clocks and counters have their types throughout.
THEOREM LimiterTypeCorrect == Spec => []TypeOK
<1>1. LimiterInv => TypeOK
  BY DEF LimiterInv, CountInv
<1> QED
  BY <1>1, LimiterInvariant, PTL

\* The requests Check allows in one window stay within the limit together, on
\* however many nodes they are checked, if the values of the engine are a chain.
THEOREM LimitIsKept == Spec => []LimitHolds
<1>1. LimiterInv => LimitHolds
  <2> SUFFICES ASSUME LimiterInv, NEW c \in Check PROVE Total(AllowedIn(WindowStart(now[c]))) <= Limit
    BY SMTT(60) DEF LimitHolds
  <2> DEFINE start == WindowStart(now[c])
  <2>1. TypeOK /\ QuotaInv /\ start \in Int
    BY WindowStartInt DEF LimiterInv, CountInv, TypeOK, Request
  <2>2. CASE AllowedIn(start) = {}
    BY SMTT(60), <2>2, TotalAssumption, RuleAssumption
  <2>3. CASE AllowedIn(start) # {}
    <3>1. PICK v \in agreed : AllowedIn(start) \subseteq v /\ Total(CountedAt(now, v, BuildKey(start))) <= Limit
      BY SMTT(60), <2>1, <2>3 DEF QuotaInv
    <3>2. /\ CountedAt(now, v, BuildKey(start)) \in SUBSET Check
          /\ AllowedIn(start) \in SUBSET CountedAt(now, v, BuildKey(start))
      BY <2>1, <3>1 DEF CountedAt, AllowedIn, TypeOK
    <3>3. /\ Total(AllowedIn(start)) \in Nat /\ Total(CountedAt(now, v, BuildKey(start))) \in Nat
          /\ Total(AllowedIn(start)) <= Total(CountedAt(now, v, BuildKey(start)))
      BY <3>2, TotalAssumption
    <3> QED
      BY <3>1, <3>3, RuleAssumption
  <2> QED
    BY <2>2, <2>3
<1> QED
  BY <1>1, LimiterInvariant, PTL

\* A check is allowed only if the requests answered before it and its own fit
\* into the sliding window, although Check reads the previous window locally.
THEOREM AllowedFitsWindow == Spec => []AllowedWithinWindow
<1>1. LimiterInv => AllowedWithinWindow
  BY DEF LimiterInv
<1> QED
  BY <1>1, LimiterInvariant, PTL

\* No request is denied that the requests counted leave room for.
THEOREM DenialIsAlwaysDue == Spec => []DenialIsDue
<1>1. LimiterInv => DenialIsDue
  BY DEF LimiterInv
<1> QED
  BY <1>1, LimiterInvariant, PTL

\* Status knows what its own node answered.
THEOREM StatusKnowsOwnNode == Spec => []StatusSeesOwnNode
<1>1. LimiterInv => StatusSeesOwnNode
  BY DEF LimiterInv, BeforeInv, StatusSeesOwnNode, OwnBefore, Settled
<1> QED
  BY <1>1, LimiterInvariant, PTL
=============================================================================
