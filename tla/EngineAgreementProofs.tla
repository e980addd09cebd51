----------------------- MODULE EngineAgreementProofs ------------------------
(***************************************************************************)
(* What clients of Engine are promised, from what the protocol guarantees  *)
(* below it, for every cluster, lattice and set of operations.             *)
(***************************************************************************)
EXTENDS EngineProofs, LatticeAgreementProofs

-----------------------------------------------------------------------------
(* The engine takes steps of the protocol *)

\* What the engine proposes is the local counters or a copy of them.
LEMMA EngineProposes ==
  ASSUME [EngineNext]_allVars
  PROVE  \/ \E n \in Up : \E v \in flushing[n] \cup {local[n]} : Propose(n, v)
         \/ \E m \in BagToSet(net) : Handle(m) \/ Lose(m)
         \/ UNCHANGED vars
<1>1. \A op \in Op : Call(op) \/ Return(op) \/ Timeout(op) => UNCHANGED vars
  BY ZenonT(60) DEF Call, Return, Timeout
<1>2. \A n \in Up : FlushCapture(n) \/ SyncReturn(n) \/ SyncTimeout(n) => UNCHANGED vars
  BY ZenonT(60) DEF FlushCapture, SyncReturn, SyncTimeout
<1>3. \A n \in Up : FlushPropose(n) \/ SyncPropose(n) =>
        \E v \in flushing[n] \cup {local[n]} : Propose(n, v)
  BY ZenonT(60) DEF FlushPropose, SyncPropose
<1>4. \A m \in BagToSet(net) : Vote(m) \/ Learn(m) \/ Drop(m) => Handle(m) \/ Lose(m)
  BY ZenonT(60) DEF Vote, Learn, Drop, Handle
<1>5. \A c \in BagToSet(callbacks) : OnLearn(c) => UNCHANGED vars
  BY ZenonT(60) DEF OnLearn
<1>6. UNCHANGED allVars => UNCHANGED vars
  BY ZenonT(60) DEF allVars
<1> QED  BY ZenonT(60), <1>1, <1>2, <1>3, <1>4, <1>5, <1>6 DEF EngineNext

LEMMA EngineIsStep ==
  ASSUME Typed, [EngineNext]_allVars
  PROVE  [Step]_vars
<1>1. \A n \in Up : flushing[n] \cup {local[n]} \subseteq Value
  <2> SUFFICES ASSUME NEW n \in Up PROVE flushing[n] \cup {local[n]} \subseteq Value
    BY ZenonT(60)
  <2>1. local[n] \in Value /\ flushing[n] \in {NoFlush} \cup {{v} : v \in Value}
    BY ZenonT(60), NodeAssumption DEF Typed, EngineTypeOK
  <2> QED  BY ZenonT(60), <2>1 DEF NoFlush
<1> QED  BY ZenonT(60), <1>1, EngineProposes DEF Step

\* The invariants of the protocol, kept by every step of the engine.
LEMMA EngineBuffers == EngineSpec => [](BufferAboveProposal /\ VotesFormChain)
<1>1. EngineInit => BufferAboveProposal /\ VotesFormChain
  BY SMTT(60), LatticeAssumption
  DEF EngineInit, EngineInitWith, Init, InitWith, BufferAboveProposal, VotesFormChain
<1>2. Typed /\ BufferAboveProposal /\ VotesFormChain /\ [EngineNext]_allVars
        => BufferAboveProposal' /\ VotesFormChain'
  BY ZenonT(60), EngineIsStep, ProposerStep, VotesStep DEF Typed
<1>3. EngineInv => Typed
  BY ZenonT(60) DEF EngineInv
<1> QED  BY <1>1, <1>2, <1>3, EngineInvariant, PTL DEF EngineSpec

\* Whatever engines propose, and whenever, no two values majorities adopted are
\* concurrent.
THEOREM EnginesAgree == EngineSpec => []AdoptedValuesComparable
BY EngineBuffers, ChainImpliesComparable, PTL

\* As long as no proposer asks again for votes it still needs, what the engine
\* is told was learned has the votes of a majority.
THEOREM EngineDecisionsAdopted == EngineSpec /\ VotesAskedOnce => []DecidedIsAdopted
<1>1. EngineInit => VotesCounted
  BY ZenonT(60), VotesCountedInit DEF EngineInit, EngineInitWith
<1>2. Typed /\ VotesCounted /\ [EngineNext]_allVars /\ [AsksOnce]_vars => VotesCounted'
  <2> SUFFICES ASSUME Typed, VotesCounted, [EngineNext]_allVars, [AsksOnce]_vars
               PROVE  VotesCounted'
    BY ZenonT(60)
  <2>1. TypeOK /\ [Step]_vars
    BY ZenonT(60), EngineIsStep DEF Typed
  <2> QED  BY ZenonT(60), <2>1, VotesCountedStep
<1>3. (EngineInv => Typed) /\ (VotesCounted => DecidedIsAdopted)
  BY ZenonT(60) DEF EngineInv, VotesCounted
<1> QED
  BY <1>1, <1>2, <1>3, EngineInvariant, PTL DEF EngineSpec, VotesAskedOnce

-----------------------------------------------------------------------------
(* Learned values were decided *)

LearnedWasDecided ==
  /\ \A m \in BagToSet(net) : m.type = "LEARN" => m.value \in decided
  /\ \A n \in Node : learnedValue[n] \in decided \cup {Bottom}

\* A LEARN is the broadcast of a decision, or passes one on.
LEMMA LearnedStep ==
  ASSUME TypeOK, LearnedWasDecided, [Step]_vars
  PROVE  LearnedWasDecided' /\ decided \subseteq decided'
<1>1. ASSUME NEW m, NEW out, Exchange(m, out), decided \subseteq decided',
             \A r \in out : r.type = "LEARN" => r.value \in decided'
      PROVE  \A r \in BagToSet(net') : r.type = "LEARN" => r.value \in decided'
  <2>1. BagToSet(net') \subseteq BagToSet(net) \cup out
    BY ZenonT(60), <1>1, ExchangeMessages
  <2> QED  BY ZenonT(60), <1>1, <2>1 DEF LearnedWasDecided
<1>2. ASSUME NEW type, NEW from, NEW to, NEW v, NEW r \in Send(type, from, to, v)
      PROVE  r.type = type /\ r.value = v
  BY SMTT(60) DEF Send
<1>3. ASSUME UNCHANGED learnedValue, decided \subseteq decided',
             \A r \in BagToSet(net') : r.type = "LEARN" => r.value \in decided'
      PROVE  LearnedWasDecided' /\ decided \subseteq decided'
  BY ZenonT(60), <1>3 DEF LearnedWasDecided
<1>4. ASSUME NEW p \in Up, NEW v \in Value, Propose(p, v)
      PROVE  LearnedWasDecided' /\ decided \subseteq decided'
  <2> DEFINE out == Broadcast("PROPOSE", p, Join(bufferedValue[p], v))
  <2>1. BagToSet(net') = BagToSet(net) \cup out
    BY ZenonT(60), <1>4, SendMessages DEF Propose
  <2>2. \A r \in out : r.type # "LEARN"
    BY SMTT(60), <1>2 DEF Broadcast
  <2> HIDE DEF out
  <2> QED  BY ZenonT(60), <1>3, <1>4, <2>1, <2>2 DEF Propose, LearnedWasDecided
<1>5. ASSUME NEW m \in BagToSet(net), HandleAck(m) \/ HandleNack(m)
      PROVE  LearnedWasDecided' /\ decided \subseteq decided'
  <2>1. PICK buffered :
          \/ Exchange(m, {}) /\ decided' = decided
          \/ /\ Exchange(m, Broadcast("LEARN", m.to, proposedValue[m.to]))
             /\ decided' = decided \cup {proposedValue[m.to]}
          \/ Exchange(m, Broadcast("PROPOSE", m.to, buffered)) /\ decided' = decided
    BY ZenonT(60), <1>5 DEF HandleAck, HandleNack, IgnoreVote, CheckAndHandleQuorum
  <2>2. \A r \in BagToSet(net') : r.type = "LEARN" => r.value \in decided'
    <3>1. CASE Exchange(m, {}) /\ decided' = decided
      BY SMTT(60), <1>1, <3>1
    <3>2. CASE /\ Exchange(m, Broadcast("LEARN", m.to, proposedValue[m.to]))
               /\ decided' = decided \cup {proposedValue[m.to]}
      BY SMTT(60), <1>1, <1>2, <3>2 DEF Broadcast
    <3>3. CASE Exchange(m, Broadcast("PROPOSE", m.to, buffered)) /\ decided' = decided
      BY SMTT(60), <1>1, <1>2, <3>3 DEF Broadcast
    <3> QED  BY ZenonT(60), <2>1, <3>1, <3>2, <3>3
  <2>3. UNCHANGED learnedValue /\ decided \subseteq decided'
    BY ZenonT(60), <1>5, <2>1 DEF HandleAck, HandleNack
  <2> QED  BY ZenonT(60), <1>3, <2>2, <2>3
<1>6. ASSUME NEW m \in BagToSet(net), HandlePropose(m)
      PROVE  LearnedWasDecided' /\ decided \subseteq decided'
  <2>1. UNCHANGED <<learnedValue, decided>>
    BY ZenonT(60), <1>6 DEF HandlePropose
  <2>a. PICK type \in {"ACK", "NACK"} : \E w : Exchange(m, Send(type, m.to, {m.from}, w))
    BY ZenonT(60), <1>6 DEF HandlePropose, Accept, Reject
  <2>2. PICK w : Exchange(m, Send(type, m.to, {m.from}, w))
    BY ZenonT(60), <2>a
  <2>3. \A r \in Send(type, m.to, {m.from}, w) : r.type # "LEARN"
    BY SMTT(60), <1>2
  <2> QED  BY ZenonT(60), <1>1, <1>3, <2>1, <2>2, <2>3
<1>7. ASSUME NEW m \in BagToSet(net), HandleLearn(m)
      PROVE  LearnedWasDecided' /\ decided \subseteq decided'
  <2>1. m.to \in Node /\ m.value \in decided /\ UNCHANGED decided
    BY ZenonT(60), <1>7 DEF HandleLearn, TypeOK, Message, LearnedWasDecided
  <2>2. Exchange(m, {}) \/ Exchange(m, BroadcastToOthers("LEARN", m.to, m.value))
    BY ZenonT(60), <1>7 DEF HandleLearn
  <2>3. \A r \in BagToSet(net') : r.type = "LEARN" => r.value \in decided'
    BY SMTT(60), <1>1, <1>2, <2>1, <2>2 DEF BroadcastToOthers
  <2>4. \A n \in Node : learnedValue'[n] \in decided' \cup {Bottom}
    BY ZenonT(60), <1>7, <2>1 DEF HandleLearn, LearnedWasDecided, TypeOK
  <2> QED  BY ZenonT(60), <2>1, <2>3, <2>4 DEF LearnedWasDecided
<1>8. ASSUME NEW m \in BagToSet(net), Lose(m)
      PROVE  LearnedWasDecided' /\ decided \subseteq decided'
  <2>1. UNCHANGED <<learnedValue, decided>> /\ Exchange(m, {})
    BY ZenonT(60), <1>8 DEF Lose
  <2>2. \A r \in BagToSet(net') : r.type = "LEARN" => r.value \in decided'
    BY SMTT(60), <1>1, <2>1
  <2> QED  BY ZenonT(60), <1>3, <2>1, <2>2
<1>9. CASE UNCHANGED vars
  BY ZenonT(60), <1>9 DEF vars, LearnedWasDecided
<1> QED  BY ZenonT(60), <1>4, <1>5, <1>6, <1>7, <1>8, <1>9 DEF Step, Handle

\* So was what a callback brings.
ToldWasDecided ==
  /\ LearnedWasDecided
  /\ \A c \in BagToSet(callbacks) : c.value \in decided \cup {Bottom}

\* A step adds to the callbacks only what it makes the node learn.
LEMMA NewCallbacks ==
  ASSUME Typed, [EngineNext]_allVars, NEW c \in BagToSet(callbacks')
  PROVE  c \in BagToSet(callbacks) \/ \E n \in Node : c.value = learnedValue'[n]
<1>1. CASE UNCHANGED callbacks
  BY ZenonT(60), <1>1
<1>2. ASSUME NEW x \in BagToSet(callbacks), OnLearn(x)
      PROVE  c \in BagToSet(callbacks)
  BY ZenonT(60), <1>2, CallbackBag DEF OnLearn
<1>3. ASSUME NEW m \in BagToSet(net), Learn(m)
      PROVE  c \in BagToSet(callbacks) \/ \E n \in Node : c.value = learnedValue'[n]
  <2> DEFINE told == IF IsIn(learnedValue[m.to], m.value)
                     THEN {[node |-> m.to, value |-> learnedValue'[m.to]]} ELSE {}
  <2>1. callbacks' = callbacks (+) SetToBag(told) /\ m.to \in Node
    BY ZenonT(60), <1>3 DEF Learn, Typed, TypeOK, Message
  <2>2. c \in BagToSet(callbacks) \cup told
    BY ZenonT(60), <2>1, CallbackBag
  <2>3. c \in told => c.value = learnedValue'[m.to]
    BY SMTT(60)
  <2> QED  BY ZenonT(60), <2>1, <2>2, <2>3
<1>4. \A op \in Op : Call(op) \/ Return(op) \/ Timeout(op) => UNCHANGED callbacks
  BY ZenonT(60) DEF Call, Return, Timeout
<1>5. \A n \in Up : FlushCapture(n) \/ FlushPropose(n) \/ SyncPropose(n) \/ SyncReturn(n)
                      \/ SyncTimeout(n) => UNCHANGED callbacks
  BY ZenonT(60) DEF FlushCapture, FlushPropose, SyncPropose, SyncReturn, SyncTimeout
<1>6. \A m \in BagToSet(net) : Vote(m) \/ Drop(m) => UNCHANGED callbacks
  BY ZenonT(60) DEF Vote, Drop, engineVars
<1> QED  BY ZenonT(60), <1>1, <1>2, <1>3, <1>4, <1>5, <1>6 DEF EngineNext, allVars, engineVars

LEMMA ToldInvariant == EngineSpec => []ToldWasDecided
<1>1. EngineInit => ToldWasDecided
  <2> SUFFICES ASSUME EngineInit PROVE ToldWasDecided
    OBVIOUS
  <2>1. BagToSet(net) = {} /\ BagToSet(callbacks) = {}
    BY SMTT(60) DEF EngineInit, EngineInitWith, Init, InitWith, EmptyBag, SetToBag, BagToSet
  <2>2. \A n \in Node : learnedValue[n] = Bottom
    BY SMTT(60) DEF EngineInit, EngineInitWith, Init, InitWith
  <2> QED  BY ZenonT(60), <2>1, <2>2 DEF ToldWasDecided, LearnedWasDecided
<1>2. Typed /\ ToldWasDecided /\ [EngineNext]_allVars => ToldWasDecided'
  <2> SUFFICES ASSUME Typed, ToldWasDecided, [EngineNext]_allVars PROVE ToldWasDecided'
    OBVIOUS
  <2>1. LearnedWasDecided' /\ decided \subseteq decided'
    BY ZenonT(60), EngineIsStep, LearnedStep DEF Typed, ToldWasDecided
  <2>2. ASSUME NEW c \in BagToSet(callbacks') PROVE c.value \in decided' \cup {Bottom}
    BY ZenonT(60), <2>1, NewCallbacks DEF ToldWasDecided, LearnedWasDecided
  <2> QED  BY ZenonT(60), <2>1, <2>2 DEF ToldWasDecided
<1>3. EngineInv => Typed
  BY ZenonT(60) DEF EngineInv
<1> QED  BY <1>1, <1>2, <1>3, EngineInvariant, PTL DEF EngineSpec

-----------------------------------------------------------------------------
(* Increments that were answered are held by majorities *)

\* What a decided value contains, the acceptors of a majority contain: those
\* that voted for it.
LEMMA DecidedIsHeld ==
  ASSUME TypeOK, VotesFormChain, DecidedIsAdopted, NEW op \in Op,
         NEW v \in decided \cup {Bottom}, Contains(v, op)
  PROVE  Majority({a \in Node : Contains(acceptedValue[a], op)})
<1> DEFINE holders == {a \in Node : Contains(acceptedValue[a], op)}
<1>0. \A a \in Node : acceptedValue[a] \in Value
  BY ZenonT(60) DEF TypeOK
<1>1. CASE v = Bottom
  <2>1. \A a \in Node : Contains(acceptedValue[a], op)
    BY ZenonT(60), <1>0, <1>1, ContainsAbove, LatticeAssumption
  <2>2. holders = Node
    BY ZenonT(60), <2>1
  <2>3. Majority(Node)
    <3>1. Cardinality(Node) \in Nat /\ Cardinality(Node) # 0
      BY ZenonT(60), NodeAssumption, EngineAssumption, FS_CardinalityType, FS_EmptySet
    <3> QED  BY SMTT(60), <3>1 DEF Majority, QuorumSize
  <2> QED  BY ZenonT(60), <2>2, <2>3
<1>2. CASE v \in decided
  <2>1. v \in Value /\ Majority(Adopters(v))
    BY ZenonT(60), <1>2 DEF TypeOK, DecidedIsAdopted
  <2>2. ASSUME NEW a \in Adopters(v) PROVE a \in holders
    <3>1. PICK u \in Value : <<a, u>> \in acked /\ Equals(u, v) /\ a \in Node
      BY ZenonT(60) DEF Adopters
    <3>2. IsIn(v, u) /\ IsIn(u, acceptedValue[a])
      BY ZenonT(60), <2>1, <3>1, EqualsBoth DEF VotesFormChain
    <3>3. Contains(acceptedValue[a], op)
      BY ZenonT(60), <1>0, <2>1, <3>1, <3>2, ContainsAbove
    <3> QED  BY ZenonT(60), <3>1, <3>3
  <2> HIDE DEF holders
  <2>3. holders \in SUBSET Node
    BY ZenonT(60) DEF holders
  <2>4. Majority(holders)
    BY ZenonT(60), <2>1, <2>2, <2>3, MajorityGrows
  <2> QED  BY ZenonT(60), <2>4 DEF holders
<1> QED  BY ZenonT(60), <1>1, <1>2

AnsweredIsHeld ==
  \A op \in Increment : status[op] \in {"signalled", "done"} =>
    Majority({a \in Node : Contains(acceptedValue[a], op)})

\* An operation that has an answer had it before, or onLearn just signals it
\* because the value learned is above all its node knows.
LEMMA OnlyOnLearnAnswers ==
  ASSUME Typed, [EngineNext]_allVars, NEW op \in Op, status'[op] \in {"signalled", "done"}
  PROVE  \/ status[op] \in {"signalled", "done"} /\ result'[op] = result[op]
         \/ \E c \in BagToSet(callbacks) :
              LET merged == Join(local[OpNode[op]], c.value)
              IN  /\ status[op] = "waiting" /\ IsIn(merged, c.value)
                  /\ result'[op] = merged
<1>0. /\ status \in [Op -> {"idle", "waiting", "signalled", "done", "failed"}]
      /\ result \in [Op -> Value]
  BY ZenonT(60) DEF Typed, EngineTypeOK
<1>1. CASE status'[op] = status[op] /\ result'[op] = result[op]
  BY ZenonT(60), <1>1
<1>2. ASSUME NEW x \in Op, Call(x) \/ Return(x) \/ Timeout(x)
      PROVE  status[op] \in {"signalled", "done"} /\ result'[op] = result[op]
  <2>1. result' = result
    BY ZenonT(60), <1>2 DEF Call, Return, Timeout
  <2>2. \/ status' = [status EXCEPT ![x] = "waiting"]
        \/ status' = [status EXCEPT ![x] = "done"] /\ status[x] = "signalled"
        \/ status' = [status EXCEPT ![x] = "failed"]
    BY ZenonT(60), <1>2 DEF Call, Register, Return, Timeout
  <2> QED  BY SMTT(60), <1>0, <2>1, <2>2
<1>3. ASSUME NEW c \in BagToSet(callbacks), OnLearn(c),
             op \in Answered(c.node, Join(local[c.node], c.value), c.value)
      PROVE  LET merged == Join(local[OpNode[op]], c.value)
             IN  /\ status[op] = "waiting" /\ IsIn(merged, c.value)
                 /\ result'[op] = merged
  <2>1. OpNode[op] = c.node /\ status[op] = "waiting" /\ IsIn(Join(local[c.node], c.value), c.value)
    BY ZenonT(60), <1>3 DEF Answered
  <2>2. result'[op] = Join(local[c.node], c.value)
    BY ZenonT(60), <1>3 DEF OnLearn
  <2> QED  BY ZenonT(60), <2>1, <2>2
<1>4. ASSUME NEW c \in BagToSet(callbacks), OnLearn(c),
             op \notin Answered(c.node, Join(local[c.node], c.value), c.value)
      PROVE  status'[op] = status[op] /\ result'[op] = result[op]
  BY ZenonT(60), <1>4 DEF OnLearn
<1>5. \A n \in Up : FlushCapture(n) \/ FlushPropose(n) \/ SyncPropose(n) \/ SyncReturn(n)
                      \/ SyncTimeout(n) => UNCHANGED <<status, result>>
  BY ZenonT(60) DEF FlushCapture, FlushPropose, SyncPropose, SyncReturn, SyncTimeout
<1>6. \A m \in BagToSet(net) : Vote(m) \/ Learn(m) \/ Drop(m) => UNCHANGED <<status, result>>
  BY ZenonT(60) DEF Vote, Learn, Drop, engineVars
<1> QED  BY ZenonT(60), <1>1, <1>2, <1>3, <1>4, <1>5, <1>6 DEF EngineNext, allVars, engineVars

\* What onLearn signals an operation with contains the increment of it.
LEMMA AnsweredContains ==
  ASSUME EngineInv, NEW op \in Increment, status[op] = "waiting",
         NEW c \in BagToSet(callbacks), IsIn(Join(local[OpNode[op]], c.value), c.value)
  PROVE  Contains(c.value, op)
<1>1. /\ op \in Op /\ OpNode[op] \in Node /\ local[OpNode[op]] \in Value /\ c.value \in Value
      /\ Contains(local[OpNode[op]], op)
  BY ZenonT(60), EngineAssumption, NodeAssumption
  DEF Increment, EngineInv, Typed, EngineTypeOK, OwnIncrementsStay
<1>2. /\ Join(local[OpNode[op]], c.value) \in Value
      /\ IsIn(local[OpNode[op]], Join(local[OpNode[op]], c.value))
  BY ZenonT(60), <1>1, JoinAbove
<1> QED  BY ZenonT(60), <1>1, <1>2, ContainsAbove

LEMMA HeldStep ==
  ASSUME EngineInv, VotesFormChain, DecidedIsAdopted, ToldWasDecided, AnsweredIsHeld,
         [EngineNext]_allVars
  PROVE  AnsweredIsHeld'
<1> SUFFICES ASSUME NEW op \in Increment, status'[op] \in {"signalled", "done"}
             PROVE  Majority({a \in Node : Contains(acceptedValue'[a], op)})
  BY ZenonT(60) DEF AnsweredIsHeld, Increment, Contains, Majority, QuorumSize
<1> DEFINE holders == {a \in Node : Contains(acceptedValue[a], op)}
           after == {a \in Node : Contains(acceptedValue'[a], op)}
<1>1. op \in Op /\ Typed /\ TypeOK /\ TypeOK'
  BY ZenonT(60), EngineTypeStep DEF Increment, EngineInv, Typed
<1>2. Majority(holders)
  <2>1. CASE status[op] \in {"signalled", "done"}
    BY ZenonT(60), <2>1 DEF AnsweredIsHeld
  <2>2. ASSUME NEW c \in BagToSet(callbacks), status[op] = "waiting",
               IsIn(Join(local[OpNode[op]], c.value), c.value)
        PROVE  Majority(holders)
    BY ZenonT(60), <1>1, <2>2, AnsweredContains, DecidedIsHeld DEF ToldWasDecided
  <2> QED  BY ZenonT(60), <1>1, <2>1, <2>2, OnlyOnLearnAnswers
<1>3. ASSUME NEW a \in holders PROVE a \in after
  <2>1. /\ a \in Node /\ acceptedValue[a] \in Value /\ acceptedValue'[a] \in Value
        /\ Contains(acceptedValue[a], op)
    BY ZenonT(60), <1>1 DEF TypeOK
  <2>2. IsIn(acceptedValue[a], acceptedValue'[a])
    BY ZenonT(60), <1>1, <2>1, EngineIsStep, AcceptorLearnerStep
  <2>3. Contains(acceptedValue'[a], op)
    BY ZenonT(60), <1>1, <2>1, <2>2, ContainsAbove
  <2> QED  BY ZenonT(60), <2>1, <2>3
<1>4. after \in SUBSET Node
  OBVIOUS
<1> HIDE DEF holders, after
<1>5. Majority(after)
  BY ZenonT(60), <1>2, <1>3, <1>4, MajorityGrows
<1> QED  BY ZenonT(60), <1>5 DEF after

\* As long as decisions have majorities, so has every increment that returned.
LEMMA HeldInvariant == EngineSpec /\ []DecidedIsAdopted => []AnsweredIsHeld
<1>1. EngineInit => AnsweredIsHeld
  BY SMTT(60) DEF EngineInit, EngineInitWith, AnsweredIsHeld, Increment
<1>2. EngineInv /\ VotesFormChain /\ DecidedIsAdopted /\ ToldWasDecided /\ AnsweredIsHeld
        /\ [EngineNext]_allVars => AnsweredIsHeld'
  BY ZenonT(60), HeldStep
<1> QED  BY <1>1, <1>2, EngineInvariant, EngineBuffers, ToldInvariant, PTL DEF EngineSpec

\* As long as no proposer asks again for votes it still needs, IncrementKey returns
\* true only when a majority of acceptors holds the increment.
THEOREM ReturnedIsHeld == EngineSpec /\ VotesAskedOnce => []DoneIsHeldByMajority
<1>1. AnsweredIsHeld => DoneIsHeldByMajority
  BY ZenonT(60) DEF AnsweredIsHeld, DoneIsHeldByMajority, Done, Increment
<1> QED  BY <1>1, HeldInvariant, EngineDecisionsAdopted, PTL

-----------------------------------------------------------------------------
(* An increment is nowhere before it is made *)

\* Every value of the protocol, of an engine and of a callback is in G.
EngineIn(G) ==
  /\ AllIn(G)
  /\ \A n \in Node : local[n] \in G /\ syncOp[n] \in G /\ flushing[n] \subseteq G
  /\ \A c \in BagToSet(callbacks) : c.value \in G

\* Engines pass on, copy and join: a set of values that is closed under Join and
\* the increments made holds whatever it held.
LEMMA EngineInStep ==
  ASSUME Typed, [EngineNext]_allVars, NEW G \in SUBSET Value, EngineIn(G),
         \A u, v \in G : Join(u, v) \in G,
         \A op \in Increment : \A v \in G : Call(op) => IncrementKey(v, op) \in G
  PROVE  EngineIn(G)'
<1> USE NodeAssumption, EngineAssumption
<1>1. AllIn(G)'
  <2>1. \A n \in Up : flushing[n] \cup {local[n]} \subseteq G
    BY ZenonT(60) DEF EngineIn
  <2> QED  BY ZenonT(60), <2>1, EngineProposes, AllInStep DEF EngineIn, Typed
<1>2. \A c \in BagToSet(callbacks') : c.value \in G
  BY ZenonT(60), <1>1, NewCallbacks DEF EngineIn, AllIn
<1>3. /\ local \in [Node -> Value] /\ syncOp \in [Node -> Value]
      /\ flushing \in [Node -> {NoFlush} \cup {{v} : v \in Value}]
      /\ \A n \in Node : local[n] \in G /\ syncOp[n] \in G /\ flushing[n] \subseteq G
  BY ZenonT(60) DEF Typed, EngineTypeOK, EngineIn
<1> DEFINE Fields == \A n \in Node : local[n] \in G /\ syncOp[n] \in G /\ flushing[n] \subseteq G
<1>4. ASSUME UNCHANGED <<local, syncOp, flushing>> PROVE Fields'
  BY ZenonT(60), <1>3, <1>4
<1>5. ASSUME NEW op \in Op, Call(op) PROVE Fields'
  <2>1. UNCHANGED <<syncOp, flushing>>
    BY ZenonT(60), <1>5 DEF Call
  <2>2. CASE OpKind[op] = "increment"
    <3>1. local' = [local EXCEPT ![OpNode[op]] = IncrementKey(@, op)] /\ op \in Increment
      BY ZenonT(60), <1>5, <2>2 DEF Call, Increment
    <3>2. IncrementKey(local[OpNode[op]], op) \in G
      BY ZenonT(60), <1>3, <1>5, <3>1
    <3> QED  BY ZenonT(60), <1>3, <2>1, <3>1, <3>2
  <2>3. CASE OpKind[op] # "increment"
    BY ZenonT(60), <1>4, <1>5, <2>1, <2>3 DEF Call
  <2> QED  BY ZenonT(60), <2>2, <2>3
<1>6. \A op \in Op : Return(op) \/ Timeout(op) => UNCHANGED <<local, syncOp, flushing>>
  BY ZenonT(60) DEF Return, Timeout
<1>7. ASSUME NEW n \in Up, FlushCapture(n) \/ FlushPropose(n) PROVE Fields'
  <2>1. UNCHANGED <<local, syncOp>>
    BY ZenonT(60), <1>7 DEF FlushCapture, FlushPropose
  <2>2. PICK w \in {NoFlush, {local[n]}} : flushing' = [flushing EXCEPT ![n] = w]
    BY ZenonT(60), <1>7 DEF FlushCapture, FlushPropose
  <2>3. w \subseteq G
    BY ZenonT(60), <1>3, <2>2 DEF NoFlush
  <2> QED  BY ZenonT(60), <1>3, <2>1, <2>2, <2>3
<1>8. ASSUME NEW n \in Up, SyncPropose(n) \/ SyncReturn(n) \/ SyncTimeout(n) PROVE Fields'
  <2>1. UNCHANGED flushing
    BY ZenonT(60), <1>8 DEF SyncPropose, SyncReturn, SyncTimeout
  <2>2. local' = local \/ local' = [local EXCEPT ![n] = syncOp[n]]
    BY ZenonT(60), <1>8 DEF SyncPropose, SyncReturn, SyncTimeout
  <2>3. syncOp' = syncOp \/ syncOp' = [syncOp EXCEPT ![n] = local[n]]
    BY ZenonT(60), <1>8 DEF SyncPropose, SyncReturn, SyncTimeout
  <2> QED  BY ZenonT(60), <1>3, <2>1, <2>2, <2>3
<1>9. \A m \in BagToSet(net) : Vote(m) \/ Learn(m) \/ Drop(m) => UNCHANGED <<local, syncOp, flushing>>
  BY ZenonT(60) DEF Vote, Learn, Drop, engineVars
<1>10. ASSUME NEW c \in BagToSet(callbacks), OnLearn(c) PROVE Fields'
  <2> DEFINE merged == Join(local[c.node], c.value)
  <2>1. c.node \in Node /\ merged \in G
    BY ZenonT(60), <1>3 DEF Typed, EngineTypeOK, EngineIn
  <2>2. UNCHANGED flushing /\ local' = [local EXCEPT ![c.node] = merged]
    BY ZenonT(60), <1>10 DEF OnLearn
  <2>3. syncOp' = syncOp \/ syncOp' = [syncOp EXCEPT ![c.node] = merged]
    BY ZenonT(60), <1>10 DEF OnLearn
  <2> HIDE DEF merged
  <2> QED  BY ZenonT(60), <1>3, <2>1, <2>2, <2>3
<1>11. UNCHANGED allVars => UNCHANGED <<local, syncOp, flushing>>
  BY ZenonT(60) DEF allVars, engineVars
<1>12. Fields'
  <2> HIDE DEF Fields
  <2> QED
    BY ZenonT(60), <1>4, <1>5, <1>6, <1>7, <1>8, <1>9, <1>10, <1>11 DEF EngineNext
<1> QED  BY ZenonT(60), <1>1, <1>2, <1>12 DEF EngineIn

Without(op) == {v \in Value : ~Contains(v, op)}

IdleIsNowhere == \A op \in Increment : status[op] = "idle" => EngineIn(Without(op))

\* An operation that is idle after a step was not called in it or before.
LEMMA StaysIdle ==
  ASSUME Typed, [EngineNext]_allVars, NEW op \in Op, status'[op] = "idle"
  PROVE  status[op] = "idle" /\ ~Call(op)
<1>0. status \in [Op -> {"idle", "waiting", "signalled", "done", "failed"}]
  BY ZenonT(60) DEF Typed, EngineTypeOK
<1>1. \A x \in Op : Call(x) => x # op /\ status'[op] = status[op]
  BY SMTT(60), <1>0 DEF Call, Register
<1>2. \A x \in Op : Return(x) \/ Timeout(x) => status'[op] = status[op]
  BY SMTT(60), <1>0 DEF Return, Timeout
<1>3. \A c \in BagToSet(callbacks) : OnLearn(c) => status'[op] = status[op]
  BY SMTT(60), <1>0 DEF OnLearn
<1>4. \A n \in Up : FlushCapture(n) \/ FlushPropose(n) \/ SyncPropose(n) \/ SyncReturn(n)
                      \/ SyncTimeout(n) => status' = status
  BY ZenonT(60) DEF FlushCapture, FlushPropose, SyncPropose, SyncReturn, SyncTimeout
<1>5. \A m \in BagToSet(net) : Vote(m) \/ Learn(m) \/ Drop(m) => status' = status
  BY ZenonT(60) DEF Vote, Learn, Drop, engineVars
<1> QED
  BY ZenonT(60), <1>1, <1>2, <1>3, <1>4, <1>5 DEF EngineNext, allVars, engineVars

LEMMA IdleStep ==
  ASSUME IncrementsToldApart, Typed, IdleIsNowhere, [EngineNext]_allVars
  PROVE  IdleIsNowhere'
<1> SUFFICES ASSUME NEW op \in Increment, status'[op] = "idle"
             PROVE  EngineIn(Without(op))'
  BY ZenonT(60) DEF IdleIsNowhere, Increment
<1>1. op \in Op /\ status[op] = "idle" /\ ~Call(op)
  BY ZenonT(60), StaysIdle DEF Increment
<1> DEFINE G == Without(op)
<1>2. G \in SUBSET Value /\ EngineIn(G)
  BY ZenonT(60), <1>1 DEF Without, IdleIsNowhere
<1>3. ASSUME NEW u \in G, NEW v \in G PROVE Join(u, v) \in G
  <2>1. u \in Value /\ v \in Value /\ ~Contains(u, op) /\ ~Contains(v, op)
    BY ZenonT(60) DEF Without
  <2>2. Join(u, v) \in Value /\ ~Contains(Join(u, v), op)
    BY ZenonT(60), <2>1, JoinAbove DEF IncrementsToldApart
  <2> QED  BY ZenonT(60), <2>2 DEF Without
<1>4. ASSUME NEW other \in Increment, NEW v \in G, Call(other) PROVE IncrementKey(v, other) \in G
  <2>1. v \in Value /\ ~Contains(v, op) /\ other # op /\ other \in Op
    BY ZenonT(60), <1>1, <1>4 DEF Without, Increment
  <2>2. IncrementKey(v, other) \in Value /\ ~Contains(IncrementKey(v, other), op)
    BY ZenonT(60), <2>1, EngineAssumption DEF IncrementsToldApart
  <2> QED  BY ZenonT(60), <2>2 DEF Without
<1> HIDE DEF G
<1>5. EngineIn(G)'
  BY ZenonT(60), <1>2, <1>3, <1>4, EngineInStep
<1> QED  BY ZenonT(60), <1>5 DEF G

LEMMA IdleInvariant == IncrementsToldApart => (EngineSpec => []IdleIsNowhere)
<1> SUFFICES ASSUME IncrementsToldApart PROVE EngineSpec => []IdleIsNowhere
  OBVIOUS
<1>1. EngineInit => IdleIsNowhere
  <2> SUFFICES ASSUME EngineInit, NEW op \in Increment PROVE EngineIn(Without(op))
    BY ZenonT(60) DEF IdleIsNowhere
  <2>1. Bottom \in Without(op)
    BY ZenonT(60), LatticeAssumption DEF IncrementsToldApart, Without
  <2>2. AllIn(Without(op))
    BY ZenonT(60), <2>1, AllInInit DEF EngineInit, EngineInitWith
  <2>3. \A n \in Node : local[n] = Bottom /\ syncOp[n] = Bottom /\ flushing[n] = {}
    BY SMTT(60) DEF EngineInit, EngineInitWith, NoFlush
  <2>4. BagToSet(callbacks) = {}
    BY SMTT(60) DEF EngineInit, EngineInitWith, EmptyBag, SetToBag, BagToSet
  <2> QED  BY ZenonT(60), <2>1, <2>2, <2>3, <2>4 DEF EngineIn
<1>2. Typed /\ IdleIsNowhere /\ [EngineNext]_allVars => IdleIsNowhere'
  BY ZenonT(60), IdleStep
<1>3. EngineInv => Typed
  BY ZenonT(60) DEF EngineInv
<1> QED  BY <1>1, <1>2, <1>3, EngineInvariant, PTL DEF EngineSpec

-----------------------------------------------------------------------------
(* Answers are current *)

\* The acceptors that hold increment inc and vote for no value with op in it
\* but without inc.
Bound(op, inc) ==
  {a \in Node : /\ Contains(acceptedValue[a], inc)
                /\ \A v \in Value : <<a, v>> \in acked /\ Contains(v, op) => Contains(v, inc)}

\* The inductive invariant: from its call on, an operation is tied to what had
\* returned before it by a majority of acceptors.  Any value decided with the
\* operation in it has the vote of one of them.
VotesAreBound ==
  \A op \in Increment : status[op] # "idle" =>
    \A inc \in before[op] \cap Increment : Majority(Bound(op, inc))

\* A new vote is for a value above what the acceptor held.
LEMMA NewVotes ==
  ASSUME TypeOK, [Step]_vars, NEW a \in Node, NEW v \in Value, <<a, v>> \in acked'
  PROVE  <<a, v>> \in acked \/ IsIn(acceptedValue[a], v)
<1>1. CASE UNCHANGED acked
  BY ZenonT(60), <1>1
<1>2. ASSUME NEW m \in BagToSet(net), Accept(m)
      PROVE  <<a, v>> \in acked \/ IsIn(acceptedValue[a], v)
  <2>1. acked' = acked \cup {<<m.to, m.value>>} /\ IsIn(acceptedValue[m.to], m.value)
    BY ZenonT(60), <1>2 DEF Accept
  <2>2. <<a, v>> \in acked \/ (a = m.to /\ v = m.value)
    BY SMTT(60), <2>1
  <2> QED  BY ZenonT(60), <2>1, <2>2
<1>3. ASSUME NEW m \in BagToSet(net), Reject(m) PROVE UNCHANGED acked
  BY ZenonT(60), <1>3 DEF Reject
<1>4. UNCHANGED vars => UNCHANGED acked
  BY ZenonT(60) DEF vars
<1> QED  BY ZenonT(60), <1>1, <1>2, <1>3, <1>4, AcceptorsUnchanged

\* What an acceptor is bound to it stays bound to.
LEMMA BoundStays ==
  ASSUME Typed, [EngineNext]_allVars, NEW op \in Op, NEW inc \in Op, NEW a \in Bound(op, inc)
  PROVE  a \in Bound(op, inc)'
<1>1. /\ a \in Node /\ Contains(acceptedValue[a], inc)
      /\ \A v \in Value : <<a, v>> \in acked /\ Contains(v, op) => Contains(v, inc)
  BY ZenonT(60) DEF Bound
<1>2. TypeOK /\ [Step]_vars /\ acceptedValue[a] \in Value /\ acceptedValue'[a] \in Value
  BY ZenonT(60), <1>1, EngineTypeStep, EngineIsStep DEF Typed, TypeOK
<1>3. Contains(acceptedValue'[a], inc)
  BY ZenonT(60), <1>1, <1>2, AcceptorLearnerStep, ContainsAbove
<1>4. ASSUME NEW v \in Value, <<a, v>> \in acked', Contains(v, op) PROVE Contains(v, inc)
  BY ZenonT(60), <1>1, <1>2, <1>4, NewVotes, ContainsAbove
<1> QED  BY ZenonT(60), <1>1, <1>3, <1>4 DEF Bound, Contains

\* Only its call sets what had returned before an operation.
LEMMA BeforeKept ==
  ASSUME Typed, [EngineNext]_allVars, NEW op \in Op, status[op] # "idle"
  PROVE  before'[op] = before[op]
<1>0. before \in [Op -> SUBSET Op]
  BY ZenonT(60) DEF Typed, EngineTypeOK
<1>1. \A x \in Op : Call(x) => before'[op] = before[op]
  <2> SUFFICES ASSUME NEW x \in Op, Call(x) PROVE before'[op] = before[op]
    OBVIOUS
  <2>1. x # op /\ before' = [before EXCEPT ![x] = Done]
    BY ZenonT(60) DEF Call, Register
  <2> QED  BY ZenonT(60), <1>0, <2>1
<1>2. \A x \in Op : Return(x) \/ Timeout(x) => before' = before
  BY ZenonT(60) DEF Return, Timeout
<1>3. \A c \in BagToSet(callbacks) : OnLearn(c) => before' = before
  BY ZenonT(60) DEF OnLearn
<1>4. \A n \in Up : FlushCapture(n) \/ FlushPropose(n) \/ SyncPropose(n) \/ SyncReturn(n)
                      \/ SyncTimeout(n) => before' = before
  BY ZenonT(60) DEF FlushCapture, FlushPropose, SyncPropose, SyncReturn, SyncTimeout
<1>5. \A m \in BagToSet(net) : Vote(m) \/ Learn(m) \/ Drop(m) => before' = before
  BY ZenonT(60) DEF Vote, Learn, Drop, engineVars
<1> QED
  BY ZenonT(60), <1>1, <1>2, <1>3, <1>4, <1>5 DEF EngineNext, allVars, engineVars

LEMMA BoundStep ==
  ASSUME Typed, AnsweredIsHeld, IdleIsNowhere, VotesAreBound, [EngineNext]_allVars
  PROVE  VotesAreBound'
<1> SUFFICES ASSUME NEW op \in Increment, status'[op] # "idle",
                    NEW inc \in before'[op] \cap Increment
             PROVE  Majority(Bound(op, inc)')
  BY ZenonT(60) DEF VotesAreBound, Increment, Majority, QuorumSize
<1> DEFINE after == Bound(op, inc)'
<1>0. op \in Op /\ inc \in Op /\ after \in SUBSET Node
  BY ZenonT(60) DEF Increment, Bound
<1>1. CASE status[op] # "idle"
  <2>1. Majority(Bound(op, inc))
    BY ZenonT(60), <1>0, <1>1, BeforeKept DEF VotesAreBound
  <2>2. Bound(op, inc) \subseteq after
    BY ZenonT(60), <1>0, BoundStays
  <2> HIDE DEF after
  <2>3. Majority(after)
    BY ZenonT(60), <1>0, <2>1, <2>2, MajorityGrows
  <2> QED  BY ZenonT(60), <2>3 DEF after
<1>2. CASE status[op] = "idle"
  <2> DEFINE holders == {a \in Node : Contains(acceptedValue[a], inc)}
  <2>1. Call(op)
    BY ZenonT(60), <1>0, <1>2, OnlyCallBegins
  <2>2. before' = [before EXCEPT ![op] = Done] /\ UNCHANGED <<acceptedValue, acked>>
    BY ZenonT(60), <2>1 DEF Call, Register, vars
  <2>3. inc \in Done
    BY ZenonT(60), <1>0, <2>2 DEF Typed, EngineTypeOK
  <2>4. Majority(holders)
    BY ZenonT(60), <2>3 DEF AnsweredIsHeld, Done
  <2>5. \A a \in Node : \A v \in Value : <<a, v>> \in acked => ~Contains(v, op)
    BY ZenonT(60), <1>2 DEF IdleIsNowhere, EngineIn, AllIn, Without
  <2>6. holders \subseteq after
    BY ZenonT(60), <2>2, <2>5 DEF Bound, Contains
  <2> HIDE DEF holders, after
  <2>7. Majority(after)
    BY ZenonT(60), <1>0, <2>4, <2>6, MajorityGrows
  <2> QED  BY ZenonT(60), <2>7 DEF after
<1> QED  BY ZenonT(60), <1>1, <1>2

\* The value onLearn signals with has the vote of a bound acceptor.
LEMMA SignalIsCurrent ==
  ASSUME IncrementsToldApart, EngineInv, DecidedIsAdopted, ToldWasDecided, VotesAreBound,
         NEW op \in Increment, status[op] = "waiting", NEW c \in BagToSet(callbacks),
         IsIn(Join(local[OpNode[op]], c.value), c.value),
         NEW inc \in (before[op] \cup {op}) \cap Increment
  PROVE  Contains(c.value, inc)
<1>1. Contains(c.value, op) /\ TypeOK /\ c.value \in Value /\ op \in Op /\ inc \in Op
  BY ZenonT(60), AnsweredContains DEF EngineInv, Typed, EngineTypeOK, Increment
<1>2. c.value \in decided
  BY ZenonT(60), <1>1 DEF ToldWasDecided, IncrementsToldApart
<1>3. CASE inc = op
  BY ZenonT(60), <1>1, <1>3
<1>4. CASE inc \in before[op]
  <2> DEFINE bound == Bound(op, inc)
             voters == Adopters(c.value)
  <2>1. Majority(voters) /\ Majority(bound)
    BY ZenonT(60), <1>2, <1>4 DEF DecidedIsAdopted, VotesAreBound
  <2>2. voters \in SUBSET Node /\ bound \in SUBSET Node
    BY ZenonT(60) DEF Adopters, Bound
  <2> HIDE DEF bound, voters
  <2>3. PICK a \in Node : a \in voters /\ a \in bound
    BY ZenonT(60), <2>1, <2>2, MajoritiesMeet
  <2>4. PICK u \in Value : <<a, u>> \in acked /\ Equals(u, c.value)
    BY ZenonT(60), <2>3 DEF voters, Adopters
  <2>5. IsIn(u, c.value) /\ IsIn(c.value, u)
    BY ZenonT(60), <1>1, <2>4, EqualsBoth
  <2>6. Contains(u, op)
    BY ZenonT(60), <1>1, <2>4, <2>5, ContainsAbove
  <2>7. Contains(u, inc)
    BY ZenonT(60), <2>3, <2>4, <2>6 DEF bound, Bound
  <2> QED  BY ZenonT(60), <1>1, <2>4, <2>5, <2>7, ContainsAbove
<1> QED  BY ZenonT(60), <1>3, <1>4

IncrementsCurrent == \A op \in Increment : AnswerIsCurrent(op)

LEMMA CurrentStep ==
  ASSUME IncrementsToldApart, EngineInv, DecidedIsAdopted, ToldWasDecided, VotesAreBound,
         IncrementsCurrent, [EngineNext]_allVars
  PROVE  IncrementsCurrent'
<1> SUFFICES ASSUME NEW op \in Increment, status'[op] \in {"signalled", "done"},
                    NEW inc \in (before'[op] \cup {op}) \cap Increment
             PROVE  Contains(result'[op], inc)
  BY ZenonT(60) DEF IncrementsCurrent, AnswerIsCurrent, Increment, Contains
<1>1. op \in Op /\ inc \in Op /\ Typed
  BY ZenonT(60) DEF Increment, EngineInv
<1>2. CASE status[op] \in {"signalled", "done"} /\ result'[op] = result[op]
  <2>1. status[op] # "idle"
    BY ZenonT(60), <1>2
  <2>2. before'[op] = before[op]
    BY ZenonT(60), <1>1, <2>1, BeforeKept
  <2> QED  BY ZenonT(60), <1>2, <2>2 DEF IncrementsCurrent, AnswerIsCurrent
<1>3. ASSUME NEW c \in BagToSet(callbacks), status[op] = "waiting",
             IsIn(Join(local[OpNode[op]], c.value), c.value),
             result'[op] = Join(local[OpNode[op]], c.value)
      PROVE  Contains(result'[op], inc)
  <2>1. before'[op] = before[op]
    <3>1. status[op] # "idle"
      BY ZenonT(60), <1>3
    <3> QED  BY ZenonT(60), <1>1, <3>1, BeforeKept
  <2>2. Contains(c.value, inc)
    BY ZenonT(60), <1>3, <2>1, SignalIsCurrent
  <2>3. local[OpNode[op]] \in Value /\ c.value \in Value
    BY ZenonT(60), <1>1, EngineAssumption, NodeAssumption DEF Typed, EngineTypeOK
  <2>4. /\ Join(local[OpNode[op]], c.value) \in Value
        /\ IsIn(c.value, Join(local[OpNode[op]], c.value))
    BY ZenonT(60), <2>3, JoinAbove
  <2> QED  BY ZenonT(60), <1>1, <1>3, <2>2, <2>3, <2>4, ContainsAbove
<1> QED  BY ZenonT(60), <1>1, <1>2, <1>3, OnlyOnLearnAnswers

\* As long as no proposer asks again for votes it still needs, an increment answers
\* with a value that has in it every increment that had returned, on any node,
\* before it was called; whatever reads do.
THEOREM IncrementsAnswerCurrent ==
  IncrementsToldApart => (EngineSpec /\ VotesAskedOnce => []IncrementsCurrent)
<1> SUFFICES ASSUME IncrementsToldApart
             PROVE  EngineSpec /\ VotesAskedOnce => []IncrementsCurrent
  OBVIOUS
<1>1. EngineInit => VotesAreBound /\ IncrementsCurrent
  BY SMTT(60) DEF EngineInit, EngineInitWith, VotesAreBound, IncrementsCurrent, AnswerIsCurrent,
                  Increment
<1>2. Typed /\ AnsweredIsHeld /\ IdleIsNowhere /\ VotesAreBound /\ [EngineNext]_allVars
        => VotesAreBound'
  BY ZenonT(60), BoundStep
<1>3. EngineInv /\ DecidedIsAdopted /\ ToldWasDecided /\ VotesAreBound /\ IncrementsCurrent
        /\ [EngineNext]_allVars => IncrementsCurrent'
  BY ZenonT(60), CurrentStep
<1>4. EngineInv => Typed
  BY ZenonT(60) DEF EngineInv
<1>5. EngineSpec => []IdleIsNowhere
  BY ZenonT(60), IdleInvariant
<1>6. EngineSpec /\ VotesAskedOnce => [](DecidedIsAdopted /\ AnsweredIsHeld)
  BY HeldInvariant, EngineDecisionsAdopted, PTL
<1>7. EngineSpec /\ VotesAskedOnce => []VotesAreBound
  BY <1>1, <1>2, <1>4, <1>5, <1>6, EngineInvariant, PTL DEF EngineSpec
<1> QED
  BY <1>1, <1>3, <1>6, <1>7, EngineInvariant, ToldInvariant, PTL DEF EngineSpec

\* Where clients only increment, every answer is current: what TLC checks on two
\* nodes holds on any number of them, with any number of calls.
THEOREM AnswersCurrent ==
  IncrementsToldApart /\ Op = Increment => (EngineSpec /\ VotesAskedOnce => []AnswersAreCurrent)
<1> SUFFICES ASSUME IncrementsToldApart, Op = Increment
             PROVE  EngineSpec /\ VotesAskedOnce => []AnswersAreCurrent
  OBVIOUS
<1>1. IncrementsCurrent => AnswersAreCurrent
  BY ZenonT(60) DEF IncrementsCurrent, AnswersAreCurrent
<1>2. EngineSpec /\ VotesAskedOnce => []IncrementsCurrent
  BY IncrementsAnswerCurrent
<1> QED  BY <1>1, <1>2, PTL
=============================================================================
