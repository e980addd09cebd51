---------------------------- MODULE EngineProofs ----------------------------
(***************************************************************************)
(* Safety of Engine for every cluster, lattice and set of operations, with *)
(* any number of rounds, losses, timeouts and repeated starts.             *)
(***************************************************************************)
EXTENDS Engine, LatticeAgreementSteps

-----------------------------------------------------------------------------
(* Types *)

\* A callback that runs is gone, one that is started is added.
LEMMA CallbackBag ==
  ASSUME NEW B, NEW S
  PROVE  /\ BagToSet(B (-) SetToBag(S)) \subseteq BagToSet(B)
         /\ BagToSet(B (+) SetToBag(S)) \subseteq BagToSet(B) \cup S
BY SMTT(60) DEF BagToSet, SetToBag, (+), (-)

Typed == TypeOK /\ EngineTypeOK

LEMMA EngineTypeInit == EngineInit => Typed
<1> SUFFICES ASSUME EngineInit PROVE Typed
  BY SMTT(60)
<1>1. TypeOK
  BY ZenonT(60), LatticeAssumption
  DEF EngineInit, EngineInitWith, Init, InitWith, TypeOK, NoVotes, EmptyBag, SetToBag, BagToSet
<1>2. BagToSet(callbacks) = {}
  BY DEF EngineInit, EngineInitWith, EmptyBag, SetToBag, BagToSet
<1> QED
  BY ZenonT(60), <1>1, <1>2, LatticeAssumption
  DEF Typed, EngineTypeOK, EngineInit, EngineInitWith

\* A step of the protocol that the engine only watches.
LEMMA ProtocolStep ==
  ASSUME TypeOK, NEW m \in BagToSet(net), Vote(m) \/ Drop(m) \/ Learn(m)
  PROVE  TypeOK' /\ submitted' = submitted
<1>1. Handle(m) \/ Lose(m)
  BY SMTT(60) DEF Vote, Drop, Learn, Handle
<1>2. submitted' = submitted
  BY ZenonT(60), <1>1 DEF Handle, HandleAck, HandleNack, HandlePropose, HandleLearn, Lose
<1> QED
  BY ZenonT(60), <1>1, <1>2, TypeStep DEF Step

LEMMA EngineTypeStep == Typed /\ [EngineNext]_allVars => Typed'
<1> SUFFICES ASSUME Typed, [EngineNext]_allVars PROVE Typed'
  BY ZenonT(60)
<1> USE EngineAssumption, NodeAssumption
<1>0. TypeOK /\ EngineTypeOK
  BY DEF Typed
<1>a. ASSUME UNCHANGED vars PROVE TypeOK'
  BY ZenonT(60), <1>0, <1>a, TypeStep
<1>1. ASSUME NEW op \in Op, Call(op) PROVE Typed'
  <2>1. TypeOK'
    BY ZenonT(60), <1>1, <1>a DEF Call
  <2>2. OpNode[op] \in Node /\ IncrementKey(local[OpNode[op]], op) \in Value
    BY ZenonT(60), <1>0 DEF EngineTypeOK
  <2>3. local' \in [Node -> Value]
    BY ZenonT(60), <1>0, <1>1, <2>2 DEF Call, EngineTypeOK
  <2>4. Done \subseteq Op
    BY SMTT(60) DEF Done
  <2> QED
    BY ZenonT(60), <1>0, <1>1, <2>1, <2>3, <2>4 DEF Typed, Call, Register, EngineTypeOK
<1>2. ASSUME NEW op \in Op, Return(op) \/ Timeout(op) PROVE Typed'
  BY ZenonT(60), <1>0, <1>2, <1>a DEF Typed, Return, Timeout, EngineTypeOK
<1>3. ASSUME NEW n \in Up, FlushCapture(n) PROVE Typed'
  <2>1. TypeOK'
    BY SMTT(60), <1>3, <1>a DEF FlushCapture
  <2>2. unflushed' \in [Node -> BOOLEAN]
    BY SMTT(60), <1>0, <1>3 DEF FlushCapture, EngineTypeOK
  <2>3. flushing' \in [Node -> {NoFlush} \cup {{v} : v \in Value}]
    BY ZenonT(60), <1>0, <1>3 DEF FlushCapture, EngineTypeOK
  <2> QED
    BY <1>0, <1>3, <2>1, <2>2, <2>3 DEF Typed, FlushCapture, EngineTypeOK
<1>4. ASSUME NEW n \in Up, FlushPropose(n) PROVE Typed'
  <2>1. TypeOK'
    <3>1. PICK v \in flushing[n] : Propose(n, v)
      BY ZenonT(60), <1>4 DEF FlushPropose
    <3>2. n \in Node /\ flushing[n] \in {NoFlush} \cup {{w} : w \in Value}
      BY SMTT(60), <1>0 DEF EngineTypeOK
    <3>3. v \in Value
      BY ZenonT(60), <3>1, <3>2 DEF NoFlush
    <3> QED
      BY ZenonT(60), <1>0, <3>1, <3>2, <3>3, ProposeType
  <2> QED
    BY SMTT(60), <1>0, <1>4, <2>1 DEF Typed, FlushPropose, EngineTypeOK
<1>5. ASSUME NEW n \in Up, SyncPropose(n) PROVE Typed'
  <2>1. TypeOK'
    BY ZenonT(60), <1>0, <1>5, ProposeType DEF SyncPropose, EngineTypeOK
  <2> QED
    BY ZenonT(60), <1>0, <1>5, <2>1 DEF Typed, SyncPropose, EngineTypeOK
<1>6. ASSUME NEW n \in Up, SyncReturn(n) \/ SyncTimeout(n) PROVE Typed'
  <2>1. TypeOK'
    BY SMTT(60), <1>6, <1>a DEF SyncReturn, SyncTimeout
  <2>2. local' \in [Node -> Value]
    BY ZenonT(60), <1>0, <1>6 DEF SyncReturn, SyncTimeout, EngineTypeOK
  <2>3. phase' \in [Node -> {"starting", "syncing", "synced", "running"}]
    BY ZenonT(60), <1>0, <1>6 DEF SyncReturn, SyncTimeout, EngineTypeOK
  <2>4. UNCHANGED <<unflushed, flushing, callbacks, syncOp, status, result, before>>
    BY <1>6 DEF SyncReturn, SyncTimeout
  <2> QED
    BY ZenonT(60), <1>0, <2>1, <2>2, <2>3, <2>4 DEF Typed, EngineTypeOK
<1>7. ASSUME NEW m \in BagToSet(net), Vote(m) \/ Drop(m) PROVE Typed'
  BY SMTT(60), <1>0, <1>7, ProtocolStep DEF Typed, Vote, Drop, engineVars, EngineTypeOK
<1>8. ASSUME NEW m \in BagToSet(net), Learn(m) PROVE Typed'
  <2>1. TypeOK'
    BY SMTT(60), <1>0, <1>8, ProtocolStep
  <2>2. m.to \in Node /\ learnedValue'[m.to] \in Value
    BY SMTT(60), <1>0, <2>1 DEF TypeOK, Message
  <2> DEFINE told == IF IsIn(learnedValue[m.to], m.value)
                     THEN {[node |-> m.to, value |-> learnedValue'[m.to]]} ELSE {}
  <2>3. callbacks' = callbacks (+) SetToBag(told)
    BY ZenonT(60), <1>8 DEF Learn
  <2>4. BagToSet(callbacks') \subseteq [node : Node, value : Value]
    BY SMTT(60), <1>0, <2>2, <2>3, CallbackBag DEF EngineTypeOK
  <2> QED
    BY ZenonT(60), <1>0, <1>8, <2>1, <2>4 DEF Typed, Learn, EngineTypeOK
<1>9. ASSUME NEW c \in BagToSet(callbacks), OnLearn(c) PROVE Typed'
  <2>1. TypeOK'
    BY SMTT(60), <1>9, <1>a DEF OnLearn
  <2>2. c.node \in Node /\ Join(local[c.node], c.value) \in Value
    BY ZenonT(60), <1>0, JoinAbove DEF EngineTypeOK
  <2>3. BagToSet(callbacks') \subseteq [node : Node, value : Value]
    BY ZenonT(60), <1>0, <1>9, CallbackBag DEF OnLearn, EngineTypeOK
  <2>4. local' \in [Node -> Value] /\ status' \in [Op -> {"idle", "waiting", "signalled", "done", "failed"}]
    BY ZenonT(60), <1>0, <1>9, <2>2 DEF OnLearn, EngineTypeOK
  <2>5. result' \in [Op -> Value]
    BY ZenonT(60), <1>0, <1>9, <2>2 DEF OnLearn, EngineTypeOK
  <2>6. phase' \in [Node -> {"starting", "syncing", "synced", "running"}] /\ syncOp' \in [Node -> Value]
    BY ZenonT(60), <1>0, <1>9, <2>2 DEF OnLearn, EngineTypeOK
  <2> QED
    BY ZenonT(60), <1>0, <1>9, <2>1, <2>3, <2>4, <2>5, <2>6 DEF Typed, OnLearn, EngineTypeOK
<1>10. ASSUME UNCHANGED allVars PROVE Typed'
  BY ZenonT(60), <1>0, <1>10, <1>a DEF Typed, allVars, engineVars, EngineTypeOK
<1> QED
  BY ZenonT(60), <1>1, <1>2, <1>3, <1>4, <1>5, <1>6, <1>7, <1>8, <1>9, <1>10 DEF EngineNext
-----------------------------------------------------------------------------
(* Increments *)

\* Clients are served by nodes that run, and a node that runs stays running: so
\* SyncReturn, which replaces the local counters, comes before any increment.
ServedByRunning == \A op \in Op : status[op] # "idle" => phase[OpNode[op]] = "running"

EngineInv == Typed /\ ServedByRunning /\ OwnIncrementsStay /\ WaitingIsCarried

\* What contains an increment is in everything above it.
LEMMA ContainsAbove ==
  ASSUME NEW op \in Op, NEW v \in Value, NEW w \in Value, Contains(v, op), IsIn(v, w)
  PROVE  Contains(w, op)
BY ZenonT(60), IsInTransitive, EngineAssumption, LatticeAssumption DEF Contains

\* An operation that is not idle was called in this step or is not new.
LEMMA OnlyCallBegins ==
  ASSUME Typed, [EngineNext]_allVars, NEW op \in Op, status[op] = "idle", status'[op] # "idle"
  PROVE  Call(op)
<1>0. status \in [Op -> {"idle", "waiting", "signalled", "done", "failed"}]
  BY SMTT(60) DEF Typed, EngineTypeOK
<1>1. \A x \in Op : Call(x) /\ x # op => status'[op] = status[op]
  BY SMTT(60), <1>0 DEF Call, Register
<1>2. \A x \in Op : Return(x) \/ Timeout(x) => status'[op] = status[op]
  BY SMTT(60), <1>0 DEF Return, Timeout
<1>3. \A c \in BagToSet(callbacks) : OnLearn(c) => status'[op] = status[op]
  BY SMTT(60), <1>0 DEF OnLearn, Answered
<1>4. \A n \in Up : FlushCapture(n) \/ FlushPropose(n) \/ SyncPropose(n) \/ SyncReturn(n)
                      \/ SyncTimeout(n) => status' = status
  BY ZenonT(60) DEF FlushCapture, FlushPropose, SyncPropose, SyncReturn, SyncTimeout
<1>5. \A m \in BagToSet(net) : Vote(m) \/ Learn(m) \/ Drop(m) => status' = status
  BY SMTT(60) DEF Vote, Learn, Drop, engineVars
<1> QED
  BY ZenonT(60), <1>1, <1>2, <1>3, <1>4, <1>5 DEF EngineNext, allVars, engineVars

LEMMA RunningStep == Typed /\ ServedByRunning /\ [EngineNext]_allVars => ServedByRunning'
<1> SUFFICES ASSUME Typed, ServedByRunning, [EngineNext]_allVars, NEW op \in Op, status'[op] # "idle"
             PROVE  phase'[OpNode[op]] = "running"
  BY SMTT(60) DEF ServedByRunning
<1> USE EngineAssumption, NodeAssumption
<1>0. /\ phase \in [Node -> {"starting", "syncing", "synced", "running"}] /\ OpNode[op] \in Node
      /\ status \in [Op -> {"idle", "waiting", "signalled", "done", "failed"}]
  BY SMTT(60) DEF Typed, EngineTypeOK
<1>1. phase[OpNode[op]] = "running" => phase'[OpNode[op]] = "running"
  <2>1. \A n \in Up : SyncPropose(n) \/ SyncReturn(n) \/ SyncTimeout(n) =>
          \E x \in {"starting", "syncing", "running"} : /\ phase' = [phase EXCEPT ![n] = x]
                                                        /\ phase[n] # "running"
    BY ZenonT(60) DEF SyncPropose, SyncReturn, SyncTimeout
  <2>2. \A c \in BagToSet(callbacks) : OnLearn(c) =>
          phase' = phase \/ (phase[c.node] = "syncing" /\ phase' = [phase EXCEPT ![c.node] = "synced"])
    BY SMTT(60) DEF OnLearn
  <2>3. \A x \in Op : Call(x) \/ Return(x) \/ Timeout(x) => phase' = phase
    BY SMTT(60) DEF Call, Return, Timeout
  <2>4. \A n \in Up : FlushCapture(n) \/ FlushPropose(n) => phase' = phase
    BY ZenonT(60) DEF FlushCapture, FlushPropose
  <2>5. \A m \in BagToSet(net) : Vote(m) \/ Learn(m) \/ Drop(m) => phase' = phase
    BY SMTT(60) DEF Vote, Learn, Drop, engineVars
  <2> QED
    BY ZenonT(60), <1>0, <2>1, <2>2, <2>3, <2>4, <2>5 DEF EngineNext, allVars, engineVars
<1>2. CASE status[op] # "idle"
  BY ZenonT(60), <1>1, <1>2 DEF ServedByRunning
<1>3. CASE status[op] = "idle"
  <2>1. Call(op)
    BY ZenonT(60), <1>3, OnlyCallBegins
  <2> QED
    BY SMTT(60), <1>1, <2>1 DEF Call
<1> QED
  BY ZenonT(60), <1>2, <1>3

\* The local counters of a node that serves clients only grow.
LEMMA ServingGrows ==
  ASSUME Typed, [EngineNext]_allVars, NEW n \in Node, phase[n] = "running"
  PROVE  IsIn(local[n], local'[n])
<1> USE EngineAssumption, NodeAssumption
<1>0. local \in [Node -> Value] /\ BagToSet(callbacks) \subseteq [node : Node, value : Value]
  BY SMTT(60) DEF Typed, EngineTypeOK
<1>1. CASE local'[n] = local[n]
  BY ZenonT(60), <1>0, <1>1, LatticeAssumption
<1>2. ASSUME NEW op \in Op, Call(op), local' # local PROVE IsIn(local[n], local'[n])
  <2>1. OpKind[op] = "increment" /\ local' = [local EXCEPT ![OpNode[op]] = IncrementKey(@, op)]
    BY SMTT(60), <1>2 DEF Call
  <2> QED
    BY ZenonT(60), <1>0, <1>1, <2>1
<1>3. ASSUME NEW x \in Up, SyncReturn(x) PROVE local'[n] = local[n]
  BY ZenonT(60), <1>0, <1>3 DEF SyncReturn
<1>4. ASSUME NEW c \in BagToSet(callbacks), OnLearn(c) PROVE IsIn(local[n], local'[n])
  <2>1. local' = [local EXCEPT ![c.node] = Join(local[c.node], c.value)] /\ c.value \in Value
    BY SMTT(60), <1>0, <1>4 DEF OnLearn
  <2> QED
    BY ZenonT(60), <1>0, <1>1, <2>1, JoinAbove
<1>5. \A op \in Op : Return(op) \/ Timeout(op) => local' = local
  BY ZenonT(60) DEF Return, Timeout
<1>6. \A x \in Up : FlushCapture(x) \/ FlushPropose(x) \/ SyncPropose(x) \/ SyncTimeout(x) => local' = local
  BY ZenonT(60) DEF FlushCapture, FlushPropose, SyncPropose, SyncTimeout
<1>7. \A m \in BagToSet(net) : Vote(m) \/ Learn(m) \/ Drop(m) => local' = local
  BY ZenonT(60) DEF Vote, Learn, Drop, engineVars
<1> QED
  BY ZenonT(60), <1>1, <1>2, <1>3, <1>4, <1>5, <1>6, <1>7 DEF EngineNext, allVars, engineVars

LEMMA IncrementsStep == EngineInv /\ [EngineNext]_allVars => OwnIncrementsStay'
<1> SUFFICES ASSUME EngineInv, [EngineNext]_allVars, NEW op \in Increment, status'[op] # "idle"
             PROVE  Contains(local'[OpNode[op]], op)
  BY ZenonT(60) DEF OwnIncrementsStay, Contains, Increment
<1> USE EngineAssumption, NodeAssumption
<1>0. /\ Typed /\ Typed' /\ op \in Op /\ OpKind[op] = "increment" /\ OpNode[op] \in Node
      /\ local[OpNode[op]] \in Value /\ local'[OpNode[op]] \in Value
  BY ZenonT(60), EngineTypeStep DEF EngineInv, Typed, EngineTypeOK, Increment
<1>1. CASE status[op] = "idle"
  <2>1. Call(op)
    BY ZenonT(60), <1>0, <1>1, OnlyCallBegins
  <2>2. local' = [local EXCEPT ![OpNode[op]] = IncrementKey(@, op)]
    BY ZenonT(60), <1>0, <2>1 DEF Call
  <2>3. local'[OpNode[op]] = IncrementKey(local[OpNode[op]], op)
    BY ZenonT(60), <1>0, <2>2 DEF Typed, EngineTypeOK
  <2> QED
    BY ZenonT(60), <1>0, <2>3 DEF Contains
<1>2. CASE status[op] # "idle"
  <2>1. Contains(local[OpNode[op]], op) /\ phase[OpNode[op]] = "running"
    BY ZenonT(60), <1>0, <1>2 DEF EngineInv, OwnIncrementsStay, ServedByRunning, Increment
  <2>2. IsIn(local[OpNode[op]], local'[OpNode[op]])
    BY ZenonT(60), <1>0, <2>1, ServingGrows
  <2> QED
    BY ZenonT(60), <1>0, <2>1, <2>2, ContainsAbove
<1> QED
  BY SMTT(60), <1>1, <1>2

\* The batch, the copy and what was submitted: each step passes on what waits.
LEMMA CarriedStep == EngineInv /\ [EngineNext]_allVars => WaitingIsCarried'
<1> SUFFICES ASSUME EngineInv, [EngineNext]_allVars, NEW op \in Increment, status'[op] = "waiting"
             PROVE  \/ unflushed'[OpNode[op]]
                    \/ \E v \in flushing'[OpNode[op]] \cup submitted'[OpNode[op]] : Contains(v, op)
  BY SMTT(60) DEF WaitingIsCarried, Contains, Increment
<1> DEFINE n == OpNode[op]
           Carried == unflushed[n] \/ \E v \in flushing[n] \cup submitted[n] : Contains(v, op)
<1> SUFFICES Carried'
  BY ZenonT(60) DEF Contains
<1> USE EngineAssumption, NodeAssumption
<1>0. /\ TypeOK /\ EngineTypeOK /\ op \in Op /\ n \in Node
      /\ status \in [Op -> {"idle", "waiting", "signalled", "done", "failed"}]
      /\ flushing \in [Node -> {NoFlush} \cup {{v} : v \in Value}]
      /\ unflushed \in [Node -> BOOLEAN] /\ submitted \in [Node -> SUBSET Value]
  BY ZenonT(60) DEF EngineInv, Typed, TypeOK, EngineTypeOK, Increment
<1>1. CASE Call(op)
  BY SMTT(60), <1>0, <1>1 DEF Call, Register
<1>2. CASE ~Call(op)
  <2>1. status[op] # "idle"
    BY ZenonT(60), <1>0, <1>2, OnlyCallBegins DEF EngineInv
  <2>2. Contains(local[n], op)
    BY SMTT(60), <2>1 DEF EngineInv, OwnIncrementsStay
  <2>3. ASSUME NEW x \in Op, Call(x) PROVE Carried'
    <3>1. x # op /\ status[op] = "waiting" /\ flushing' = flushing /\ submitted' = submitted
      BY ZenonT(60), <1>0, <1>2, <2>3 DEF Call, Register, vars
    <3>2. unflushed' = [unflushed EXCEPT ![OpNode[x]] = TRUE]
      BY SMTT(60), <2>3 DEF Call, Register
    <3>3. Carried
      BY ZenonT(60), <3>1 DEF EngineInv, WaitingIsCarried
    <3> QED
      BY ZenonT(60), <1>0, <3>1, <3>2, <3>3 DEF Contains
  <2>4. ASSUME UNCHANGED <<unflushed, flushing, submitted>>, status[op] = "waiting" PROVE Carried'
    BY ZenonT(60), <2>4 DEF EngineInv, WaitingIsCarried, Contains
  <2>5. ASSUME NEW x \in Op, Return(x) \/ Timeout(x) PROVE Carried'
    BY ZenonT(60), <1>0, <2>4, <2>5 DEF Return, Timeout, vars
  <2>6. ASSUME NEW x \in Up, FlushCapture(x) PROVE Carried'
    <3>1. /\ flushing[x] = NoFlush /\ flushing' = [flushing EXCEPT ![x] = {local[x]}]
          /\ unflushed' = [unflushed EXCEPT ![x] = FALSE] /\ submitted' = submitted /\ status' = status
      BY ZenonT(60), <2>6 DEF FlushCapture, vars
    <3>2. CASE x = n
      BY ZenonT(60), <1>0, <2>2, <3>1, <3>2 DEF Contains
    <3>3. CASE x # n
      <4>1. Carried
        BY ZenonT(60), <3>1 DEF EngineInv, WaitingIsCarried
      <4> QED
        BY ZenonT(60), <1>0, <3>1, <3>3, <4>1 DEF Contains
    <3> QED
      BY ZenonT(60), <3>2, <3>3
  <2>7. ASSUME NEW x \in Up, FlushPropose(x) PROVE Carried'
    <3>1. PICK v \in flushing[x] : submitted' = [submitted EXCEPT ![x] = @ \cup {v}]
      BY ZenonT(60), <2>7 DEF FlushPropose, Propose
    <3>2. flushing' = [flushing EXCEPT ![x] = NoFlush] /\ unflushed' = unflushed /\ status' = status
      BY ZenonT(60), <2>7 DEF FlushPropose
    <3>3. Carried
      BY ZenonT(60), <3>2 DEF EngineInv, WaitingIsCarried
    <3>4. \A u \in flushing[n] \cup submitted[n] : u \in flushing'[n] \cup submitted'[n]
      BY SMTT(60), <1>0, <3>1, <3>2 DEF NoFlush
    <3> QED
      BY ZenonT(60), <3>2, <3>3, <3>4 DEF Contains
  <2>8. ASSUME NEW x \in Up, SyncPropose(x) PROVE Carried'
    <3>1. submitted' = [submitted EXCEPT ![x] = @ \cup {local[x]}] /\ UNCHANGED <<unflushed, flushing, status>>
      BY ZenonT(60), <2>8 DEF SyncPropose, Propose
    <3>2. Carried
      BY SMTT(60), <3>1 DEF EngineInv, WaitingIsCarried
    <3>3. \A u \in flushing[n] \cup submitted[n] : u \in flushing'[n] \cup submitted'[n]
      BY ZenonT(60), <1>0, <3>1
    <3> QED
      BY SMTT(60), <3>1, <3>2, <3>3 DEF Contains
  <2>9. ASSUME NEW x \in Up, SyncReturn(x) \/ SyncTimeout(x) PROVE Carried'
    BY ZenonT(60), <2>4, <2>9 DEF SyncReturn, SyncTimeout, vars
  <2>10. ASSUME NEW m \in BagToSet(net), Vote(m) \/ Drop(m) \/ Learn(m) PROVE Carried'
    <3>1. submitted' = submitted
      BY SMTT(60), <1>0, <2>10, ProtocolStep
    <3> QED
      BY ZenonT(60), <2>4, <2>10, <3>1 DEF Vote, Drop, Learn, engineVars
  <2>11. ASSUME NEW c \in BagToSet(callbacks), OnLearn(c) PROVE Carried'
    <3>1. status[op] = "waiting"
      BY ZenonT(60), <1>0, <2>11 DEF OnLearn
    <3> QED
      BY ZenonT(60), <2>4, <2>11, <3>1 DEF OnLearn, vars
  <2>12. ASSUME UNCHANGED allVars PROVE Carried'
    BY SMTT(60), <2>4, <2>12 DEF allVars, engineVars, vars
  <2> QED
    BY ZenonT(60), <2>3, <2>5, <2>6, <2>7, <2>8, <2>9, <2>10, <2>11, <2>12 DEF EngineNext
<1> QED
  BY ZenonT(60), <1>1, <1>2

LEMMA EngineInvariant == EngineSpec => []EngineInv
<1>1. EngineInit => EngineInv
  <2> SUFFICES ASSUME EngineInit PROVE EngineInv
    OBVIOUS
  <2>1. \A op \in Op : status[op] = "idle"
    BY SMTT(60) DEF EngineInit, EngineInitWith
  <2> QED
    BY SMTT(60), <2>1, EngineTypeInit DEF EngineInv, ServedByRunning, OwnIncrementsStay, WaitingIsCarried, Increment
<1>2. EngineInv /\ [EngineNext]_allVars => EngineInv'
  BY ZenonT(60), EngineTypeStep, RunningStep, IncrementsStep, CarriedStep DEF EngineInv
<1> QED
  BY <1>1, <1>2, PTL DEF EngineSpec
-----------------------------------------------------------------------------
(* The theorems *)

\* The fields of the engine and its callbacks keep their types.
THEOREM EngineTypeCorrect == EngineSpec => []EngineTypeOK
<1>1. EngineInv => EngineTypeOK
  BY SMTT(60) DEF EngineInv, Typed
<1> QED
  BY <1>1, EngineInvariant, PTL

\* An increment stays in the local counters of its node, although sync replaces
\* them: Start ends before clients are served.
THEOREM IncrementsAreKept == EngineSpec => []OwnIncrementsStay
<1>1. EngineInv => OwnIncrementsStay
  BY SMTT(60) DEF EngineInv
<1> QED
  BY <1>1, EngineInvariant, PTL

\* flush passes every increment that waits to the proposer, although it lets go
\* of the lock in between.
THEOREM NothingWaitsForgotten == EngineSpec => []WaitingIsCarried
<1>1. EngineInv => WaitingIsCarried
  BY DEF EngineInv
<1> QED
  BY <1>1, EngineInvariant, PTL

\* Once a node serves clients, its local counters never lose anything.
THEOREM ServingCountersGrow == EngineSpec => LocalCountersGrow
<1> DEFINE Grow == \A n \in Node : phase[n] = "running" => IsIn(local[n], local'[n])
<1>1. EngineInv /\ [EngineNext]_allVars => [Grow]_allVars
  BY SMTT(60), ServingGrows DEF EngineInv
<1> QED
  BY <1>1, EngineInvariant, PTL DEF EngineSpec, LocalCountersGrow
=============================================================================
