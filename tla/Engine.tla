------------------------------- MODULE Engine -------------------------------
(***************************************************************************)
(* internal/engine on top of the agreement protocol.  Clients increment    *)
(* and read counters on some node; the node batches them, proposes its     *)
(* local counters, and answers an operation when the onLearn callback      *)
(* brings a value that contains the node's local counters.                 *)
(*                                                                         *)
(* A pendingOp keeps the pointer s.localCounters and not a copy, so the    *)
(* value onLearn compares with is the local counters of that moment.  The  *)
(* callbacks run in goroutines of their own: in any order, at any time.    *)
(***************************************************************************)
EXTENDS LatticeAgreement

CONSTANTS
  Op,                  \* the operations clients call
  OpNode,              \* OpNode[op]: the node op is called on
  OpKind,              \* OpKind[op]: "increment" or "read"
  IncrementKey(_, _),  \* IncrementKey(v, op): v with the increment of op made
  Starting,            \* the nodes that still have to run Start
  Timeouts             \* whose RoundTimeout may expire: "operation", "sync"

ASSUME EngineAssumption ==
  /\ OpNode \in [Op -> Up]
  /\ OpKind \in [Op -> {"increment", "read"}]
  /\ \A v \in Value, op \in Op : IncrementKey(v, op) \in Value
  /\ \A v \in Value, op \in Op :
       OpKind[op] = "increment" => /\ IsIn(v, IncrementKey(v, op))
                                   /\ IsIn(IncrementKey(Bottom, op), IncrementKey(v, op))
  /\ Starting \subseteq Up
  /\ Timeouts \subseteq {"operation", "sync"}

VARIABLES
  local,               \* Engine.localCounters
  unflushed,           \* unflushedOps > 0
  flushing,            \* stateToPropose of a flush that has not proposed yet
  callbacks,           \* bag of onLearn goroutines that have not run yet
  phase,               \* where Start is on each node
  syncOp,              \* sync: the value proposed, then the value signalled
  status,              \* status[op]: where operation op is
  result,              \* result[op]: what the done channel of op holds
  before               \* history: operations that had returned when op began

engineVars == <<local, unflushed, flushing, callbacks, phase, syncOp,
                status, result, before>>
allVars == <<vars, engineVars>>

NoFlush == {}

EngineInitWith(state) ==
  /\ Init
  /\ local = [n \in Node |-> state]
  /\ unflushed = [n \in Node |-> FALSE]
  /\ flushing = [n \in Node |-> NoFlush]
  /\ callbacks = EmptyBag
  /\ phase = [n \in Node |-> IF n \in Starting THEN "starting" ELSE "running"]
  /\ syncOp = [n \in Node |-> Bottom]
  /\ status = [op \in Op |-> "idle"]
  /\ result = [op \in Op |-> Bottom]
  /\ before = [op \in Op |-> {}]

\* Mutant: no state is put in place of one that could not be loaded.
EngineInitNil == EngineInitWith({"nil"})

\* New with nothing on disk.  Nodes outside Starting have run Start already.
EngineInit == EngineInitWith(Bottom)

Done == {op \in Op : status[op] = "done"}

-----------------------------------------------------------------------------
(* Operations of clients *)

\* registerPendingLocked and addOpToBatchLocked.  A batch that is full is
\* flushed at once, any other at the next tick: the model flushes at any time.
Register(op) ==
  /\ status' = [status EXCEPT ![op] = "waiting"]
  /\ before' = [before EXCEPT ![op] = Done]
  /\ unflushed' = [unflushed EXCEPT ![OpNode[op]] = TRUE]

\* Mutant: clients are served while the node still starts.
CallBeforeStart(op) ==
  LET n == OpNode[op]
  IN  /\ status[op] = "idle"
      /\ local' = IF OpKind[op] = "increment"
                  THEN [local EXCEPT ![n] = IncrementKey(@, op)]
                  ELSE local
      /\ Register(op)
      /\ UNCHANGED <<vars, flushing, callbacks, phase, syncOp, result>>

\* IncrementKey and ValueForKey up to the wait: the increment is made, the
\* operation registered as pending and counted in the batch under one lock.
Call(op) ==
  LET n == OpNode[op]
  IN  /\ status[op] = "idle"
      /\ phase[n] = "running"
      /\ local' = IF OpKind[op] = "increment"
                  THEN [local EXCEPT ![n] = IncrementKey(@, op)]
                  ELSE local
      /\ Register(op)
      /\ UNCHANGED <<vars, flushing, callbacks, phase, syncOp, result>>

\* waitForLearn returns the value signalled.
Return(op) ==
  /\ status[op] = "signalled"
  /\ status' = [status EXCEPT ![op] = "done"]
  /\ UNCHANGED <<vars, local, unflushed, flushing, callbacks, phase, syncOp,
                 result, before>>

\* waitForLearn times out, and may do so although a value was just signalled.
\* The increment stays in the local counters.
Timeout(op) ==
  /\ "operation" \in Timeouts
  /\ status[op] \in {"waiting", "signalled"}
  /\ status' = [status EXCEPT ![op] = "failed"]
  /\ UNCHANGED <<vars, local, unflushed, flushing, callbacks, phase, syncOp,
                 result, before>>

-----------------------------------------------------------------------------
(* The flusher *)

\* Mutant: the copy is one of what the node has learned.
FlushCaptureLearned(n) ==
  /\ phase[n] = "running"
  /\ unflushed[n] /\ flushing[n] = NoFlush
  /\ flushing' = [flushing EXCEPT ![n] = {learnedValue[n]}]
  /\ unflushed' = [unflushed EXCEPT ![n] = FALSE]
  /\ UNCHANGED <<vars, local, callbacks, phase, syncOp, status, result, before>>

\* flush under the lock: copy the local counters, reset the batch.
FlushCapture(n) ==
  /\ phase[n] = "running"
  /\ unflushed[n] /\ flushing[n] = NoFlush
  /\ flushing' = [flushing EXCEPT ![n] = {local[n]}]
  /\ unflushed' = [unflushed EXCEPT ![n] = FALSE]
  /\ UNCHANGED <<vars, local, callbacks, phase, syncOp, status, result, before>>

\* flush after the lock: propose the copy.
FlushPropose(n) ==
  /\ \E v \in flushing[n] : Propose(n, v)
  /\ flushing' = [flushing EXCEPT ![n] = NoFlush]
  /\ UNCHANGED <<local, unflushed, callbacks, phase, syncOp, status, result, before>>

-----------------------------------------------------------------------------
(* Startup *)

\* sync up to the wait: propose a copy of the local counters.
SyncPropose(n) ==
  /\ phase[n] = "starting"
  /\ Propose(n, local[n])
  /\ phase' = [phase EXCEPT ![n] = "syncing"]
  /\ syncOp' = [syncOp EXCEPT ![n] = local[n]]
  /\ UNCHANGED <<local, unflushed, flushing, callbacks, status, result, before>>

\* sync after the wait: the copy made when the operation was signalled replaces
\* the local counters, and the node serves clients.
SyncReturn(n) ==
  /\ phase[n] = "synced"
  /\ local' = [local EXCEPT ![n] = syncOp[n]]
  /\ phase' = [phase EXCEPT ![n] = "running"]
  /\ UNCHANGED <<vars, unflushed, flushing, callbacks, syncOp, status, result, before>>

\* Bound: another sync leaves a round to each operation of the node.
RetryBound(n) == rounds[n] + Cardinality({op \in Op : OpNode[op] = n}) < MaxRounds[n]

\* sync times out; Start calls it again.
SyncTimeout(n) ==
  /\ "sync" \in Timeouts /\ RetryBound(n)
  /\ phase[n] \in {"syncing", "synced"}
  /\ phase' = [phase EXCEPT ![n] = "starting"]
  /\ UNCHANGED <<vars, local, unflushed, flushing, callbacks, syncOp, status,
                 result, before>>

-----------------------------------------------------------------------------
(* Learning *)

\* HandleLearn with its last statement: unless the LEARN is stale, the engine
\* is told what is learned, also when that is not new.
Learn(m) ==
  LET told == IF IsIn(learnedValue[m.to], m.value)
              THEN {[node |-> m.to, value |-> learnedValue'[m.to]]} ELSE {}
  IN  /\ HandleLearn(m)
      /\ callbacks' = callbacks (+) SetToBag(told)
      /\ UNCHANGED <<local, unflushed, flushing, phase, syncOp, status, result, before>>

\* The operations of node n that onLearn signals.
Answered(n, merged, learned) ==
  {op \in Op : OpNode[op] = n /\ status[op] = "waiting" /\ IsIn(merged, learned)}

\* Mutant: any LEARN answers the operations that wait.
OnLearnAnswersAll(c) ==
  LET n == c.node
      merged == Join(local[n], c.value)
      answered == {op \in Op : OpNode[op] = n /\ status[op] = "waiting"}
  IN  /\ callbacks' = callbacks (-) SetToBag({c})
      /\ local' = [local EXCEPT ![n] = merged]
      /\ status' = [op \in Op |-> IF op \in answered THEN "signalled" ELSE status[op]]
      /\ result' = [op \in Op |-> IF op \in answered THEN merged ELSE result[op]]
      /\ UNCHANGED <<vars, unflushed, flushing, before, phase, syncOp>>

\* Mutant: the learned value replaces the local counters.
OnLearnOverwrites(c) ==
  LET answered == Answered(c.node, local[c.node], c.value)
  IN  /\ callbacks' = callbacks (-) SetToBag({c})
      /\ local' = [local EXCEPT ![c.node] = c.value]
      /\ status' = [op \in Op |-> IF op \in answered THEN "signalled" ELSE status[op]]
      /\ result' = [op \in Op |-> IF op \in answered THEN c.value ELSE result[op]]
      /\ UNCHANGED <<vars, unflushed, flushing, before, phase, syncOp>>

\* The onLearn callback: merge, then signal the operations whose proposed value
\* is below the value learned.  The one of sync is a copy, the others are the
\* local counters themselves.
OnLearn(c) ==
  LET n == c.node
      merged == Join(local[n], c.value)
      answered == Answered(n, merged, c.value)
      synced == phase[n] = "syncing" /\ IsIn(syncOp[n], c.value)
  IN  /\ callbacks' = callbacks (-) SetToBag({c})
      /\ local' = [local EXCEPT ![n] = merged]
      /\ status' = [op \in Op |-> IF op \in answered THEN "signalled" ELSE status[op]]
      /\ result' = [op \in Op |-> IF op \in answered THEN merged ELSE result[op]]
      /\ phase' = IF synced THEN [phase EXCEPT ![n] = "synced"] ELSE phase
      /\ syncOp' = IF synced THEN [syncOp EXCEPT ![n] = merged] ELSE syncOp
      /\ UNCHANGED <<vars, unflushed, flushing, before>>

-----------------------------------------------------------------------------

\* A turn of the proposer or the acceptor of a node.
Vote(m) ==
  /\ HandleAck(m) \/ HandleNack(m) \/ HandlePropose(m)
  /\ UNCHANGED engineVars

Drop(m) == Lose(m) /\ UNCHANGED engineVars

EngineNext ==
  \/ \E op \in Op : Call(op) \/ Return(op) \/ Timeout(op)
  \/ \E n \in Up : \/ FlushCapture(n) \/ FlushPropose(n)
                   \/ SyncPropose(n) \/ SyncReturn(n) \/ SyncTimeout(n)
  \/ \E m \in BagToSet(net) : Vote(m) \/ Learn(m) \/ Drop(m)
  \/ \E c \in BagToSet(callbacks) : OnLearn(c)

EngineSpec == EngineInit /\ [][EngineNext]_allVars

\* Nothing makes clients call, and no timer of the model has to fire.  A client
\* that is signalled returns, the flusher ticks, Start goes on, goroutines run.
EngineFairness ==
  /\ \A op \in Op : WF_allVars(Return(op))
  /\ \A n \in Up : /\ WF_allVars(FlushCapture(n)) /\ WF_allVars(FlushPropose(n))
                    /\ WF_allVars(SyncPropose(n)) /\ WF_allVars(SyncReturn(n))
                    /\ WF_allVars(\E c \in BagToSet(callbacks) : c.node = n /\ OnLearn(c))
                    /\ WF_allVars(\E m \in BagToSet(net) : m.to = n /\ Vote(m))
                    /\ WF_allVars(\E m \in BagToSet(net) : m.to = n /\ Learn(m))

EngineFairSpec == EngineSpec /\ EngineFairness
-----------------------------------------------------------------------------
(* Properties *)

\* The fields of Engine and the callbacks under way have their types.
EngineTypeOK ==
  /\ local \in [Node -> Value]
  /\ unflushed \in [Node -> BOOLEAN]
  /\ flushing \in [Node -> {NoFlush} \cup {{v} : v \in Value}]
  /\ BagToSet(callbacks) \subseteq [node : Node, value : Value]
  /\ phase \in [Node -> {"starting", "syncing", "synced", "running"}]
  /\ syncOp \in [Node -> Value]
  /\ status \in [Op -> {"idle", "waiting", "signalled", "done", "failed"}]
  /\ result \in [Op -> Value]
  /\ before \in [Op -> SUBSET Op]

Contains(v, op) == IsIn(IncrementKey(Bottom, op), v)

Increment == {op \in Op : OpKind[op] = "increment"}

\* An increment gets into a value only by being made: not into the bottom, not
\* by a merge of values without it, not by the increment of another operation.
IncrementsToldApart ==
  \A op \in Increment :
    /\ ~Contains(Bottom, op)
    /\ \A u, v \in Value : Contains(Join(u, v), op) => Contains(u, op) \/ Contains(v, op)
    /\ \A v \in Value, other \in Increment \ {op} :
         Contains(IncrementKey(v, other), op) => Contains(v, op)

\* The value op answers with has its own increment and all that had returned.
AnswerIsCurrent(op) ==
  status[op] \in {"signalled", "done"} =>
    \A inc \in (before[op] \cup {op}) \cap Increment : Contains(result[op], inc)

\* Linearizability as clients see it: the value an operation answers with has
\* its own increment and every increment that had returned, on any node, before
\* the operation was called (onLearn: "linearisable guarantee for that caller").
AnswersAreCurrent == \A op \in Op : AnswerIsCurrent(op)

\* IncrementKey returns true only when acceptors of a majority hold the
\* increment, so that any later quorum meets it (IncrementKey: "Blocks until a
\* quorum LEARN containing the increment is received or timeout").
DoneIsHeldByMajority ==
  \A op \in Increment \cap Done :
    Majority({a \in Node : Contains(acceptedValue[a], op)})

\* An increment that was called stays in the counters of its node, whatever
\* sync, old LEARNs and timeouts do: it is part of everything proposed later.
OwnIncrementsStay ==
  \A op \in Increment : status[op] # "idle" => Contains(local[OpNode[op]], op)

\* Nothing is forgotten between the batch and the proposer: the increment of an
\* operation that waits is in the batch, in the copy a flush has taken, or in a
\* value given to Propose (flush releases the lock before it proposes).
WaitingIsCarried ==
  \A op \in Increment : status[op] = "waiting" =>
    LET n == OpNode[op]
    IN  unflushed[n] \/ \E v \in flushing[n] \cup submitted[n] : Contains(v, op)

\* What a node that serves clients has merged it keeps: neither the merge of an
\* old LEARN nor a late SyncReturn takes anything out of the local counters
\* (README: "no data is lost since the CRDT state is monotonic").
LocalCountersGrow ==
  [][\A n \in Node : phase[n] = "running" => IsIn(local[n], local'[n])]_allVars

\* While a majority is reachable and nothing is lost, every operation called
\* returns without waiting for its timer to expire, however calls, flushes,
\* rounds and callbacks of the nodes interleave and however often sync timed out.
EveryCallReturns == \A op \in Op : (status[op] = "waiting") ~> (status[op] \in {"done", "failed"})
=============================================================================
