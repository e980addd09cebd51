------------------------------ MODULE Restart -------------------------------
(***************************************************************************)
(* The engine with nodes that crash and come back.  snapshotLoop saves the *)
(* local counters; FileStorage implements SnapshotStore, so a snapshot is  *)
(* a register.  New loads it, gives the three roles of lattice agreement   *)
(* the bottom of the lattice, and Start runs again.                        *)
(***************************************************************************)
EXTENDS Engine

CONSTANT MaxCrashes   \* bound

VARIABLES
  snapshot,           \* what storage.Load finds on each node
  crashes             \* how many crashes there were

restartVars == <<allVars, snapshot, crashes>>

RestartInit ==
  /\ EngineInit
  /\ snapshot = [n \in Node |-> Bottom]
  /\ crashes = 0

\* snapshotLoop copies and saves.
Snapshot(n) ==
  /\ phase[n] = "running"
  /\ snapshot' = [snapshot EXCEPT ![n] = local[n]]
  /\ UNCHANGED <<allVars, crashes>>

\* New: the engine starts from the snapshot, with no pending operation, no
\* batch and no callback; the clients that waited get no answer.
NewEngine(n) ==
  /\ local' = [local EXCEPT ![n] = snapshot[n]]
  /\ unflushed' = [unflushed EXCEPT ![n] = FALSE]
  /\ flushing' = [flushing EXCEPT ![n] = NoFlush]
  /\ callbacks' = [c \in {d \in BagToSet(callbacks) : d.node # n} |-> callbacks[c]]
  /\ phase' = [phase EXCEPT ![n] = "starting"]
  /\ status' = [op \in Op |->
       IF OpNode[op] = n /\ status[op] \in {"waiting", "signalled"}
         THEN "failed" ELSE status[op]]
  /\ UNCHANGED <<syncOp, result, before>>

\* NewLatticeAgreement: proposer, acceptor and learner start from the bottom.
NewLatticeAgreement(n) ==
  /\ quorumReached' = [quorumReached EXCEPT ![n] = FALSE]
  /\ acksReceived' = [acksReceived EXCEPT ![n] = NoVotes]
  /\ proposedValue' = [proposedValue EXCEPT ![n] = Bottom]
  /\ bufferedValue' = [bufferedValue EXCEPT ![n] = Bottom]
  /\ acceptedValue' = [acceptedValue EXCEPT ![n] = Bottom]
  /\ learnedValue' = [learnedValue EXCEPT ![n] = Bottom]
  /\ UNCHANGED <<rounds, submitted, acked, decided>>

\* The process of node n dies and is started again.  Of the messages to and
\* from it some are lost; being down is being slow to take the others.
Crash(n) ==
  /\ crashes < MaxCrashes
  /\ crashes' = crashes + 1
  /\ \E lost \in SUBSET {m \in BagToSet(net) : n \in {m.from, m.to}} :
       net' = [m \in BagToSet(net) \ lost |-> net[m]]
  /\ NewLatticeAgreement(n)
  /\ NewEngine(n)
  /\ UNCHANGED snapshot

RestartNext ==
  \/ EngineNext /\ UNCHANGED <<snapshot, crashes>>
  \/ \E n \in Up : Snapshot(n) \/ Crash(n)

RestartSpec == RestartInit /\ [][RestartNext]_restartVars
=============================================================================
