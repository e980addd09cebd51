# Verification of Suffren

TLA+ models of Suffren, a distributed rate limiter built on lattice agreement
over G-counters, with the model-checking runs and the machine-checked proofs
about them. Paths are relative to the repository (`src/`).

## The system

| Part | Code | Role |
|---|---|---|
| CRDT | `internal/crdt` | `GCounter` (a Go map node → uint64) and `CounterMap` (key → `GCounter`), a join semilattice |
| Lattice agreement | `internal/latticeagreement` | `Proposer`, `Acceptor`, `Learner` on every node, and the `MessageRouter` with a mailbox and a goroutine per role |
| Engine | `internal/engine` | `IncrementKey`, `ValueForKey`; batches operations, proposes the local counters, answers an operation from the `onLearn` callback; `sync` at startup; snapshots |
| Node, p2p, protocol | `internal/node`, `internal/p2p`, `internal/protocol` | delivers messages over pooled TCP connections, encoded with gob |
| Storage | `internal/storage` | saves and loads the counters as JSON |
| Limiter, API | `internal/limiter`, `internal/api` | a sliding window over two counters, served over HTTP |
| Commands | `cmd/suffren`, `cmd/bench` | the process and a load generator |

A client's increment changes the local counters of its node. The flusher
proposes a copy. Acceptors answer ACK if the proposal is above what they have
accepted, else NACK with the join of both. With a quorum of votes and no NACK
the proposer broadcasts LEARN; with a NACK it proposes the join again. A
learner that learns something strictly greater passes the LEARN on, and in any
case calls the engine back, which merges the value and answers the operations
that it covers.

## Modules

| Module | Models | State and actions |
|---|---|---|
| `CounterMap` | `gcounter.go`, `counter_map.go` | Pure operators. A Go map is a function; its domain is part of the value, because `Equals` and `len` see which entries are present while arithmetic reads an absent one as zero. Counts are taken modulo `Modulus` (2^64 in the code). |
| `CounterReplicas` | the maps of a cluster as a CRDT | `Increment`, `Send` (gob drops the unexported `nodeIds`), `Merge` of any copy at any time, `Reload` (JSON drops `nodeIds` too and `Load` does not restore it). |
| `ValueChain` | what lattice agreement promises | Values are submitted, and values made of them are chosen so that those chosen are a chain. |
| `LatticeAgreement` | `proposer.go`, `acceptor.go`, `learner.go`, `router.go`, `network.go` | One variable per field of the three structs; `Propose`, `HandleAck`, `HandleNack`, `HandlePropose`, `HandleLearn`, `Lose`. The lattice is a parameter. Refines `ValueChain`. |
| `Engine` | `engine.go` on top of `LatticeAgreement` | `Call`, `Return`, `Timeout` of client operations; `FlushCapture` and `FlushPropose` (the lock is released in between); `SyncPropose`, `SyncReturn`, `SyncTimeout` of `Start`; `Learn`, which starts a callback, and `OnLearn`, the callback. |
| `Restart` | `Engine` with `snapshotLoop`, crashes and `New` | `Snapshot` saves the local counters; `Crash` ends a process, with its calls and goroutines, and brings it up from the snapshot with fresh roles. |
| `SnapshotStore` | what storage promises | A register of whole snapshots that a power loss may take back to one of some candidates. |
| `FileStorage` | `file_storage.go`, `snapshotLoop`, `Stop`, `New` | One action per system call of `Save`; `Fail`, `Exit`, `PowerLoss` between any two; `Tick`, `StopTick`, `Stop`, `Start`. Refines `SnapshotStore`. |
| `Limiter` | `limiter.go`, the two handlers of `api/server.go` | A request goes through `CheckLocal`, `CheckIncrement`, `CheckReturn` or `StatusCall`, `StatusReturn`, or ends in `Timeout`; `Agree`, `OnLearn` stand for the engine; `Tick` for the clock of a node. |
| `MessageService` | what the transport promises | A message is sent, and handled once or lost. |
| `Transport` | `client.go`, `connection.go`, `server.go`, `node.go`, `router.go` | The goroutine of a `Send` with pool, dial, write and retry; accept loop and connection handlers; the node's loop and its routing goroutines; mailboxes and role loops; `Node.Stop` step by step. Refines `MessageService`. |
| `MC...` | finite instances | `MCCounterReplicas`, `MCLatticeAgreement`, `MCGossip`, `MCEngine`, `MCRestart`, `MCFileStorage`, `MCLimiter`, `MCTransport` |
| `LatticeAgreementSteps`, `LatticeAgreementProofs` | theorems | the first has what one step of the protocol does, whoever calls `Propose`, and is shared with the engine's proofs |
| `EngineProofs`, `EngineAgreementProofs` | theorems | the engine by itself, and the engine together with the protocol |
| other `...Proofs` | theorems | `CounterReplicasProofs` (and `CounterMap`), `FileStorageProofs`, `LimiterProofs`, `TransportProofs` |

The abstract modules connect the detailed ones. `Engine` extends
`LatticeAgreement`; `Limiter` is built on `ValueChain`, which
`LatticeAgreement` refines; the bag of messages of `LatticeAgreement` is what
`MessageService` provides, which `Transport` refines; `Restart` saves and loads
in one step, as `SnapshotStore` allows, which `FileStorage` refines.

Operators under a comment that begins with "Mutant" are wrong variants
of the definition that follows. No specification uses them; putting one in the
place of the definition must make the property it is kept for fail.

### Modelling decisions

* **Network.** Every send runs in a goroutine, every message received is routed
  by another, so nothing is ordered. In `LatticeAgreement`, network, connections
  and mailboxes are one bag of messages: two equal messages are two messages,
  and the proposer counts two equal ACKs as two. `Lose` covers a failed send, a
  cut connection and a full mailbox. That no message is duplicated is what
  `ImplementsService` says of `Transport`. A node outside `Up` is down: what is
  sent to it is gone.
* **Steps.** Each handler holds its role's mutex from start to end, so it is one
  action. The messages it sends are in the bag at once; their goroutines being
  late is their delivery being late. `Return` and `SyncReturn` are separate from
  `OnLearn` because the caller takes the value from a channel later.
* **Aliases.** A pending operation keeps the pointer `s.localCounters`, not a
  copy: `onLearn` compares the learned value with the counters of that moment.
  Only `sync` keeps a copy.
* **Batches.** `unflushedOps` is reduced to whether it is zero. A full batch is
  flushed at once and any other at the next tick; the model flushes at any time.
* **Restart.** A crash and the `New` that follows are one step: a node that is
  down in between only leaves messages where they are.
* **Files.** The counters of a process only grow while `snapshotLoop` runs, so a
  number stands for them. A name has the content the running system sees and a
  set of contents a power loss may leave; `Sync` and the sync of the directory
  shrink the set. The file system is external. The directory exists:
  `MkdirAll` does not sync the entry of a new one.
* **Limiter.** One identifier, resource and rule; others share nothing with it.
  A counter is the set of checks that incremented it. The keys of a window are
  what `buildKey` makes of its start, whole seconds. Both counters of the fast
  path are read at once, where the code releases the lock in between.
  Arithmetic on `Remaining` is modulo `Modulus`. What the engine promises is an
  assumption here, and the run `agreement_concurrent` shows that the code does
  not always keep it: `LimitHolds` is a statement about the limiter, not about
  the whole.
* **Transport.** TCP is external: a working connection delivers what was
  written, a broken one may swallow a write or report an error. Dialling and
  the assignment to the pool are one step; another goroutine may dial before
  and overwrite after. Channels hold sets, as no property depends on order.
* **History variables.** `submitted`, `acked`, `decided` (agreement), `total`
  (replicas), `before` (engine, limiter), `failed`, `atStop`, `saved`, `durable`
  (storage), `dropped`, `handled` (transport) only record what happened.
* **Preorder.** The lattice's order is not assumed antisymmetric: counter maps
  that differ in explicit zero entries are below each other and different.

## Runs

Passing runs:

| Run | Instance | Shows |
|---|---|---|
| `replicas` | 3 nodes, 1 key, 3 increments by one, any number of restarts, stale and repeated copies | `JoinIsLeastUpperBound`, `MergeOrderIsInvisible` whatever entries maps have; `OwnSlotLeads` and `NoIncrementDropped`: merging neither creates nor loses increments; `EqualMapsReadTheSame` |
| `agreement` | one node of three down, n1 proposes twice (the second time while the first round may be under way), n2 once, all roles, fairness | `NothingInvented`, `AdoptedValuesComparable`, `ProposalCoversSubmitted`, `ValuesOnlyGrow`, the refinement `ImplementsChain`, and that `SubmittedIsLearned` and `GossipEnds` |
| `engine_increments` | one increment on each of two nodes, the third down, losses and timeouts | `AnswersAreCurrent`: an increment is answered with a value that has every increment that had returned when it was called; `DoneIsHeldByMajority`; `WaitingIsCarried`: a waiting increment is in the batch, in a flush or with the proposer; `LocalCountersGrow` once a node serves; `VotesAskedOnce` and `DecidedIsAdopted`: no proposer asks again for a vote it still needs, and what it decides a majority has voted for |
| `engine_start` | a node runs `Start`, whose sync may time out, and then increments; fairness | `OwnIncrementsStay`, `EveryCallReturns` |
| `storage` | two changes of the counters; any call fails, the process exits, the power goes at any point | `SnapshotsAreWhole`, `SavedIsLoaded`, the refinement `ImplementsStore`, and `StopIsSaved` |
| `limiter` | a check of one unit and one of two on different nodes, a status, a limit of two, clocks that drift by two windows | `LimitHolds`, `AllowedWithinWindow`, `DenialIsDue`, `StatusSeesOwnNode` |
| `transport` | two messages of a node to itself, two connections, one fault, capacities of one, `Stop` at any time, fairness | `StopInOrder`, the refinement `ImplementsService`, `SentArrives` |

Runs in which the code does not do what its documentation says:

| Run | What happens | Against |
|---|---|---|
| `agreement_concurrent` | ACKs are counted by value only. A value proposed twice by one proposer can be decided with two ACKs of one acceptor, and then two proposers decide values of which neither contains the other (`DecisionsComparable`). | `README.md:224` |
| `gossip_storm` | After a restart, keys a node creates have no explicit zeros. `StrictlyIsIn` is "`IsIn` and not `Equals`" and `Equals` compares numbers of entries, so such a map and one with zeros can each be strictly below the other; two learners pass the two LEARNs back and forth for ever (`GossipEnds`). | `learner.go:38`, `README.md:226` |
| `engine_read` | A read is answered by the callback of a LEARN that was sent before the read was called, and misses an increment that had returned (`AnswersAreCurrent`). | `README.md:24` |
| `restart` | n1 and n2 confirm an increment; n2 crashes and comes back with nothing accepted and an old snapshot; n2 and n3 confirm an increment with a value that misses the first (`AnswersAreCurrent`). | `README.md:24`, `README.md:25` |
| `shutdown` | The node's loop ends first; a connection handler then waits for room in a full channel that nobody reads, and `Server.Close` waits for the handler (`StopReturns`). | `engine.go:156` |

ACKs are counted by value, so a proposer that asks an acceptor again for a vote
it needs, while the first question or its ACK is under way, may count one
acceptor twice. `VotesAskedOnce` says that this does not happen. It is a
property of a schedule, not of the code: TLC finds it true of
`engine_increments` (one operation per node, one node down) and false of larger
instances: with three nodes up, or two that synchronise at the same time, a late
NACK makes a proposer repeat a value whose ACKs are under way. In
`agreement_concurrent` a node repeats a proposal, and by
`DecisionsAreComparable` the condition must fail there. It is sufficient, not
necessary. What the proofs say of the engine's answers they say of the
behaviours that satisfy it.

### Bounds

* Three configured nodes are the smallest cluster with a quorum that is neither
  everybody nor one node. With one of them down the quorum is both others; all
  message interleavings of two proposers remain.
* A safety run does not need `Lose`: a message that is never delivered has the
  same effect as one that is lost. `engine_increments` has it all the same.
* In `MCLatticeAgreement` and `MCEngine` a value is the set of increments it
  contains. That loses nothing but explicit zeros, because a node's slot grows
  one increment at a time; where zeros matter (`MCGossip`,
  `MCCounterReplicas`) the values are counter maps.
* `MaxRounds` bounds the calls of `Propose`. In `MCEngine` it is the number of
  operations and starts of a node; only a repeated sync after a timeout is cut
  short by it. `MaxTotal` bounds the sum of increments of a key.
* `MCRestart` explores a part of the behaviours of `Restart`, in which n1 and n2
  hear from each other until the crash and n2 and n3 afterwards. That is enough
  for a counterexample, and nothing is concluded from its other states.
* `MaxVersion` = 2: a saved state, a newer one, and the one that is being saved.
  Two windows, a limit of two and requests of one and two units let requests be
  allowed, refused locally, found to exceed the limit, and counted after they
  were denied. Two connections are what a retry needs; one fault breaks one of
  them; capacities of one make channel and mailbox full with two messages.
* Symmetry (permutations of nodes that are treated alike) is used in safety runs
  only.

### Fairness

The loops `runProposer`, `runAcceptor` and `runLearner` of a reachable node
never stop taking messages: weak fairness for each role of each node. In
`Engine` also: the flusher ticks, `Start` goes on, callbacks and a caller with a
value in its channel run. In `Transport` each goroutine that can go on does. In
`FileStorage` `Save` goes on, and `stopCh` gets strong fairness: `select` picks
at random among ready cases, so the ticker cannot win for ever. Nothing is
assumed of clients, nobody has to call `Stop`, no fault has to happen and no
timer has to fire. The liveness runs of agreement and engine lose no messages:
the code has no retransmission, so nothing is promised otherwise.

Deadlock is not checked: a cluster without calls has nothing to do.

## Proofs

All for every cluster, set of keys, set of amounts, lattice, rule, capacity and
number of faults that satisfies the named assumptions.

Counters:

* `CounterMapIsLattice`: counter maps in which each counter lists all nodes or
  only positive counts satisfy `LatticeAssumption`, the only thing
  `LatticeAgreement` assumes of values. The core is that `MergeInPlace` is the
  pointwise maximum seen through `Count` (`GMergeCount`), from which the least
  upper bound follows (`GMergeIsLub`, `CMJoinIsLub`).
* `JoinIsAlwaysLub` (`JoinIsLeastUpperBound`) and `MergeOrderIsAlwaysInvisible`
  (`MergeOrderIsInvisible`), without any condition: `MapsInv`, that all maps are
  counter maps of the cluster, is enough. What a key reads is a sum over the
  entries present, taken in an order that depends on them. `SumCountsUnits`
  gives it a closed form, the size of a set with one element for each unit of
  each slot, in which absent and zero entries do not show.
* `OwnSlotAlwaysLeads` (`OwnSlotLeads`) and `ReplicasTypeCorrect`, if no key
  reaches the modulus. The inductive invariant `LeadInv` adds that every slot of
  every map is bounded by `total`, which excludes a wrap-around. Without the
  assumption the property is false: an increment that wraps falls behind its
  copies.
* `NoIncrementIsDropped` (`NoIncrementDropped`), under the same condition.
  `TotalInv`: the nodes' own slots of a key add up to what clients added, which
  merges, copies and restarts leave alone (`MergeKeepsOwn`). `MergedSlots`: the
  merge of all maps has exactly those slots, because every owner leads.
* `EqualsIsSound` (`EqualMapsReadTheSame`), if in addition no increment is zero.
  `RegularInv`: every counter lists all nodes or only positive counts. A zero
  increment after a restart breaks that, and `{n1: 0}` then equals `{n2: 1}`.

The library's induction theorems are out of the prover's reach. Sums and merges
over all nodes are handled by a smallest counterexample instead (`SmallestSet`,
`SmallestNumber`), after showing that the recursive function inside the fold
exists (`SumExists`, `FoldExists`).

Agreement:

* `TypeCorrect`, `ValuesGrow` (with `BufferAboveProposal`: the buffer a retry
  takes over is above the current proposal), `SubmittedIsProposed`.
* `AdoptedAreComparable` (`AdoptedValuesComparable`): whatever proposers count,
  two values with a majority of ACKs each are ordered. `VotesFormChain`: an
  acceptor's ACKs are a chain below what it has accepted. Two majorities share
  an acceptor (`MajoritiesMeet`), whose two ACKs are ordered.
* `DecidedHaveMajorities` (`DecidedIsAdopted`) and `DecisionsAreComparable`
  (`DecisionsComparable`), for behaviours with `VotesAskedOnce`. `VotesCounted`:
  for each proposer and acceptor at most one message is under way that asks for
  the vote on the current proposal or brings it, none once the vote is counted,
  so the counter of ACKs never exceeds the number of acceptors that voted.
  `DecisionsComparable` then follows from `AdoptedAreComparable`.
* `NothingIsInvented` (`NothingInvented`): `NothingInventedAnywhere` says the
  same of every field and every message.
* `AgreementImplementsChain` (`ImplementsChain`): every step submits a value,
  completes a majority for one value that is comparable with those before and
  not invented, or stutters.

Engine:

* `EngineTypeCorrect`, `IncrementsAreKept` (`OwnIncrementsStay`),
  `NothingWaitsForgotten` (`WaitingIsCarried`), `ServingCountersGrow`
  (`LocalCountersGrow`). `EngineInv` adds `ServedByRunning`: only a node whose
  `Start` has returned serves a client, which is why the assignment in `sync`
  cannot overwrite an increment.
* `EnginesAgree` (`AdoptedValuesComparable`): the engine only calls the
  protocol's own steps (`EngineIsStep`), so majorities stay ordered under it.

Engine and protocol together, for behaviours with `VotesAskedOnce`:

* `EngineDecisionsAdopted` (`DecidedIsAdopted`), with the engine calling.
* `ReturnedIsHeld` (`DoneIsHeldByMajority`): `ToldWasDecided` says that every
  callback carries a decided value, `AnsweredIsHeld` that an increment which
  `onLearn` has answered is in what a majority of acceptors hold.
* `IncrementsAnswerCurrent`: the answer of an increment has its own increment and
  every increment that had returned when it was called, with reads and starting
  nodes beside it; `AnswersCurrent` (`AnswersAreCurrent`) where there are only
  increments. The argument is `VotesAreBound`: for an increment that has been
  called and one that had returned before it, there is a majority of acceptors
  that hold the earlier one and have voted for no value with the later but
  without the earlier. It starts to hold at the call, since until then the
  later increment is in no value anywhere (`IdleIsNowhere`) and a majority holds
  the earlier (`AnsweredIsHeld`). A value decided with the later increment in it
  has the vote of one of those acceptors. A read has no increment of its own to
  tell its callbacks from older ones, which is what `engine_read` shows.
* These two assume `IncrementsToldApart`: values name the increments in them, as
  in `MCEngine`, where TLC evaluates the assumption. In counter maps it holds of
  operations on different slots; two increments of one slot are told apart by
  the count, not by the entry.

Storage:

* `StorageTypeCorrect`, `SnapshotsStayWhole`, `SavedStaysLoaded`,
  `StorageImplementsStore`. `StorageInv` says where the data is in each step of
  `Save`: after `Sync` the temporary file can only be the copy in full, so the
  rename puts a whole snapshot in place; and the copy is at least what was saved
  before.

Limiter:

* `LimiterTypeCorrect`, `LimitIsKept` (`LimitHolds`), `AllowedFitsWindow`,
  `DenialIsAlwaysDue`, `StatusKnowsOwnNode`. `QuotaInv`: the
  requests allowed in a window are all part of one agreed value that is within
  the limit; a chain of agreed values keeps it that way. `BeforeInv`: whatever
  had been answered when a check was counted was answered without it, so by the
  chain its own result contains the earlier one.
  `EstimateMonotone`: counting more never lowers the weighted estimate.

Transport:

* `TransportTypeCorrect`, `StopIsOrdered` (`StopInOrder`),
  `TransportImplementsService` (`ImplementsService`). `OnePlace`: a message is
  in one place only (its sender, one connection, one handler, the channel, a
  routing goroutine, the mailbox of its role), so the step that hands it to a
  role takes it out of the transport.

Only model-checked: that `VotesAskedOnce` holds of `engine_increments`, and all
liveness properties, which are beyond the prover. `GossipEnds`, `StopReturns`,
and `AnswersAreCurrent` for reads and across crashes are false of the code, see
the runs.

## Not modelled

* `engine.go:253`: that `sync` replaces the map after callbacks have merged into
  it is in the model, and loses what they merged. No run calls that wrong, as
  the node serves nobody yet and the next LEARN brings it back.
* A `Start` that gives up: `main` then serves the API on an engine without
  flusher and snapshots. A second `Stop`, which closes `server.done` twice.
* Time: `RoundTimeout`, `SnapshotInterval` and the batch timer are
  nondeterministic; how long a call waits under constant load is not modelled.
* Decoding and encoding of HTTP requests, the logging middleware, configuration,
  the retry helper (nothing calls it), the command line, the load generator and
  the test helpers: no state that several steps share.
