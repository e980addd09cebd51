-------------------------- MODULE LatticeAgreement --------------------------
(***************************************************************************)
(* The agreement protocol of internal/latticeagreement: every node is a    *)
(* Proposer, an Acceptor and a Learner of values of a join semilattice     *)
(* (crdt.Lattice), exchanging PROPOSE, ACK, NACK and LEARN messages.       *)
(*                                                                         *)
(* The lattice is a parameter.  Its order is a preorder: two CounterMaps   *)
(* that differ in explicit zero entries are below one another and yet      *)
(* different, so nothing here assumes antisymmetry.                        *)
(*                                                                         *)
(* Every Send runs in a goroutine of its own and every message received is *)
(* routed by a goroutine of its own, so nothing is ordered and two equal   *)
(* messages are two messages: the network, the connections and the three   *)
(* mailboxes of each MessageRouter are together one bag of messages.       *)
(* Lose stands for everything that drops one: a failed Send, a connection  *)
(* cut, a full mailbox.                                                    *)
(***************************************************************************)
EXTENDS Integers, FiniteSets, Bags

CONSTANTS
  Node,                \* peers of the configuration
  Up,                  \* the nodes that run and can be reached
  Value,               \* the elements of the lattice
  Bottom,
  Join(_, _),
  IsIn(_, _),
  StrictlyIsIn(_, _),
  Equals(_, _),
  Proposals,           \* Proposals[p]: what the engine of p may propose
  MaxRounds,           \* bound: MaxRounds[p] calls of Propose on p
  Lossy                \* whether messages may be lost

ASSUME NodeAssumption == IsFiniteSet(Node) /\ Up \subseteq Node

ASSUME BoundsAssumption ==
  /\ Proposals \in [Node -> SUBSET Value]
  /\ MaxRounds \in [Node -> Nat]
  /\ Lossy \in BOOLEAN

ASSUME LatticeAssumption ==
  /\ Bottom \in Value
  /\ \A v \in Value : IsIn(v, v) /\ IsIn(Bottom, v)
  /\ \A u, v, w \in Value : IsIn(u, v) /\ IsIn(v, w) => IsIn(u, w)
  /\ \A u, v \in Value :
       /\ Join(u, v) \in Value
       /\ IsIn(u, Join(u, v)) /\ IsIn(v, Join(u, v))
       /\ \A w \in Value : IsIn(u, w) /\ IsIn(v, w) => IsIn(Join(u, v), w)
       /\ Equals(u, v) => IsIn(u, v) /\ IsIn(v, u)
       /\ StrictlyIsIn(u, v) => IsIn(u, v)

VARIABLES
  quorumReached,       \* Proposer.quorumReached
  acksReceived,        \* Proposer.acksReceived: how many true, how many false
  proposedValue,       \* Proposer.proposedValue
  bufferedValue,       \* Proposer.bufferedValue
  acceptedValue,       \* Acceptor.acceptedValue
  learnedValue,        \* Learner.learnedValue
  net,                 \* the bag of messages under way
  rounds,              \* rounds[p]: calls of Propose so far
  submitted,           \* history: submitted[p], the values passed to Propose
  acked,               \* history: <<a, v>> when acceptor a has sent ACK(v)
  decided              \* history: the values a proposer broadcast a LEARN of

proposerVars == <<quorumReached, acksReceived, proposedValue, bufferedValue>>
vars == <<quorumReached, acksReceived, proposedValue, bufferedValue,
          acceptedValue, learnedValue, net, rounds, submitted, acked, decided>>

Message == [type : {"PROPOSE", "ACK", "NACK", "LEARN"},
            from : Node, to : Node, value : Value]

\* Mutant: half of an odd cluster counts as a quorum.
QuorumHalf == Cardinality(Node) \div 2

QuorumSize == Cardinality(Node) \div 2 + 1

\* Mutant: a proposer starts with its own vote, and is sent its own ACK too.
OwnVote == [ack |-> 1, nack |-> 0]

NoVotes == [ack |-> 0, nack |-> 0]

-----------------------------------------------------------------------------

InitWith(buffered, accepted) ==
  /\ quorumReached = [p \in Node |-> FALSE]
  /\ acksReceived = [p \in Node |-> NoVotes]
  /\ proposedValue = [p \in Node |-> Bottom]
  /\ bufferedValue = [p \in Node |-> buffered]
  /\ acceptedValue = [a \in Node |-> accepted]
  /\ learnedValue = [n \in Node |-> Bottom]
  /\ net = EmptyBag
  /\ rounds = [p \in Node |-> 0]
  /\ submitted = [p \in Node |-> {}]
  /\ acked = {}
  /\ decided = {}

\* Mutants: the proposer's buffer is left nil; acceptors start from a state
\* nobody proposed.
InitNilBuffer == InitWith({"nil"}, Bottom)
InitAcceptsMore == InitWith(Bottom, CHOOSE v \in Value : v # Bottom)

\* NewLatticeAgreement: all three roles start from the bottom of the lattice,
\* on a restarted node too.
Init == InitWith(Bottom, Bottom)

\* Network.Send, Broadcast and BroadcastToOthers: what is sent to a node that
\* is not reachable fails, and the error is only logged.
Send(type, from, to, v) ==
  {[type |-> type, from |-> from, to |-> n, value |-> v] : n \in to \cap Up}

Broadcast(type, from, v) == Send(type, from, Node, v)

BroadcastToOthers(type, from, v) == Send(type, from, Node \ {from}, v)

\* Message m has been taken from its mailbox and the messages out are sent.
Exchange(m, out) == net' = (net (-) SetToBag({m})) (+) SetToBag(out)

-----------------------------------------------------------------------------
(* Proposer *)

\* Mutant: the buffer is proposed before the engine's value is merged into it.
ProposeBufferedBefore(p, v) ==
  /\ rounds[p] < MaxRounds[p]
  /\ rounds' = [rounds EXCEPT ![p] = @ + 1]
  /\ submitted' = [submitted EXCEPT ![p] = @ \cup {v}]
  /\ quorumReached' = [quorumReached EXCEPT ![p] = FALSE]
  /\ acksReceived' = [acksReceived EXCEPT ![p] = NoVotes]
  /\ proposedValue' = [proposedValue EXCEPT ![p] = bufferedValue[p]]
  /\ bufferedValue' = [bufferedValue EXCEPT ![p] = Join(@, v)]
  /\ net' = net (+) SetToBag(Broadcast("PROPOSE", p, bufferedValue[p]))
  /\ UNCHANGED <<acceptedValue, learnedValue, acked, decided>>

\* A new round: what the previous one buffered joined with the engine's value.
Propose(p, v) ==
  LET proposed == Join(bufferedValue[p], v)
  IN  /\ rounds[p] < MaxRounds[p]
      /\ rounds' = [rounds EXCEPT ![p] = @ + 1]
      /\ submitted' = [submitted EXCEPT ![p] = @ \cup {v}]
      /\ quorumReached' = [quorumReached EXCEPT ![p] = FALSE]
      /\ acksReceived' = [acksReceived EXCEPT ![p] = NoVotes]
      /\ proposedValue' = [proposedValue EXCEPT ![p] = proposed]
      /\ bufferedValue' = [bufferedValue EXCEPT ![p] = proposed]
      /\ net' = net (+) SetToBag(Broadcast("PROPOSE", p, proposed))
      /\ UNCHANGED <<acceptedValue, learnedValue, acked, decided>>

\* Mutant: a quorum with a NACK ends the round.
CheckAndHandleQuorumGivesUp(m, p, acks, buffered) ==
  LET quorum == ~quorumReached[p] /\ acks.ack + acks.nack >= QuorumSize
  IN  /\ bufferedValue' = [bufferedValue EXCEPT ![p] = buffered]
      /\ acksReceived' = [acksReceived EXCEPT ![p] = acks]
      /\ quorumReached' = [quorumReached EXCEPT ![p] = @ \/ quorum]
      /\ decided' = IF quorum /\ acks.nack = 0 THEN decided \cup {proposedValue[p]} ELSE decided
      /\ Exchange(m, IF quorum /\ acks.nack = 0 THEN Broadcast("LEARN", p, proposedValue[p]) ELSE {})
      /\ UNCHANGED proposedValue

\* checkAndHandleQuorum, p's votes being acks and its buffer being buffered:
\* no quorum yet or not any more; a quorum of ACKs; a quorum with a NACK.
CheckAndHandleQuorum(m, p, acks, buffered) ==
  LET quorum == ~quorumReached[p] /\ acks.ack + acks.nack >= QuorumSize
  IN  /\ bufferedValue' = [bufferedValue EXCEPT ![p] = buffered]
      /\ \/ /\ ~quorum
            /\ acksReceived' = [acksReceived EXCEPT ![p] = acks]
            /\ Exchange(m, {})
            /\ UNCHANGED <<quorumReached, proposedValue, decided>>
         \/ /\ quorum /\ acks.nack = 0
            /\ acksReceived' = [acksReceived EXCEPT ![p] = acks]
            /\ quorumReached' = [quorumReached EXCEPT ![p] = TRUE]
            /\ decided' = decided \cup {proposedValue[p]}
            /\ Exchange(m, Broadcast("LEARN", p, proposedValue[p]))
            /\ UNCHANGED proposedValue
         \/ /\ quorum /\ acks.nack > 0
            /\ acksReceived' = [acksReceived EXCEPT ![p] = NoVotes]
            /\ proposedValue' = [proposedValue EXCEPT ![p] = buffered]
            /\ Exchange(m, Broadcast("PROPOSE", p, buffered))
            /\ UNCHANGED <<quorumReached, decided>>

\* Votes for anything but the current proposal are dropped.
IgnoreVote(m) ==
  /\ Exchange(m, {})
  /\ UNCHANGED <<proposerVars, decided>>

\* The sender of the ACK is not looked at.
HandleAck(m) ==
  LET p == m.to
  IN  /\ m.type = "ACK"
      /\ \/ /\ Equals(m.value, proposedValue[p])
            /\ CheckAndHandleQuorum(m, p, [acksReceived[p] EXCEPT !.ack = @ + 1],
                                    bufferedValue[p])
         \/ ~Equals(m.value, proposedValue[p]) /\ IgnoreVote(m)
      /\ UNCHANGED <<acceptedValue, learnedValue, rounds, submitted, acked>>

\* Mutant: the value that came with the NACK is not merged into the buffer.
HandleNackDropsValue(m) ==
  LET p == m.to
  IN  /\ m.type = "NACK"
      /\ \/ /\ IsIn(proposedValue[p], m.value)
            /\ CheckAndHandleQuorum(m, p, [acksReceived[p] EXCEPT !.nack = @ + 1],
                                    bufferedValue[p])
         \/ ~IsIn(proposedValue[p], m.value) /\ IgnoreVote(m)
      /\ UNCHANGED <<acceptedValue, learnedValue, rounds, submitted, acked>>

HandleNack(m) ==
  LET p == m.to
  IN  /\ m.type = "NACK"
      /\ \/ /\ IsIn(proposedValue[p], m.value)
            /\ CheckAndHandleQuorum(m, p, [acksReceived[p] EXCEPT !.nack = @ + 1],
                                    Join(bufferedValue[p], m.value))
         \/ ~IsIn(proposedValue[p], m.value) /\ IgnoreVote(m)
      /\ UNCHANGED <<acceptedValue, learnedValue, rounds, submitted, acked>>

-----------------------------------------------------------------------------
(* Acceptor *)

\* Mutant: the acceptor adopts whatever it is sent.
AcceptAny(m) ==
  /\ m.type = "PROPOSE"
  /\ acceptedValue' = [acceptedValue EXCEPT ![m.to] = m.value]
  /\ acked' = acked \cup {<<m.to, m.value>>}
  /\ Exchange(m, Send("ACK", m.to, {m.from}, m.value))

\* HandlePropose, the proposal is above what was accepted before: ACK.
Accept(m) ==
  /\ m.type = "PROPOSE"
  /\ IsIn(acceptedValue[m.to], m.value)
  /\ acceptedValue' = [acceptedValue EXCEPT ![m.to] = m.value]
  /\ acked' = acked \cup {<<m.to, m.value>>}
  /\ Exchange(m, Send("ACK", m.to, {m.from}, m.value))

\* HandlePropose, the proposal lacks something accepted before: NACK with all.
Reject(m) ==
  LET joined == Join(acceptedValue[m.to], m.value)
  IN  /\ m.type = "PROPOSE"
      /\ ~IsIn(acceptedValue[m.to], m.value)
      /\ acceptedValue' = [acceptedValue EXCEPT ![m.to] = joined]
      /\ Exchange(m, Send("NACK", m.to, {m.from}, joined))
      /\ UNCHANGED acked

HandlePropose(m) ==
  /\ Accept(m) \/ Reject(m)
  /\ UNCHANGED <<proposerVars, learnedValue, rounds, submitted, decided>>

-----------------------------------------------------------------------------
(* Learner *)

\* Mutant: a LEARN is taken over whether or not it is above what was learned.
HandleLearnAny(m) ==
  /\ m.type = "LEARN"
  /\ learnedValue' = [learnedValue EXCEPT ![m.to] = m.value]
  /\ Exchange(m, {})
  /\ UNCHANGED <<proposerVars, acceptedValue, rounds, submitted, acked, decided>>

\* Mutant: a value that is learned again is passed on again.
HandleLearnAlwaysGossips(m) ==
  /\ m.type = "LEARN"
  /\ \/ /\ IsIn(learnedValue[m.to], m.value)
        /\ learnedValue' = [learnedValue EXCEPT ![m.to] = m.value]
        /\ Exchange(m, BroadcastToOthers("LEARN", m.to, m.value))
     \/ /\ ~IsIn(learnedValue[m.to], m.value)
        /\ Exchange(m, {})
        /\ UNCHANGED learnedValue
  /\ UNCHANGED <<proposerVars, acceptedValue, rounds, submitted, acked, decided>>

\* A LEARN that is not above what was learned is dropped, one that is strictly
\* above is taken over and passed on.  The onLearn callback of the engine is
\* not part of this module.
HandleLearn(m) ==
  LET n == m.to
  IN  /\ m.type = "LEARN"
      /\ \/ /\ IsIn(learnedValue[n], m.value) /\ StrictlyIsIn(learnedValue[n], m.value)
            /\ learnedValue' = [learnedValue EXCEPT ![n] = m.value]
            /\ Exchange(m, BroadcastToOthers("LEARN", n, m.value))
         \/ /\ ~(IsIn(learnedValue[n], m.value) /\ StrictlyIsIn(learnedValue[n], m.value))
            /\ Exchange(m, {})
            /\ UNCHANGED learnedValue
      /\ UNCHANGED <<proposerVars, acceptedValue, rounds, submitted, acked, decided>>

-----------------------------------------------------------------------------

\* A message is lost: the Send fails or the mailbox it is routed to is full.
Lose(m) ==
  /\ Lossy
  /\ Exchange(m, {})
  /\ UNCHANGED <<proposerVars, acceptedValue, learnedValue, rounds, submitted,
                 acked, decided>>

\* One turn of runProposer, runAcceptor or runLearner.
Handle(m) == HandleAck(m) \/ HandleNack(m) \/ HandlePropose(m) \/ HandleLearn(m)

Next ==
  \/ \E p \in Up : \E v \in Proposals[p] : Propose(p, v)
  \/ \E m \in BagToSet(net) : Handle(m) \/ Lose(m)

Spec == Init /\ [][Next]_vars

\* The loops of the three roles keep running on every reachable node; nothing
\* makes a client call the engine.
Fairness ==
  \A n \in Up, types \in {{"ACK", "NACK"}, {"PROPOSE"}, {"LEARN"}} :
    WF_vars(\E m \in BagToSet(net) : m.to = n /\ m.type \in types /\ Handle(m))

FairSpec == Spec /\ Fairness
-----------------------------------------------------------------------------
(* Properties *)

\* The proposer's counters, the three values of each node and every message
\* have the types the Go structs give them.
TypeOK ==
  /\ quorumReached \in [Node -> BOOLEAN]
  /\ acksReceived \in [Node -> [ack : Nat, nack : Nat]]
  /\ proposedValue \in [Node -> Value]
  /\ bufferedValue \in [Node -> Value]
  /\ acceptedValue \in [Node -> Value]
  /\ learnedValue \in [Node -> Value]
  /\ BagToSet(net) \subseteq Message
  /\ rounds \in [Node -> Nat]
  /\ submitted \in [Node -> SUBSET Value]
  /\ acked \subseteq Node \X Value
  /\ decided \subseteq Value

Comparable(v, w) == IsIn(v, w) \/ IsIn(w, v)

Majority(S) == Cardinality(S) >= QuorumSize

\* The acceptors that have sent an ACK of v, or of a value Equals tells the
\* same: what a proposer means by the votes for its proposal.
Adopters(v) == {a \in Node : \E u \in Value : <<a, u>> \in acked /\ Equals(u, v)}

\* Safety of the quorum logic: two values each adopted by a majority of
\* acceptors are never concurrent, whatever was lost, duplicated or reordered
\* and however proposers counted (Acceptor.HandlePropose).
AdoptedValuesComparable ==
  \A v, w \in Value :
    Majority(Adopters(v)) /\ Majority(Adopters(w)) => Comparable(v, w)

\* The values a majority of acceptors has sent ACKs of.
Chosen == {v \in Value : Majority({a \in Node : <<a, v>> \in acked})}

Chain == INSTANCE ValueChain WITH
  inputs <- UNION {submitted[p] : p \in Node}, chosen <- Chosen

\* The protocol implements ValueChain: when an ACK completes a majority for a
\* value, that value is made of submitted ones and ordered with every value a
\* majority adopted before (Acceptor.HandlePropose).
ImplementsChain == Chain!Spec

\* Values decided by any two rounds of any two proposers are ordered, so every
\* learner can place them on one chain.
DecisionsComparable == \A v, w \in decided : Comparable(v, w)

\* What is decided a majority has voted for: the votes a proposer counts are
\* votes of different acceptors, although it does not look at their senders
\* (Proposer.HandleAck).
DecidedIsAdopted == \A v \in decided : Majority(Adopters(v))

\* How often message m is in bag b.
CopiesOf(m, b) == IF m \in BagToSet(b) THEN b[m] ELSE 0

\* Message k asks for the vote that the PROPOSE m asks for, or brings it.
SameVote(k, m) ==
  /\ \/ k.type = "PROPOSE" /\ k.from = m.from /\ k.to = m.to
     \/ k.type = "ACK" /\ k.from = m.to /\ k.to = m.from
  /\ Equals(k.value, m.value)

\* A PROPOSE that is sent is the only message under way for its vote, unless the
\* value has its majority already.
AsksOnce ==
  \A m \in BagToSet(net') :
    m.type = "PROPOSE" /\ CopiesOf(m, net') > CopiesOf(m, net)
      => \/ Majority(Adopters(m.value))
         \/ \A k \in BagToSet(net') : SameVote(k, m) => k = m /\ CopiesOf(m, net') = 1

\* No proposer asks again for a vote it needs while an earlier PROPOSE for it, or
\* the ACK, is under way, by a new round (Propose) or after NACKs
\* (checkAndHandleQuorum): HandleAck would count both answers.
VotesAskedOnce == [][AsksOnce]_vars

\* Validity: every upper bound of what engines have proposed is an upper bound
\* of everything learned or decided; no increment comes from nowhere.
NothingInvented ==
  \A u \in Value :
    (\A p \in Node : \A v \in submitted[p] : IsIn(v, u))
      => /\ \A n \in Node : IsIn(learnedValue[n], u)
         /\ \A v \in decided : IsIn(v, u)

\* A proposer never drops a value it was given: through re-proposals after
\* NACKs and later calls of Propose, the value it has out for votes covers all
\* of them, and so does the LEARN that ends the round.
ProposalCoversSubmitted ==
  \A p \in Node : \A v \in submitted[p] : IsIn(v, proposedValue[p])

\* No step moves an acceptor, a learner or a proposer down the lattice or to a
\* concurrent value: not a NACK that comes late, not a LEARN that was overtaken.
ValuesOnlyGrow ==
  [][\A n \in Node : /\ IsIn(acceptedValue[n], acceptedValue'[n])
                     /\ IsIn(learnedValue[n], learnedValue'[n])
                     /\ IsIn(proposedValue[n], proposedValue'[n])]_vars

\* While a majority is reachable and nothing is lost, every value given to
\* Propose is eventually part of what every reachable node has learned.
SubmittedIsLearned ==
  \A p \in Up : \A v \in Proposals[p] :
    (v \in submitted[p]) ~> (\A n \in Up : IsIn(v, learnedValue[n]))

\* Gossip dies out: from some point on no LEARN is under way (learner.go:
\* "Re-broadcast only when the value strictly grew, to break gossip loops").
GossipEnds == <>[](\A m \in BagToSet(net) : m.type # "LEARN")
=============================================================================
