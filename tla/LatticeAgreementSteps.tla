----------------------- MODULE LatticeAgreementSteps ------------------------
(***************************************************************************)
(* What every step of LatticeAgreement keeps: types, the order values move *)
(* in, the chain an acceptor's votes form, and where values come from.     *)
(* Engine, which takes the same steps, is proved from the same lemmas.     *)
(***************************************************************************)
EXTENDS LatticeAgreement, FiniteSetTheorems, TLAPS

-----------------------------------------------------------------------------
(* The lattice *)

\* What LatticeAssumption says of the order (Lattice.IsIn) ...
LEMMA IsInTransitive ==
  ASSUME NEW u \in Value, NEW v \in Value, NEW w \in Value, IsIn(u, v), IsIn(v, w)
  PROVE  IsIn(u, w)
  BY LatticeAssumption

\* ... and of the join (Lattice.Join): an upper bound, and the least one.
LEMMA JoinAbove ==
  ASSUME NEW u \in Value, NEW v \in Value
  PROVE  Join(u, v) \in Value /\ IsIn(u, Join(u, v)) /\ IsIn(v, Join(u, v))
  BY ZenonT(60), LatticeAssumption

LEMMA JoinLeast ==
  ASSUME NEW u \in Value, NEW v \in Value, NEW w \in Value, IsIn(u, w), IsIn(v, w)
  PROVE  IsIn(Join(u, v), w)
  BY SMTT(60), LatticeAssumption

\* Values that Lattice.Equals tells the same are below one another.
LEMMA EqualsBoth ==
  ASSUME NEW u \in Value, NEW v \in Value, Equals(u, v)
  PROVE  IsIn(u, v) /\ IsIn(v, u)
  BY ZenonT(60), LatticeAssumption

-----------------------------------------------------------------------------
(* The network *)

\* Handling a message brings only the messages sent in reply under way.
LEMMA ExchangeMessages ==
  ASSUME NEW m, NEW out, Exchange(m, out)
  PROVE  BagToSet(net') \subseteq BagToSet(net) \cup out
  BY DEF Exchange, BagToSet, SetToBag, (+), (-)

\* Sending brings exactly what is sent under way.
LEMMA SendMessages ==
  ASSUME NEW out, net' = net (+) SetToBag(out)
  PROVE  BagToSet(net') = BagToSet(net) \cup out
  BY DEF BagToSet, SetToBag, (+)

\* What a node sends are messages of the cluster.
LEMMA SendType ==
  ASSUME NEW type \in {"PROPOSE", "ACK", "NACK", "LEARN"}, NEW from \in Node,
         NEW to, NEW v \in Value
  PROVE  Send(type, from, to, v) \subseteq Message
  BY NodeAssumption DEF Send, Message

LEMMA QuorumSizeType == QuorumSize \in Nat \ {0}
  BY SMTT(60), NodeAssumption, FS_CardinalityType DEF QuorumSize

-----------------------------------------------------------------------------
(* Steps *)

\* A step of the protocol, whatever value of the lattice is proposed: those of
\* Spec, and those an engine makes the protocol take.
Step ==
  \/ \E p \in Up : \E v \in Value : Propose(p, v)
  \/ \E m \in BagToSet(net) : Handle(m) \/ Lose(m)

LEMMA NextIsStep == [Next]_vars => [Step]_vars
  BY ZenonT(60), NodeAssumption, BoundsAssumption DEF Next, Step

-----------------------------------------------------------------------------
(* Types *)

\* What checkAndHandleQuorum does keeps the proposer and the network typed.
LEMMA CheckAndHandleQuorumType ==
  ASSUME TypeOK, NEW m, NEW p \in Node, NEW acks \in [ack : Nat, nack : Nat],
         NEW buffered \in Value, CheckAndHandleQuorum(m, p, acks, buffered)
  PROVE  /\ quorumReached' \in [Node -> BOOLEAN]
         /\ acksReceived' \in [Node -> [ack : Nat, nack : Nat]]
         /\ proposedValue' \in [Node -> Value]
         /\ bufferedValue' \in [Node -> Value]
         /\ BagToSet(net') \subseteq Message
         /\ decided' \subseteq Value
<1> DEFINE quorum == ~quorumReached[p] /\ acks.ack + acks.nack >= QuorumSize
<1>0. bufferedValue' \in [Node -> Value] /\ NoVotes \in [ack : Nat, nack : Nat]
  BY DEF CheckAndHandleQuorum, TypeOK, NoVotes
<1>1. CASE ~quorum
  <2>1. Exchange(m, {})
    BY SMTT(60), <1>1 DEF CheckAndHandleQuorum
  <2>2. BagToSet(net') \subseteq Message
    <3>1. BagToSet(net') \subseteq BagToSet(net) \cup {}
      BY ZenonT(60), <2>1, ExchangeMessages
    <3>2. BagToSet(net) \subseteq Message
      BY ZenonT(60) DEF TypeOK
    <3> QED  BY SMTT(60), <3>1, <3>2
  <2>3. /\ acksReceived' = [acksReceived EXCEPT ![p] = acks]
        /\ UNCHANGED <<quorumReached, proposedValue, decided>>
    BY ZenonT(60), <1>1 DEF CheckAndHandleQuorum
  <2> QED  BY SMTT(60), <1>0, <2>2, <2>3 DEF TypeOK
<1>2. CASE quorum /\ acks.nack = 0
  <2>1. /\ Exchange(m, Broadcast("LEARN", p, proposedValue[p]))
        /\ acksReceived' = [acksReceived EXCEPT ![p] = acks]
        /\ quorumReached' = [quorumReached EXCEPT ![p] = TRUE]
        /\ decided' = decided \cup {proposedValue[p]}
        /\ UNCHANGED proposedValue
    BY SMTT(60), <1>2 DEF CheckAndHandleQuorum
  <2>2. Broadcast("LEARN", p, proposedValue[p]) \subseteq Message
    BY SMTT(60), SendType DEF Broadcast, TypeOK
  <2>3. BagToSet(net') \subseteq Message
    BY ZenonT(60), <2>1, <2>2, ExchangeMessages DEF TypeOK
  <2> QED  BY ZenonT(60), <1>0, <2>1, <2>3 DEF TypeOK
<1>3. CASE quorum /\ acks.nack > 0
  <2>1. /\ Exchange(m, Broadcast("PROPOSE", p, buffered))
        /\ acksReceived' = [acksReceived EXCEPT ![p] = NoVotes]
        /\ proposedValue' = [proposedValue EXCEPT ![p] = buffered]
        /\ UNCHANGED <<quorumReached, decided>>
    BY SMTT(60), <1>3 DEF CheckAndHandleQuorum
  <2>2. Broadcast("PROPOSE", p, buffered) \subseteq Message
    BY SMTT(60), SendType DEF Broadcast
  <2>3. BagToSet(net') \subseteq Message
    BY ZenonT(60), <2>1, <2>2, ExchangeMessages DEF TypeOK
  <2> QED  BY ZenonT(60), <1>0, <2>1, <2>3 DEF TypeOK
<1> QED  BY SMTT(60), <1>1, <1>2, <1>3

\* A round started with any value of the lattice keeps every type.
LEMMA ProposeType ==
  ASSUME TypeOK, NEW p \in Node, NEW v \in Value, Propose(p, v)
  PROVE  TypeOK'
<1> USE DEF TypeOK
<1>1. Join(bufferedValue[p], v) \in Value
  BY SMTT(60), LatticeAssumption
<1>2. BagToSet(net') = BagToSet(net)
                         \cup Broadcast("PROPOSE", p, Join(bufferedValue[p], v))
  BY SMTT(60), SendMessages DEF Propose
<1>3. Broadcast("PROPOSE", p, Join(bufferedValue[p], v)) \subseteq Message
  BY SMTT(60), <1>1, SendType DEF Broadcast
<1>4. NoVotes \in [ack : Nat, nack : Nat]
  BY ZenonT(60) DEF NoVotes
<1> QED  BY SMTT(60), <1>1, <1>2, <1>3, <1>4 DEF Propose

\* Every variable keeps its type in every step.
LEMMA TypeStep ==
  ASSUME TypeOK, [Step]_vars
  PROVE  TypeOK'
<1> USE DEF TypeOK
<1>1. CASE UNCHANGED vars
  BY ZenonT(60), <1>1 DEF vars
<1>2. ASSUME NEW p \in Up, NEW v \in Value, Propose(p, v)
      PROVE  TypeOK'
  BY ZenonT(60), <1>2, ProposeType, NodeAssumption
<1>3. ASSUME NEW m \in BagToSet(net), HandleAck(m)
      PROVE  TypeOK'
  <2>1. m.to \in Node
    BY DEF Message
  <2>2. CASE Equals(m.value, proposedValue[m.to])
    <3>1. CheckAndHandleQuorum(m, m.to, [acksReceived[m.to] EXCEPT !.ack = @ + 1],
                               bufferedValue[m.to])
      BY SMTT(60), <1>3, <2>2 DEF HandleAck
    <3>2. [acksReceived[m.to] EXCEPT !.ack = @ + 1] \in [ack : Nat, nack : Nat]
      BY SMTT(60), <2>1
    <3>3. bufferedValue[m.to] \in Value
      BY <2>1
    <3>4. UNCHANGED <<acceptedValue, learnedValue, rounds, submitted, acked>>
      BY SMTT(60), <1>3 DEF HandleAck
    <3> HIDE DEF TypeOK
    <3>5. /\ quorumReached' \in [Node -> BOOLEAN]
          /\ acksReceived' \in [Node -> [ack : Nat, nack : Nat]]
          /\ proposedValue' \in [Node -> Value]
          /\ bufferedValue' \in [Node -> Value]
          /\ BagToSet(net') \subseteq Message
          /\ decided' \subseteq Value
      BY ZenonT(60), <2>1, <3>1, <3>2, <3>3, CheckAndHandleQuorumType
    <3> QED  BY SMTT(60), <3>4, <3>5 DEF TypeOK
  <2>3. CASE ~Equals(m.value, proposedValue[m.to])
    BY SMTT(60), <1>3, <2>3, ExchangeMessages DEF HandleAck, IgnoreVote, proposerVars
  <2> QED  BY SMTT(60), <2>2, <2>3
<1>4. ASSUME NEW m \in BagToSet(net), HandleNack(m)
      PROVE  TypeOK'
  <2>1. m.to \in Node /\ m.value \in Value
    BY SMTT(60) DEF Message
  <2>2. CASE IsIn(proposedValue[m.to], m.value)
    <3>1. CheckAndHandleQuorum(m, m.to, [acksReceived[m.to] EXCEPT !.nack = @ + 1],
                               Join(bufferedValue[m.to], m.value))
      BY SMTT(60), <1>4, <2>2 DEF HandleNack
    <3>2. [acksReceived[m.to] EXCEPT !.nack = @ + 1] \in [ack : Nat, nack : Nat]
      BY SMTT(60), <2>1
    <3>3. Join(bufferedValue[m.to], m.value) \in Value
      BY ZenonT(60), <2>1, LatticeAssumption
    <3>4. UNCHANGED <<acceptedValue, learnedValue, rounds, submitted, acked>>
      BY <1>4 DEF HandleNack
    <3> HIDE DEF TypeOK
    <3>5. /\ quorumReached' \in [Node -> BOOLEAN]
          /\ acksReceived' \in [Node -> [ack : Nat, nack : Nat]]
          /\ proposedValue' \in [Node -> Value]
          /\ bufferedValue' \in [Node -> Value]
          /\ BagToSet(net') \subseteq Message
          /\ decided' \subseteq Value
      BY ZenonT(60), <2>1, <3>1, <3>2, <3>3, CheckAndHandleQuorumType
    <3> QED  BY <3>4, <3>5 DEF TypeOK
  <2>3. CASE ~IsIn(proposedValue[m.to], m.value)
    BY SMTT(60), <1>4, <2>3, ExchangeMessages DEF HandleNack, IgnoreVote, proposerVars
  <2> QED  BY SMTT(60), <2>2, <2>3
<1>5. ASSUME NEW m \in BagToSet(net), HandlePropose(m)
      PROVE  TypeOK'
  <2>1. m.to \in Node /\ m.from \in Node /\ m.value \in Value
    BY SMTT(60) DEF Message
  <2>2. Join(acceptedValue[m.to], m.value) \in Value
    BY ZenonT(60), <2>1, LatticeAssumption
  <2>3. CASE Accept(m)
    <3>1. Send("ACK", m.to, {m.from}, m.value) \subseteq Message
      BY <2>1, SendType
    <3>2. BagToSet(net') \subseteq Message
      BY ZenonT(60), <2>3, <3>1, ExchangeMessages DEF Accept
    <3>3. acceptedValue' \in [Node -> Value] /\ acked' \subseteq Node \X Value
      BY SMTT(60), <2>1, <2>3 DEF Accept
    <3> QED  BY SMTT(60), <1>5, <3>2, <3>3 DEF HandlePropose, proposerVars
  <2>4. CASE Reject(m)
    <3>1. Send("NACK", m.to, {m.from}, Join(acceptedValue[m.to], m.value)) \subseteq Message
      BY SMTT(60), <2>1, <2>2, SendType
    <3>2. BagToSet(net') \subseteq Message
      BY ZenonT(60), <2>4, <3>1, ExchangeMessages DEF Reject
    <3>3. acceptedValue' \in [Node -> Value] /\ UNCHANGED acked
      BY ZenonT(60), <2>2, <2>4 DEF Reject
    <3> QED  BY SMTT(60), <1>5, <3>2, <3>3 DEF HandlePropose, proposerVars
  <2> QED  BY SMTT(60), <1>5, <2>3, <2>4 DEF HandlePropose
<1>6. ASSUME NEW m \in BagToSet(net), HandleLearn(m)
      PROVE  TypeOK'
  <2>1. m.to \in Node /\ m.value \in Value
    BY DEF Message
  <2>2. BroadcastToOthers("LEARN", m.to, m.value) \subseteq Message
    BY SMTT(60), <2>1, SendType DEF BroadcastToOthers
  <2>3. BagToSet(net') \subseteq Message
    <3>1. Exchange(m, BroadcastToOthers("LEARN", m.to, m.value)) \/ Exchange(m, {})
      BY ZenonT(60), <1>6 DEF HandleLearn
    <3> QED  BY SMTT(60), <2>2, <3>1, ExchangeMessages
  <2>4. learnedValue' \in [Node -> Value]
    BY ZenonT(60), <1>6, <2>1 DEF HandleLearn
  <2> QED  BY ZenonT(60), <1>6, <2>3, <2>4 DEF HandleLearn, proposerVars
<1>7. ASSUME NEW m \in BagToSet(net), Lose(m)
      PROVE  TypeOK'
  BY SMTT(60), <1>7, ExchangeMessages DEF Lose, proposerVars
<1> HIDE DEF TypeOK
<1> QED  BY ZenonT(60), <1>1, <1>2, <1>3, <1>4, <1>5, <1>6, <1>7 DEF Step, Handle

\* The structs of the three roles and the messages keep their types.
THEOREM TypeCorrect == Spec => []TypeOK
<1>1. Init => TypeOK
  BY SMTT(60), LatticeAssumption
  DEF Init, InitWith, TypeOK, NoVotes, EmptyBag, SetToBag, BagToSet
<1> QED  BY <1>1, TypeStep, NextIsStep, PTL DEF Spec

-----------------------------------------------------------------------------
(* Values only grow *)

\* A proposer's buffer holds at least what it has out for votes.
BufferAboveProposal == \A p \in Node : IsIn(proposedValue[p], bufferedValue[p])

\* A step of an acceptor, and no other, changes accepted values or sends an ACK.
LEMMA AcceptorsUnchanged ==
  ASSUME Step, ~\E m \in BagToSet(net) : Accept(m) \/ Reject(m)
  PROVE  UNCHANGED <<acceptedValue, acked>>
  BY ZenonT(60) DEF Step, Handle, HandlePropose, Propose, HandleAck, HandleNack, HandleLearn, Lose

\* checkAndHandleQuorum leaves the proposal alone or replaces it by the buffer.
LEMMA CheckAndHandleQuorumGrows ==
  ASSUME TypeOK, BufferAboveProposal, NEW m, NEW p \in Node, NEW acks,
         NEW buffered \in Value, IsIn(bufferedValue[p], buffered),
         CheckAndHandleQuorum(m, p, acks, buffered)
  PROVE  /\ BufferAboveProposal'
         /\ \A n \in Node : IsIn(proposedValue[n], proposedValue'[n])
<1>1. /\ bufferedValue' = [bufferedValue EXCEPT ![p] = buffered]
      /\ \/ proposedValue' = proposedValue
         \/ proposedValue' = [proposedValue EXCEPT ![p] = buffered]
  BY DEF CheckAndHandleQuorum
<1>2. IsIn(proposedValue[p], buffered) /\ IsIn(buffered, buffered)
  BY SMTT(60), LatticeAssumption DEF TypeOK, BufferAboveProposal
<1>3. \A n \in Node : IsIn(proposedValue[n], proposedValue[n])
  BY ZenonT(60), LatticeAssumption DEF TypeOK
<1> QED  BY SMTT(60), <1>1, <1>2, <1>3 DEF TypeOK, BufferAboveProposal

\* Every step keeps the buffer above the proposal and moves proposals up.
LEMMA ProposerStep ==
  ASSUME TypeOK, BufferAboveProposal, [Step]_vars
  PROVE  /\ BufferAboveProposal'
         /\ \A n \in Node : IsIn(proposedValue[n], proposedValue'[n])
<1>0. \A n \in Node : IsIn(proposedValue[n], proposedValue[n])
  BY SMTT(60), LatticeAssumption DEF TypeOK
<1>1. CASE UNCHANGED <<proposedValue, bufferedValue>>
  BY SMTT(60), <1>0, <1>1 DEF BufferAboveProposal
<1>2. ASSUME NEW p \in Up, NEW v \in Value, Propose(p, v)
      PROVE  /\ BufferAboveProposal'
             /\ \A n \in Node : IsIn(proposedValue[n], proposedValue'[n])
  <2> DEFINE proposed == Join(bufferedValue[p], v)
  <2>1. p \in Node /\ v \in Value
    BY SMTT(60), NodeAssumption
  <2>2. /\ bufferedValue[p] \in Value /\ proposedValue[p] \in Value
        /\ IsIn(proposedValue[p], bufferedValue[p])
    BY SMTT(60), <2>1 DEF TypeOK, BufferAboveProposal
  <2>3. proposed \in Value /\ IsIn(bufferedValue[p], proposed) /\ IsIn(proposed, proposed)
    BY ZenonT(60), <2>1, <2>2, LatticeAssumption
  <2>4. IsIn(proposedValue[p], proposed)
    BY SMTT(60), <2>2, <2>3, IsInTransitive
  <2>5. /\ proposedValue' = [proposedValue EXCEPT ![p] = proposed]
        /\ bufferedValue' = [bufferedValue EXCEPT ![p] = proposed]
    BY <1>2 DEF Propose
  <2> HIDE DEF proposed
  <2> QED  BY ZenonT(60), <1>0, <2>3, <2>4, <2>5 DEF TypeOK, BufferAboveProposal
<1>3. ASSUME NEW m \in BagToSet(net), HandleAck(m)
      PROVE  /\ BufferAboveProposal'
             /\ \A n \in Node : IsIn(proposedValue[n], proposedValue'[n])
  <2>1. m.to \in Node /\ bufferedValue[m.to] \in Value
    BY SMTT(60) DEF TypeOK, Message
  <2>2. IsIn(bufferedValue[m.to], bufferedValue[m.to])
    BY ZenonT(60), <2>1, LatticeAssumption
  <2> QED  BY ZenonT(60), <1>1, <1>3, <2>1, <2>2, CheckAndHandleQuorumGrows
           DEF HandleAck, IgnoreVote, proposerVars
<1>4. ASSUME NEW m \in BagToSet(net), HandleNack(m)
      PROVE  /\ BufferAboveProposal'
             /\ \A n \in Node : IsIn(proposedValue[n], proposedValue'[n])
  <2>1. m.to \in Node /\ m.value \in Value /\ bufferedValue[m.to] \in Value
    BY DEF TypeOK, Message
  <2>2. /\ Join(bufferedValue[m.to], m.value) \in Value
        /\ IsIn(bufferedValue[m.to], Join(bufferedValue[m.to], m.value))
    BY ZenonT(60), <2>1, LatticeAssumption
  <2> QED  BY SMTT(60), <1>1, <1>4, <2>1, <2>2, CheckAndHandleQuorumGrows
           DEF HandleNack, IgnoreVote, proposerVars
<1>5. ASSUME NEW m \in BagToSet(net), HandlePropose(m) \/ HandleLearn(m) \/ Lose(m)
      PROVE  UNCHANGED <<proposedValue, bufferedValue>>
  BY <1>5 DEF HandlePropose, HandleLearn, Lose, proposerVars
<1>6. CASE UNCHANGED vars
  BY SMTT(60), <1>1, <1>6 DEF vars
<1> QED  BY ZenonT(60), <1>1, <1>2, <1>3, <1>4, <1>5, <1>6 DEF Step, Handle

\* Acceptors and learners move up.
LEMMA AcceptorLearnerStep ==
  ASSUME TypeOK, [Step]_vars, NEW n \in Node
  PROVE  IsIn(acceptedValue[n], acceptedValue'[n]) /\ IsIn(learnedValue[n], learnedValue'[n])
<1>0. /\ acceptedValue[n] \in Value /\ IsIn(acceptedValue[n], acceptedValue[n])
      /\ learnedValue[n] \in Value /\ IsIn(learnedValue[n], learnedValue[n])
  BY SMTT(60), LatticeAssumption DEF TypeOK
<1>1. ASSUME NEW m \in BagToSet(net), HandlePropose(m)
      PROVE  IsIn(acceptedValue[n], acceptedValue'[n]) /\ UNCHANGED learnedValue
  <2>1. m.value \in Value
    BY SMTT(60) DEF TypeOK, Message
  <2>2. \/ UNCHANGED acceptedValue[n]
        \/ IsIn(acceptedValue[n], m.value) /\ acceptedValue'[n] = m.value
        \/ acceptedValue'[n] = Join(acceptedValue[n], m.value)
    BY SMTT(60), <1>1 DEF HandlePropose, Accept, Reject, TypeOK
  <2> QED  BY ZenonT(60), <1>0, <1>1, <2>1, <2>2, JoinAbove DEF HandlePropose
<1>2. ASSUME NEW m \in BagToSet(net), HandleLearn(m)
      PROVE  IsIn(learnedValue[n], learnedValue'[n]) /\ UNCHANGED acceptedValue
  BY SMTT(60), <1>0, <1>2 DEF HandleLearn, TypeOK
<1>3. CASE UNCHANGED <<acceptedValue, learnedValue>>
  BY SMTT(60), <1>0, <1>3
<1>4. ASSUME NEW m \in BagToSet(net), HandleAck(m) \/ HandleNack(m) \/ Lose(m)
      PROVE  UNCHANGED <<acceptedValue, learnedValue>>
  BY SMTT(60), <1>4 DEF HandleAck, HandleNack, Lose
<1>5. ASSUME NEW p \in Up, NEW v \in Value, Propose(p, v)
      PROVE  UNCHANGED <<acceptedValue, learnedValue>>
  BY SMTT(60), <1>5 DEF Propose
<1>6. CASE UNCHANGED vars
  BY SMTT(60), <1>3, <1>6 DEF vars
<1> QED  BY SMTT(60), <1>0, <1>1, <1>2, <1>3, <1>4, <1>5, <1>6 DEF Step, Handle

\* A proposer's buffer is above its proposal, initially and after every step.
LEMMA BufferInvariant == Spec => [](TypeOK /\ BufferAboveProposal)
<1>1. Init => BufferAboveProposal
  BY SMTT(60), LatticeAssumption DEF Init, InitWith, BufferAboveProposal
<1>2. TypeOK /\ BufferAboveProposal /\ [Step]_vars => BufferAboveProposal'
  BY ProposerStep
<1> QED  BY <1>1, <1>2, TypeCorrect, NextIsStep, PTL DEF Spec

\* In every run of every cluster, accepted, learned and proposed values only
\* move up the lattice.
THEOREM ValuesGrow == Spec => ValuesOnlyGrow
<1> DEFINE Grow == \A n \in Node : /\ IsIn(acceptedValue[n], acceptedValue'[n])
                                   /\ IsIn(learnedValue[n], learnedValue'[n])
                                   /\ IsIn(proposedValue[n], proposedValue'[n])
<1>1. TypeOK /\ BufferAboveProposal /\ [Step]_vars => [Grow]_vars
  BY ZenonT(60), ProposerStep, AcceptorLearnerStep
<1> QED  BY <1>1, BufferInvariant, NextIsStep, PTL DEF Spec, ValuesOnlyGrow

-----------------------------------------------------------------------------
(* Adopted values are comparable *)

\* The inductive invariant: what an acceptor has sent ACKs of is a chain, and
\* what it accepted last is at the top of it.  The theorem itself does not say
\* that an acceptor remembers its votes, and without that is not inductive.
VotesFormChain ==
  \A a \in Node : \A v \in Value : <<a, v>> \in acked =>
    /\ IsIn(v, acceptedValue[a])
    /\ \A w \in Value : <<a, w>> \in acked => Comparable(v, w)

\* An acceptor that sends an ACK accepts a value above all it has voted for.
LEMMA VotesStep ==
  ASSUME TypeOK, VotesFormChain, [Step]_vars
  PROVE  VotesFormChain'
<1>1. ASSUME NEW a \in Node, NEW v \in Value, <<a, v>> \in acked
      PROVE  IsIn(v, acceptedValue'[a])
  <2>1. /\ acceptedValue[a] \in Value /\ acceptedValue'[a] \in Value
        /\ IsIn(v, acceptedValue[a]) /\ IsIn(acceptedValue[a], acceptedValue'[a])
    BY SMTT(60), <1>1, TypeStep, AcceptorLearnerStep DEF TypeOK, VotesFormChain
  <2> QED  BY ZenonT(60), <2>1, IsInTransitive
<1>2. CASE acked' = acked
  BY SMTT(60), <1>1, <1>2 DEF VotesFormChain, Comparable
<1>3. ASSUME NEW m \in BagToSet(net), Accept(m)
      PROVE  VotesFormChain'
  <2>1. /\ m.to \in Node /\ m.value \in Value
        /\ acked' = acked \cup {<<m.to, m.value>>}
        /\ acceptedValue'[m.to] = m.value
    BY SMTT(60), <1>3 DEF TypeOK, Message, Accept
  <2>2. IsIn(m.value, m.value)
    BY ZenonT(60), <2>1, LatticeAssumption
  <2>3. \A v \in Value : <<m.to, v>> \in acked => IsIn(v, m.value)
    BY <1>1, <2>1
  <2>4. ASSUME NEW a \in Node, NEW v \in Value, <<a, v>> \in acked'
        PROVE  IsIn(v, acceptedValue'[a])
    BY SMTT(60), <1>1, <2>1, <2>2, <2>4
  <2>5. ASSUME NEW a \in Node, NEW v \in Value, NEW w \in Value,
               <<a, v>> \in acked', <<a, w>> \in acked'
        PROVE  Comparable(v, w)
    <3>1. CASE <<a, v>> \in acked /\ <<a, w>> \in acked
      BY SMTT(60), <3>1 DEF VotesFormChain
    <3>2. CASE a = m.to /\ (v = m.value \/ w = m.value)
      BY ZenonT(60), <2>1, <2>2, <2>3, <2>5, <3>2 DEF Comparable
    <3> QED  BY SMTT(60), <2>1, <2>5, <3>1, <3>2
  <2> QED  BY ZenonT(60), <2>4, <2>5 DEF VotesFormChain, Comparable
<1>4. ASSUME NEW m \in BagToSet(net), Reject(m)
      PROVE  acked' = acked
  BY SMTT(60), <1>4 DEF Reject
<1>5. CASE UNCHANGED vars
  BY SMTT(60), <1>2, <1>5 DEF vars
<1> QED  BY ZenonT(60), <1>2, <1>3, <1>4, <1>5, AcceptorsUnchanged

\* Two majorities of acceptors have a member in common.
LEMMA MajoritiesMeet ==
  ASSUME NEW S \in SUBSET Node, NEW T \in SUBSET Node, Majority(S), Majority(T)
  PROVE  \E a \in Node : a \in S /\ a \in T
<1>1. /\ IsFiniteSet(S) /\ IsFiniteSet(T) /\ IsFiniteSet(Node)
      /\ Cardinality(S) \in Nat /\ Cardinality(T) \in Nat /\ Cardinality(Node) \in Nat
  BY SMTT(60), NodeAssumption, FS_Subset, FS_CardinalityType
<1>2. Cardinality(S) + Cardinality(T) > Cardinality(Node)
  BY SMTT(60), <1>1 DEF Majority, QuorumSize
<1>3. S \cap T # {}
  BY ZenonT(60), <1>1, <1>2, FS_MajoritiesIntersect
<1> QED  BY SMTT(60), <1>3

\* A set of acceptors with a majority in it is a majority.
LEMMA MajorityGrows ==
  ASSUME NEW S, NEW T \in SUBSET Node, S \subseteq T, Majority(S)
  PROVE  Majority(T)
<1>1. /\ IsFiniteSet(T) /\ Cardinality(S) \in Nat /\ Cardinality(T) \in Nat
      /\ Cardinality(S) <= Cardinality(T)
  BY ZenonT(60), NodeAssumption, FS_Subset, FS_CardinalityType
<1> QED  BY SMTT(60), <1>1, QuorumSizeType DEF Majority

\* The invariant gives the property: an acceptor in both majorities has voted
\* for both values.
LEMMA ChainImpliesComparable ==
  ASSUME VotesFormChain
  PROVE  AdoptedValuesComparable
<1> SUFFICES ASSUME NEW v \in Value, NEW w \in Value,
                    Majority(Adopters(v)), Majority(Adopters(w))
             PROVE  Comparable(v, w)
  BY DEF AdoptedValuesComparable
<1>1. PICK a \in Node : a \in Adopters(v) /\ a \in Adopters(w)
  BY MajoritiesMeet DEF Adopters
<1>2. PICK s \in Value : <<a, s>> \in acked /\ Equals(s, v)
  BY SMTT(60), <1>1 DEF Adopters
<1>3. PICK t \in Value : <<a, t>> \in acked /\ Equals(t, w)
  BY SMTT(60), <1>1 DEF Adopters
<1>4. /\ IsIn(s, v) /\ IsIn(v, s)
      /\ IsIn(t, w) /\ IsIn(w, t)
  BY SMTT(60), <1>2, <1>3, LatticeAssumption
<1>5. CASE IsIn(s, t)
  <2>1. IsIn(v, t)
    BY SMTT(60), <1>4, <1>5, IsInTransitive
  <2> QED  BY SMTT(60), <1>4, <2>1, IsInTransitive DEF Comparable
<1>6. CASE IsIn(t, s)
  <2>1. IsIn(w, s)
    BY SMTT(60), <1>4, <1>6, IsInTransitive
  <2> QED  BY SMTT(60), <1>4, <2>1, IsInTransitive DEF Comparable
<1> QED  BY SMTT(60), <1>2, <1>3, <1>5, <1>6 DEF VotesFormChain, Comparable

\* In every cluster, over every lattice, for any number of rounds and losses,
\* no two values adopted by majorities of acceptors are concurrent.
THEOREM AdoptedAreComparable == Spec => []AdoptedValuesComparable
<1>1. Init => VotesFormChain
  BY SMTT(60) DEF Init, InitWith, VotesFormChain
<1> QED  BY <1>1, VotesStep, ChainImpliesComparable, TypeCorrect, NextIsStep, PTL DEF Spec

-----------------------------------------------------------------------------
(* Values come from proposals *)

\* Every value a role holds, a message carries or an acceptor voted for is in G.
AllIn(G) ==
  /\ \A n \in Node : /\ proposedValue[n] \in G /\ bufferedValue[n] \in G
                     /\ acceptedValue[n] \in G /\ learnedValue[n] \in G
  /\ \A m \in BagToSet(net) : m.value \in G
  /\ decided \subseteq G
  /\ \A a \in Node : \A v \in Value : <<a, v>> \in acked => v \in G

\* A message that is sent carries the value it is sent with.
LEMMA SendValue ==
  ASSUME NEW type, NEW from, NEW to, NEW v, NEW m \in Send(type, from, to, v)
  PROVE  m.value = v
  BY SMTT(60) DEF Send

\* Messages under way stay in G when what is sent in reply is in G.
LEMMA ExchangeIn ==
  ASSUME NEW G, NEW m, NEW out, AllIn(G), Exchange(m, out), \A r \in out : r.value \in G
  PROVE  \A r \in BagToSet(net') : r.value \in G
  BY ZenonT(60), ExchangeMessages DEF AllIn

\* checkAndHandleQuorum sends and keeps nothing but the proposal and the buffer.
LEMMA CheckAndHandleQuorumIn ==
  ASSUME NEW G, TypeOK, AllIn(G), NEW m, NEW p \in Node, NEW acks, NEW buffered \in G,
         CheckAndHandleQuorum(m, p, acks, buffered),
         UNCHANGED <<acceptedValue, learnedValue, acked>>
  PROVE  AllIn(G)'
<1>1. /\ bufferedValue' = [bufferedValue EXCEPT ![p] = buffered]
      /\ \/ proposedValue' = proposedValue
         \/ proposedValue' = [proposedValue EXCEPT ![p] = buffered]
      /\ decided' \subseteq decided \cup {proposedValue[p]}
  BY SMTT(60) DEF CheckAndHandleQuorum
<1>2. \/ Exchange(m, {})
      \/ Exchange(m, Broadcast("LEARN", p, proposedValue[p]))
      \/ Exchange(m, Broadcast("PROPOSE", p, buffered))
  BY SMTT(60) DEF CheckAndHandleQuorum
<1>3. /\ \A r \in Broadcast("LEARN", p, proposedValue[p]) : r.value \in G
      /\ \A r \in Broadcast("PROPOSE", p, buffered) : r.value \in G
  BY SMTT(60), SendValue DEF Broadcast, AllIn
<1>4. \A r \in BagToSet(net') : r.value \in G
  BY SMTT(60), <1>2, <1>3, ExchangeIn
<1>5. decided' \subseteq G /\ \A n \in Node : proposedValue'[n] \in G /\ bufferedValue'[n] \in G
  BY ZenonT(60), <1>1 DEF AllIn, TypeOK
<1> QED  BY ZenonT(60), <1>4, <1>5 DEF AllIn

\* A set of values that is closed under Join holds all values of the cluster as
\* long as it holds what is proposed: roles only pass on, compare and join.
LEMMA AllInStep ==
  ASSUME TypeOK, NEW G \in SUBSET Value, \A u, v \in G : Join(u, v) \in G, AllIn(G),
         \/ \E p \in Up : \E v \in G : Propose(p, v)
         \/ \E m \in BagToSet(net) : Handle(m) \/ Lose(m)
         \/ UNCHANGED vars
  PROVE  AllIn(G)'
<1>1. ASSUME NEW p \in Up, NEW v \in G, Propose(p, v)
      PROVE  AllIn(G)'
  <2>1. p \in Node /\ Join(bufferedValue[p], v) \in G
    BY ZenonT(60), NodeAssumption DEF AllIn
  <2>2. BagToSet(net') = BagToSet(net)
                           \cup Broadcast("PROPOSE", p, Join(bufferedValue[p], v))
    BY ZenonT(60), <1>1, SendMessages DEF Propose
  <2>3. \A r \in BagToSet(net') : r.value \in G
    BY SMTT(60), <2>1, <2>2, SendValue DEF Broadcast, AllIn
  <2>4. \A n \in Node : proposedValue'[n] \in G /\ bufferedValue'[n] \in G
    BY ZenonT(60), <1>1, <2>1 DEF Propose, AllIn, TypeOK
  <2>5. UNCHANGED <<acceptedValue, learnedValue, acked, decided>>
    BY ZenonT(60), <1>1 DEF Propose
  <2> QED  BY ZenonT(60), <2>3, <2>4, <2>5 DEF AllIn
<1>2. ASSUME NEW m \in BagToSet(net), Handle(m) \/ Lose(m)
      PROVE  AllIn(G)'
  <2>1. /\ m.to \in Node /\ m.value \in G
        /\ Join(bufferedValue[m.to], m.value) \in G /\ bufferedValue[m.to] \in G
        /\ Join(acceptedValue[m.to], m.value) \in G
    BY ZenonT(60) DEF TypeOK, Message, AllIn
  <2>2. ASSUME Exchange(m, {}), UNCHANGED <<proposedValue, bufferedValue, acceptedValue,
                                          learnedValue, acked, decided>>
        PROVE  AllIn(G)'
    <3>1. \A r \in BagToSet(net') : r.value \in G
      BY SMTT(60), <2>2, ExchangeIn
    <3> QED  BY SMTT(60), <2>2, <3>1 DEF AllIn
  <2>3. CASE HandleAck(m)
    BY ZenonT(60), <2>1, <2>2, <2>3, CheckAndHandleQuorumIn
    DEF HandleAck, IgnoreVote, proposerVars
  <2>4. CASE HandleNack(m)
    BY ZenonT(60), <2>1, <2>2, <2>4, CheckAndHandleQuorumIn
    DEF HandleNack, IgnoreVote, proposerVars
  <2>5. CASE HandlePropose(m)
    <3>1. \/ Exchange(m, Send("ACK", m.to, {m.from}, m.value))
          \/ Exchange(m, Send("NACK", m.to, {m.from}, Join(acceptedValue[m.to], m.value)))
      BY SMTT(60), <2>5 DEF HandlePropose, Accept, Reject
    <3>2. /\ \A r \in Send("ACK", m.to, {m.from}, m.value) : r.value \in G
          /\ \A r \in Send("NACK", m.to, {m.from}, Join(acceptedValue[m.to], m.value)) :
               r.value \in G
      BY SMTT(60), <2>1, SendValue
    <3>3. \A r \in BagToSet(net') : r.value \in G
      BY ZenonT(60), <3>1, <3>2, ExchangeIn
    <3>4. \A n \in Node : acceptedValue'[n] \in G
      BY ZenonT(60), <2>1, <2>5 DEF HandlePropose, Accept, Reject, AllIn, TypeOK
    <3>5. \A a \in Node : \A v \in Value : <<a, v>> \in acked' => v \in G
      <4>1. acked' \subseteq acked \cup {<<m.to, m.value>>}
        BY ZenonT(60), <2>5 DEF HandlePropose, Accept, Reject
      <4> QED  BY SMTT(60), <2>1, <4>1 DEF AllIn
    <3> QED  BY ZenonT(60), <2>5, <3>3, <3>4, <3>5 DEF HandlePropose, AllIn, proposerVars
  <2>6. CASE HandleLearn(m)
    <3>1. \/ Exchange(m, BroadcastToOthers("LEARN", m.to, m.value))
          \/ Exchange(m, {})
      BY SMTT(60), <2>6 DEF HandleLearn
    <3>2. \A r \in BroadcastToOthers("LEARN", m.to, m.value) : r.value \in G
      BY SMTT(60), <2>1, SendValue DEF BroadcastToOthers
    <3>3. \A r \in BagToSet(net') : r.value \in G
      BY SMTT(60), <3>1, <3>2, ExchangeIn
    <3>4. \A n \in Node : learnedValue'[n] \in G
      BY ZenonT(60), <2>1, <2>6 DEF HandleLearn, AllIn, TypeOK
    <3> QED  BY ZenonT(60), <2>6, <3>3, <3>4 DEF HandleLearn, AllIn, proposerVars
  <2>7. CASE Lose(m)
    BY ZenonT(60), <2>2, <2>7 DEF Lose, proposerVars
  <2> QED  BY ZenonT(60), <1>2, <2>3, <2>4, <2>5, <2>6, <2>7 DEF Handle
<1>3. CASE UNCHANGED vars
  BY ZenonT(60), <1>3 DEF vars, AllIn
<1> QED  BY ZenonT(60), <1>1, <1>2, <1>3

\* Bottom is all there is when the cluster starts.
LEMMA AllInInit ==
  ASSUME Init, NEW G, Bottom \in G
  PROVE  AllIn(G)
  BY SMTT(60) DEF Init, InitWith, AllIn, EmptyBag, SetToBag, BagToSet
=============================================================================
