----------------------- MODULE LatticeAgreementProofs -----------------------
(***************************************************************************)
(* Safety of LatticeAgreement for every cluster, every lattice, every set  *)
(* of proposals and any number of rounds, messages lost or not.            *)
(***************************************************************************)
EXTENDS LatticeAgreementSteps

-----------------------------------------------------------------------------
(* Votes are counted once *)

\* m asks acceptor a for its vote on the current proposal of p, or brings it.
AsksOrBrings(m, p, a) ==
  /\ \/ m.type = "PROPOSE" /\ m.from = p /\ m.to = a
     \/ m.type = "ACK" /\ m.from = a /\ m.to = p
  /\ Equals(m.value, proposedValue[p])

Open(p, a) == {m \in BagToSet(net) : AsksOrBrings(m, p, a)}

\* At most one message stands for the vote of an acceptor, and none any more
\* when the vote is counted: as many acceptors have voted as were counted.
CountedOnce(p) ==
  /\ \A a \in Node : \A m, k \in Open(p, a) : m = k /\ CopiesOf(m, net) = 1
  /\ \E S \in SUBSET Adopters(proposedValue[p]) :
       /\ Cardinality(S) = acksReceived[p].ack
       /\ \A a \in S : Open(p, a) = {}

\* The votes for the proposal of p are counted once, or do not matter any more.
Counted(p) == CountedOnce(p) \/ Majority(Adopters(proposedValue[p]))

\* Messages under way are between nodes that run, and an ACK is a vote.
Expected(m) ==
  /\ m.to \in Up
  /\ m.type = "ACK" => m.from \in Up /\ <<m.from, m.value>> \in acked

\* The inductive invariant.  That decisions are adopted follows from how the
\* votes of the current proposals are counted, and that from what is under way.
VotesCounted ==
  /\ IsABag(net)
  /\ \A m \in BagToSet(net) : Expected(m)
  /\ \A p \in Node : Counted(p)
  /\ DecidedIsAdopted

\* The messages that bear on the count of p.
About(x, p) == (x.type = "PROPOSE" /\ x.from = p) \/ (x.type = "ACK" /\ x.to = p)

\* A message is under way when there are copies of it.
LEMMA BagCopies ==
  ASSUME NEW B, IsABag(B), NEW x
  PROVE  CopiesOf(x, B) \in Nat /\ (x \in BagToSet(B) <=> CopiesOf(x, B) > 0)
  BY SMTT(60) DEF IsABag, CopiesOf, BagToSet

\* Handling a message takes one copy of it and adds one of each reply.
LEMMA ExchangeCopies ==
  ASSUME IsABag(net), NEW m \in BagToSet(net), NEW out, Exchange(m, out)
  PROVE  /\ IsABag(net')
         /\ \A x : CopiesOf(x, net') = CopiesOf(x, net) - (IF x = m THEN 1 ELSE 0)
                                                        + (IF x \in out THEN 1 ELSE 0)
<1> DEFINE rest == net (-) SetToBag({m})
<1>1. /\ DOMAIN rest = {x \in DOMAIN net : x = m => net[m] > 1}
      /\ \A x \in DOMAIN rest : rest[x] = IF x = m THEN net[m] - 1 ELSE net[x]
  BY SMTT(60) DEF IsABag, BagToSet, SetToBag, (-)
<1>2. net' = rest (+) SetToBag(out)
  BY DEF Exchange
<1> HIDE DEF rest
<1>3. /\ DOMAIN net' = DOMAIN rest \cup out
      /\ \A x \in DOMAIN net' : net'[x] = (IF x \in DOMAIN rest THEN rest[x] ELSE 0)
                                            + (IF x \in out THEN 1 ELSE 0)
      /\ net' = [x \in DOMAIN net' |-> net'[x]]
  BY SMTT(60), <1>2 DEF SetToBag, (+)
<1>4. \A x \in DOMAIN net : net[x] \in Nat /\ net[x] > 0
  BY DEF IsABag
<1>5. \A x \in DOMAIN net' : net'[x] \in Nat /\ net'[x] > 0
  BY SMTT(60), <1>1, <1>3, <1>4
<1>6. IsABag(net')
  BY SMTT(60), <1>3, <1>5 DEF IsABag
<1> QED  BY SMTT(60), <1>1, <1>3, <1>4, <1>6 DEF CopiesOf, BagToSet

\* Sending adds one copy of each message sent.
LEMMA SendCopies ==
  ASSUME IsABag(net), NEW out, net' = net (+) SetToBag(out)
  PROVE  /\ IsABag(net')
         /\ \A x : CopiesOf(x, net') = CopiesOf(x, net) + (IF x \in out THEN 1 ELSE 0)
<1>1. /\ DOMAIN net' = DOMAIN net \cup out
      /\ \A x \in DOMAIN net' : net'[x] = (IF x \in DOMAIN net THEN net[x] ELSE 0)
                                            + (IF x \in out THEN 1 ELSE 0)
      /\ net' = [x \in DOMAIN net' |-> net'[x]]
  BY SMTT(60) DEF SetToBag, (+)
<1>2. \A x \in DOMAIN net : net[x] \in Nat /\ net[x] > 0
  BY DEF IsABag
<1>3. \A x \in DOMAIN net' : net'[x] \in Nat /\ net'[x] > 0
  BY SMTT(60), <1>1, <1>2
<1>4. IsABag(net')
  BY SMTT(60), <1>1, <1>3 DEF IsABag
<1> QED  BY SMTT(60), <1>1, <1>2, <1>4 DEF CopiesOf, BagToSet

\* Votes are not taken back.
LEMMA AdoptersGrow ==
  ASSUME acked \subseteq acked', NEW v
  PROVE  Adopters(v) \subseteq Adopters(v)'
  BY SMTT(60) DEF Adopters

\* A majority that has voted for a value stays one.
LEMMA MajorityKept ==
  ASSUME acked \subseteq acked', NEW v, Majority(Adopters(v))
  PROVE  Majority(Adopters(v))'
<1> DEFINE after == Adopters(v)'
<1>1. Adopters(v) \subseteq after /\ after \in SUBSET Node
  BY ZenonT(60), AdoptersGrow DEF Adopters
<1> HIDE DEF after
<1>2. Majority(after)
  BY ZenonT(60), <1>1, MajorityGrows
<1> QED  BY ZenonT(60), <1>2 DEF after, Majority, QuorumSize

\* It is enough that a step counts right as long as votes matter.
LEMMA CountedStays ==
  ASSUME NEW p \in Node, Counted(p), acked \subseteq acked', proposedValue'[p] = proposedValue[p],
         CountedOnce(p) => CountedOnce(p)'
  PROVE  Counted(p)'
<1>1. CASE CountedOnce(p)
  BY ZenonT(60), <1>1 DEF Counted
<1>2. CASE Majority(Adopters(proposedValue[p]))
  <2>1. PICK w : w = proposedValue[p]
    OBVIOUS
  <2>2. Majority(Adopters(w))'
    BY ZenonT(60), <1>2, <2>1, MajorityKept
  <2>3. Adopters(proposedValue[p])' = Adopters(w)'
    BY ZenonT(60), <2>1 DEF Adopters
  <2> QED  BY ZenonT(60), <2>2, <2>3 DEF Counted, Majority
<1> QED  BY ZenonT(60), <1>1, <1>2 DEF Counted

\* A step that sends p no vote and nothing in its name leaves its count right.
LEMMA CountKept ==
  ASSUME NEW p \in Node, IsABag(net), IsABag(net'), Counted(p), acked \subseteq acked',
         proposedValue'[p] = proposedValue[p], acksReceived'[p].ack = acksReceived[p].ack,
         \A x, a : AsksOrBrings(x, p, a) => CopiesOf(x, net') <= CopiesOf(x, net)
  PROVE  Counted(p)'
<1> SUFFICES ASSUME CountedOnce(p) PROVE CountedOnce(p)'
  BY ZenonT(60), CountedStays
<1>1. ASSUME NEW a, NEW m \in Open(p, a)'
      PROVE  m \in Open(p, a) /\ CopiesOf(m, net') <= CopiesOf(m, net)
             /\ CopiesOf(m, net') \in Nat /\ CopiesOf(m, net') > 0
  <2>1. AsksOrBrings(m, p, a) /\ m \in BagToSet(net')
    BY ZenonT(60), <1>1 DEF Open, AsksOrBrings
  <2>2. CopiesOf(m, net') <= CopiesOf(m, net)
    BY ZenonT(60), <2>1
  <2>3. CopiesOf(m, net') \in Nat /\ CopiesOf(m, net') > 0 /\ CopiesOf(m, net) \in Nat
    BY ZenonT(60), <2>1, BagCopies
  <2>4. m \in BagToSet(net)
    <3>1. CopiesOf(m, net) > 0
      BY SMTT(60), <2>2, <2>3
    <3> QED  BY ZenonT(60), <3>1, BagCopies
  <2> QED  BY ZenonT(60), <2>1, <2>2, <2>3, <2>4 DEF Open
<1>2. ASSUME NEW a \in Node, NEW m \in Open(p, a)', NEW k \in Open(p, a)'
      PROVE  m = k /\ CopiesOf(m, net') = 1
  <2>1. m = k /\ CopiesOf(m, net) = 1
    BY ZenonT(60), <1>1, <1>2 DEF CountedOnce
  <2>2. CopiesOf(m, net') <= CopiesOf(m, net) /\ CopiesOf(m, net') \in Nat /\ CopiesOf(m, net') > 0
    BY ZenonT(60), <1>1, <1>2
  <2> QED  BY SMTT(60), <2>1, <2>2
<1>3. PICK S \in SUBSET Adopters(proposedValue[p]) :
        Cardinality(S) = acksReceived[p].ack /\ \A a \in S : Open(p, a) = {}
  BY ZenonT(60) DEF CountedOnce
<1>4. S \in SUBSET Adopters(proposedValue[p])'
  BY SMTT(60), <1>3, AdoptersGrow DEF Adopters
<1>5. \A a \in S : Open(p, a)' = {}
  BY SMTT(60), <1>1, <1>3
<1> QED  BY ZenonT(60), <1>2, <1>3, <1>4, <1>5 DEF CountedOnce

\* A proposal begins without votes and with one question to each acceptor, or
\* needs no votes.
LEMMA CountBegins ==
  ASSUME [AsksOnce]_vars, NEW p \in Up, NEW y, IsABag(net), IsABag(net'),
         \A m \in BagToSet(net') : Expected(m)', acked \subseteq acked',
         proposedValue'[p] = y, acksReceived'[p] = NoVotes,
         \A r \in Broadcast("PROPOSE", p, y) : CopiesOf(r, net') = CopiesOf(r, net) + 1
  PROVE  Counted(p)'
<1>0. ASSUME Majority(Adopters(y)) PROVE Counted(p)'
  <2>1. Majority(Adopters(y))' /\ Adopters(proposedValue[p])' = Adopters(y)'
    BY ZenonT(60), <1>0, MajorityKept DEF Adopters
  <2> QED  BY ZenonT(60), <2>1 DEF Counted, Majority
<1> SUFFICES ASSUME ~Majority(Adopters(y)) PROVE CountedOnce(p)'
  BY ZenonT(60), <1>0 DEF Counted
<1>1. ASSUME NEW a \in Up, NEW k \in Open(p, a)'
      PROVE  /\ k = [type |-> "PROPOSE", from |-> p, to |-> a, value |-> y]
             /\ CopiesOf(k, net') = 1
  <2> DEFINE ask == [type |-> "PROPOSE", from |-> p, to |-> a, value |-> y]
  <2>1. /\ ask \in Broadcast("PROPOSE", p, y) /\ ask.type = "PROPOSE"
        /\ ask.from = p /\ ask.to = a /\ ask.value = y
    BY SMTT(60), NodeAssumption DEF Broadcast, Send
  <2> HIDE DEF ask
  <2>2. CopiesOf(ask, net') = CopiesOf(ask, net) + 1 /\ CopiesOf(ask, net) \in Nat
    BY ZenonT(60), <2>1, BagCopies
  <2>3. CopiesOf(ask, net') > CopiesOf(ask, net) /\ CopiesOf(ask, net') # CopiesOf(ask, net)
        /\ CopiesOf(ask, net') > 0
    BY SMTT(60), <2>2
  <2>4. AsksOnce /\ ask \in BagToSet(net')
    BY ZenonT(60), <2>3, BagCopies DEF vars
  <2>5. k \in BagToSet(net') /\ SameVote(k, ask)
    BY ZenonT(60), <1>1, <2>1 DEF Open, AsksOrBrings, SameVote
  <2>6. k = ask /\ CopiesOf(ask, net') = 1
    BY ZenonT(60), <2>1, <2>3, <2>4, <2>5 DEF AsksOnce
  <2> QED  BY ZenonT(60), <2>6 DEF ask
<1>2. ASSUME NEW a, NEW k \in Open(p, a)' PROVE a \in Up
  <2>1. k \in BagToSet(net') /\ (k.to = a \/ (k.type = "ACK" /\ k.from = a))
    BY ZenonT(60), <1>2 DEF Open, AsksOrBrings
  <2>2. k.to \in Up /\ (k.type = "ACK" => k.from \in Up)
    BY ZenonT(60), <2>1 DEF Expected
  <2> QED  BY SMTT(60), <2>1, <2>2
<1>3. ASSUME NEW a \in Node, NEW m \in Open(p, a)', NEW k \in Open(p, a)'
      PROVE  m = k /\ CopiesOf(m, net') = 1
  <2> DEFINE ask == [type |-> "PROPOSE", from |-> p, to |-> a, value |-> y]
  <2>1. m = ask /\ k = ask /\ CopiesOf(m, net') = 1
    BY ZenonT(60), <1>1, <1>2, <1>3
  <2> QED  BY ZenonT(60), <2>1
<1>4. Cardinality({}) = acksReceived'[p].ack
  BY SMTT(60), FS_EmptySet DEF NoVotes
<1>5. {} \in SUBSET Adopters(proposedValue[p])' /\ \A a \in {} : Open(p, a)' = {}
  OBVIOUS
<1>6. \E S \in SUBSET Adopters(proposedValue[p])' :
        Cardinality(S) = acksReceived'[p].ack /\ \A a \in S : Open(p, a)' = {}
  BY ZenonT(60), <1>4, <1>5
<1> QED  BY ZenonT(60), <1>3, <1>6 DEF CountedOnce

\* So does handling a message, when no reply bears on the count of p.
LEMMA CountQuiet ==
  ASSUME NEW p \in Node, IsABag(net), NEW m \in BagToSet(net), NEW out, Exchange(m, out),
         \A r \in out : ~About(r, p), Counted(p), acked \subseteq acked',
         proposedValue'[p] = proposedValue[p], acksReceived'[p].ack = acksReceived[p].ack
  PROVE  Counted(p)'
<1>1. IsABag(net') /\ \A x : CopiesOf(x, net') = CopiesOf(x, net) - (IF x = m THEN 1 ELSE 0)
                                                                  + (IF x \in out THEN 1 ELSE 0)
  BY ZenonT(60), ExchangeCopies
<1>2. ASSUME NEW x, About(x, p)
      PROVE  CopiesOf(x, net') <= CopiesOf(x, net)
  <2>1. x \notin out
    BY ZenonT(60), <1>2
  <2>2. CopiesOf(x, net) \in Nat
    BY ZenonT(60), BagCopies
  <2> QED  BY SMTT(60), <1>1, <2>1, <2>2
<1>3. \A x, a : AsksOrBrings(x, p, a) => About(x, p)
  BY ZenonT(60) DEF AsksOrBrings, About
<1> QED  BY ZenonT(60), <1>1, <1>2, <1>3, CountKept

\* HandleAck: the vote of one more acceptor is counted, and not under way any more.
LEMMA CountVote ==
  ASSUME TypeOK, NEW m \in BagToSet(net), NEW out, Exchange(m, out), IsABag(net), Expected(m),
         NEW p \in Node, m.type = "ACK", m.to = p, Equals(m.value, proposedValue[p]),
         \A r \in out : ~About(r, p), Counted(p), acked' = acked,
         proposedValue'[p] = proposedValue[p], acksReceived'[p].ack = acksReceived[p].ack + 1
  PROVE  Counted(p)'
<1> SUFFICES ASSUME CountedOnce(p) PROVE CountedOnce(p)'
  BY ZenonT(60), CountedStays
<1>1. /\ m.from \in Node /\ m.value \in Value /\ m \in Open(p, m.from)
      /\ <<m.from, m.value>> \in acked
  BY ZenonT(60) DEF TypeOK, Message, Open, AsksOrBrings, Expected
<1>2. CopiesOf(m, net) = 1 /\ \A a \in Node : \A x, k \in Open(p, a) : x = k /\ CopiesOf(x, net) = 1
  BY ZenonT(60), <1>1 DEF CountedOnce
<1>3. ASSUME NEW a \in Node, NEW x \in Open(p, a)'
      PROVE  x # m /\ x \in Open(p, a) /\ CopiesOf(x, net') = CopiesOf(x, net)
  <2>1. AsksOrBrings(x, p, a) /\ x \in BagToSet(net') /\ About(x, p)
    BY ZenonT(60), <1>3 DEF Open, AsksOrBrings, About
  <2>2. CopiesOf(x, net') = CopiesOf(x, net) - (IF x = m THEN 1 ELSE 0)
                                             + (IF x \in out THEN 1 ELSE 0)
    BY ZenonT(60), ExchangeCopies
  <2>a. x \notin out
    BY ZenonT(60), <2>1
  <2>3. CopiesOf(x, net) \in Nat /\ CopiesOf(x, net') > 0
    BY ZenonT(60), <2>1, BagCopies, ExchangeCopies
  <2>4. x # m /\ CopiesOf(x, net') = CopiesOf(x, net) /\ CopiesOf(x, net) > 0
    BY SMTT(60), <1>2, <2>2, <2>a, <2>3
  <2>5. x \in BagToSet(net)
    BY ZenonT(60), <2>4, BagCopies
  <2> QED  BY ZenonT(60), <2>1, <2>4, <2>5 DEF Open
<1>4. \A a \in Node : \A x, k \in Open(p, a)' : x = k /\ CopiesOf(x, net') = 1
  <2> SUFFICES ASSUME NEW a \in Node, NEW x \in Open(p, a)', NEW k \in Open(p, a)'
               PROVE  x = k /\ CopiesOf(x, net') = 1
    BY ZenonT(60)
  <2>1. x \in Open(p, a) /\ k \in Open(p, a) /\ CopiesOf(x, net') = CopiesOf(x, net)
    BY ZenonT(60), <1>3
  <2> QED  BY ZenonT(60), <1>2, <2>1
<1>5. Open(p, m.from)' = {}
  <2> SUFFICES ASSUME NEW x \in Open(p, m.from)' PROVE FALSE
    BY ZenonT(60)
  <2>1. x # m /\ x \in Open(p, m.from)
    BY ZenonT(60), <1>1, <1>3
  <2>2. x = m
    BY SMTT(60), <1>1, <1>2, <2>1
  <2> QED  BY ZenonT(60), <2>1, <2>2
<1>6. PICK S \in SUBSET Adopters(proposedValue[p]) :
        Cardinality(S) = acksReceived[p].ack /\ \A a \in S : Open(p, a) = {}
  BY ZenonT(60) DEF CountedOnce
<1>7. S \in SUBSET Node /\ m.from \notin S /\ m.from \in Adopters(proposedValue[p])
  BY ZenonT(60), <1>1, <1>6 DEF Adopters
<1>8. Cardinality(S \cup {m.from}) = acksReceived'[p].ack
  <2>1. IsFiniteSet(S)
    BY ZenonT(60), <1>7, NodeAssumption, FS_Subset
  <2>2. Cardinality(S \cup {m.from}) = Cardinality(S) + 1
    BY ZenonT(60), <1>7, <2>1, FS_AddElement
  <2> QED  BY SMTT(60), <1>6, <2>2
<1>9. S \cup {m.from} \in SUBSET Adopters(proposedValue[p])'
  <2>1. Adopters(proposedValue[p])' = Adopters(proposedValue[p])
    BY ZenonT(60) DEF Adopters
  <2> QED  BY ZenonT(60), <1>6, <1>7, <2>1
<1>10. \A a \in S \cup {m.from} : Open(p, a)' = {}
  <2>1. \A a \in S : Open(p, a)' = {}
    BY ZenonT(60), <1>3, <1>6, <1>7
  <2> QED  BY ZenonT(60), <1>5, <2>1
<1> QED  BY ZenonT(60), <1>4, <1>8, <1>9, <1>10 DEF CountedOnce

\* HandlePropose: the vote takes the place of the message that asked for it.
LEMMA CountAnswer ==
  ASSUME TypeOK, NEW m \in BagToSet(net), IsABag(net), m.type = "PROPOSE",
         NEW p \in Node, m.from = p, Exchange(m, Send("ACK", m.to, {p}, m.value)),
         Counted(p), acked \subseteq acked',
         proposedValue'[p] = proposedValue[p], acksReceived'[p].ack = acksReceived[p].ack
  PROVE  Counted(p)'
<1> DEFINE vote == [type |-> "ACK", from |-> m.to, to |-> p, value |-> m.value]
           out == Send("ACK", m.to, {p}, m.value)
<1>1. m.to \in Node /\ m.value \in Value /\ vote # m /\ out \subseteq {vote}
  BY SMTT(60) DEF TypeOK, Message, Send
<1>0. Exchange(m, out) /\ vote.type = "ACK" /\ vote.from = m.to /\ vote.value = m.value
  OBVIOUS
<1> HIDE DEF vote, out
<1>2. IsABag(net') /\ \A x : CopiesOf(x, net') = CopiesOf(x, net) - (IF x = m THEN 1 ELSE 0)
                                                                  + (IF x \in out THEN 1 ELSE 0)
  BY ZenonT(60), <1>0, ExchangeCopies
<1>3. \A x : CopiesOf(x, net) \in Nat /\ (x \in BagToSet(net) <=> CopiesOf(x, net) > 0)
             /\ CopiesOf(x, net') \in Nat /\ (x \in BagToSet(net') <=> CopiesOf(x, net') > 0)
  BY ZenonT(60), <1>2, BagCopies
<1>5. ASSUME NEW x, x # vote
      PROVE  CopiesOf(x, net') <= CopiesOf(x, net) /\ (x = m => CopiesOf(x, net') = CopiesOf(x, net) - 1)
  BY SMTT(60), <1>1, <1>2, <1>3, <1>5
<1>6. CASE ~Equals(m.value, proposedValue[p])
  <2>1. \A x, a : AsksOrBrings(x, p, a) => x # vote
    BY ZenonT(60), <1>0, <1>6 DEF AsksOrBrings
  <2>2. \A x, a : AsksOrBrings(x, p, a) => CopiesOf(x, net') <= CopiesOf(x, net)
    BY ZenonT(60), <1>5, <2>1
  <2> QED  BY ZenonT(60), <1>2, <2>2, CountKept
<1>7. CASE Equals(m.value, proposedValue[p])
  <2> SUFFICES ASSUME CountedOnce(p) PROVE CountedOnce(p)'
    BY ZenonT(60), CountedStays
  <2>1. m \in Open(p, m.to)
    BY ZenonT(60), <1>7 DEF Open, AsksOrBrings
  <2>2. CopiesOf(m, net) = 1 /\ \A a \in Node : \A x, k \in Open(p, a) : x = k /\ CopiesOf(x, net) = 1
    BY ZenonT(60), <1>1, <2>1 DEF CountedOnce
  <2>3. ASSUME NEW a \in Node, NEW x \in Open(p, a)', x # vote
        PROVE  a # m.to /\ x \in Open(p, a) /\ CopiesOf(x, net') = 1
    <3>1. AsksOrBrings(x, p, a) /\ x \in BagToSet(net')
      BY ZenonT(60), <2>3 DEF Open, AsksOrBrings
    <3>2. CopiesOf(x, net') > 0 /\ CopiesOf(x, net') <= CopiesOf(x, net) /\ x # m
      BY SMTT(60), <1>3, <1>5, <2>2, <2>3, <3>1
    <3>3. x \in BagToSet(net)
      BY SMTT(60), <1>3, <3>2
    <3>4. x \in Open(p, a)
      BY ZenonT(60), <3>1, <3>3 DEF Open
    <3>5. CopiesOf(x, net) = 1 /\ a # m.to
      BY ZenonT(60), <2>1, <2>2, <3>2, <3>4
    <3> QED  BY SMTT(60), <1>3, <3>2, <3>4, <3>5
  <2>4. CopiesOf(vote, net') <= 1
    <3>1. vote \notin BagToSet(net)
      <4> SUFFICES ASSUME vote \in BagToSet(net) PROVE FALSE
        OBVIOUS
      <4>1. vote \in Open(p, m.to)
        BY ZenonT(60), <1>7 DEF Open, AsksOrBrings, vote
      <4>2. vote = m
        BY SMTT(60), <1>1, <2>1, <2>2, <4>1
      <4> QED  BY ZenonT(60), <1>1, <4>2
    <3> QED  BY SMTT(60), <1>1, <1>2, <1>3, <3>1
  <2>5. ASSUME NEW a \in Node, NEW x \in Open(p, a)'
        PROVE  CopiesOf(x, net') = 1 /\ (x = vote <=> a = m.to)
    <3>1. CASE x = vote
      <4>1. a = m.to /\ x \in BagToSet(net')
        BY SMTT(60), <1>0, <2>5, <3>1 DEF Open, AsksOrBrings
      <4> QED  BY SMTT(60), <1>3, <2>4, <3>1, <4>1
    <3>2. CASE x # vote
      BY ZenonT(60), <2>3, <2>5, <3>2
    <3> QED  BY ZenonT(60), <3>1, <3>2
  <2>6. \A a \in Node : \A x, k \in Open(p, a)' : x = k /\ CopiesOf(x, net') = 1
    <3> SUFFICES ASSUME NEW a \in Node, NEW x \in Open(p, a)', NEW k \in Open(p, a)'
                 PROVE  x = k /\ CopiesOf(x, net') = 1
      BY ZenonT(60)
    <3>1. CASE a = m.to
      BY ZenonT(60), <2>5, <3>1
    <3>2. CASE a # m.to
      <4>1. x # vote /\ k # vote /\ CopiesOf(x, net') = 1
        BY ZenonT(60), <2>5, <3>2
      <4>2. x \in Open(p, a) /\ k \in Open(p, a)
        BY ZenonT(60), <2>3, <4>1
      <4> QED  BY ZenonT(60), <2>2, <4>1, <4>2
    <3> QED  BY ZenonT(60), <3>1, <3>2
  <2>7. PICK S \in SUBSET Adopters(proposedValue[p]) :
          Cardinality(S) = acksReceived[p].ack /\ \A a \in S : Open(p, a) = {}
    BY ZenonT(60) DEF CountedOnce
  <2>8. S \in SUBSET Adopters(proposedValue[p])' /\ S \in SUBSET Node
    BY SMTT(60), <2>7, AdoptersGrow DEF Adopters
  <2>9. \A a \in S : Open(p, a)' = {}
    <3> SUFFICES ASSUME NEW a \in S, NEW x \in Open(p, a)' PROVE FALSE
      BY ZenonT(60)
    <3>1. a \in Node /\ Open(p, a) = {} /\ a # m.to
      BY ZenonT(60), <2>1, <2>7, <2>8
    <3> QED  BY ZenonT(60), <2>3, <2>5, <3>1
  <2> QED  BY ZenonT(60), <2>6, <2>7, <2>8, <2>9 DEF CountedOnce
<1> QED  BY ZenonT(60), <1>6, <1>7

\* As many votes as a quorum, each of another acceptor, are a majority.
LEMMA CountIsMajority ==
  ASSUME NEW p \in Node, Counted(p)', acksReceived'[p].ack \in Nat,
         acksReceived'[p].ack >= QuorumSize
  PROVE  Majority(Adopters(proposedValue[p]))'
<1> SUFFICES ASSUME CountedOnce(p)' PROVE Majority(Adopters(proposedValue[p]))'
  BY ZenonT(60) DEF Counted
<1>1. PICK S \in SUBSET Adopters(proposedValue[p])' : Cardinality(S) = acksReceived'[p].ack
  BY ZenonT(60) DEF CountedOnce
<1>2. Adopters(proposedValue[p])' \in SUBSET Node
  BY ZenonT(60) DEF Adopters
<1>3. IsFiniteSet(Adopters(proposedValue[p])')
  BY ZenonT(60), <1>2, NodeAssumption, FS_Subset
<1>4. /\ Cardinality(S) <= Cardinality(Adopters(proposedValue[p])')
      /\ Cardinality(Adopters(proposedValue[p])') \in Nat
  BY ZenonT(60), <1>1, <1>3, FS_Subset, FS_CardinalityType
<1>5. QuorumSize \in Nat /\ QuorumSize' = QuorumSize
  BY ZenonT(60), QuorumSizeType DEF QuorumSize
<1>6. Cardinality(Adopters(proposedValue[p])') >= QuorumSize'
  BY SMTT(60), <1>1, <1>4, <1>5
<1> QED  BY ZenonT(60), <1>6 DEF Majority

\* Messages stay expected when those that are sent are.
LEMMA ExpectedKept ==
  ASSUME \A m \in BagToSet(net) : Expected(m), acked \subseteq acked',
         NEW out, BagToSet(net') \subseteq BagToSet(net) \cup out, \A r \in out : Expected(r)'
  PROVE  \A m \in BagToSet(net') : Expected(m)'
<1> SUFFICES ASSUME NEW m \in BagToSet(net) PROVE Expected(m)'
  BY ZenonT(60)
<1>1. Expected(m)
  OBVIOUS
<1> QED  BY ZenonT(60), <1>1 DEF Expected

\* Propose begins the count of its proposer and touches no other.
LEMMA CountPropose ==
  ASSUME TypeOK, VotesCounted, [AsksOnce]_vars, NEW p \in Up, NEW v \in Value,
         Propose(p, v), \A m \in BagToSet(net') : Expected(m)'
  PROVE  IsABag(net') /\ \A q \in Node : Counted(q)'
<1> DEFINE y == Join(bufferedValue[p], v)
           out == Broadcast("PROPOSE", p, y)
<1>1. p \in Node
  BY ZenonT(60), NodeAssumption
<1>2. /\ net' = net (+) SetToBag(out) /\ UNCHANGED acked
      /\ proposedValue' = [proposedValue EXCEPT ![p] = y]
      /\ acksReceived' = [acksReceived EXCEPT ![p] = NoVotes]
  BY ZenonT(60) DEF Propose
<1>3. \A x \in out : x.type = "PROPOSE" /\ x.from = p
  BY SMTT(60), <1>1 DEF Broadcast, Send
<1>4. /\ proposedValue'[p] = y /\ acksReceived'[p] = NoVotes
      /\ \A q \in Node : q # p => /\ proposedValue'[q] = proposedValue[q]
                                  /\ acksReceived'[q] = acksReceived[q]
  BY ZenonT(60), <1>1, <1>2 DEF TypeOK
<1>5. IsABag(net) /\ \A q \in Node : Counted(q)
  BY ZenonT(60) DEF VotesCounted
<1> HIDE DEF y, out
<1>6. IsABag(net') /\ \A x : CopiesOf(x, net') = CopiesOf(x, net) + (IF x \in out THEN 1 ELSE 0)
  BY ZenonT(60), <1>2, <1>5, SendCopies
<1>8. \A x : CopiesOf(x, net) \in Nat
  BY ZenonT(60), <1>5, BagCopies
<1>9. Counted(p)'
  <2>1. acked \subseteq acked' /\ \A x \in Broadcast("PROPOSE", p, y) : CopiesOf(x, net') = CopiesOf(x, net) + 1
    BY ZenonT(60), <1>2, <1>6 DEF out
  <2> QED  BY ZenonT(60), <1>4, <1>5, <1>6, <2>1, CountBegins
<1>10. ASSUME NEW q \in Node, q # p PROVE Counted(q)'
  <2>1. ASSUME NEW x, NEW a, AsksOrBrings(x, q, a) PROVE CopiesOf(x, net') <= CopiesOf(x, net)
    <3>1. x \notin out
      BY SMTT(60), <1>3, <1>10, <2>1 DEF AsksOrBrings
    <3> QED  BY SMTT(60), <1>6, <1>8, <3>1
  <2>2. acked \subseteq acked' /\ proposedValue'[q] = proposedValue[q] /\ acksReceived'[q].ack = acksReceived[q].ack
    BY ZenonT(60), <1>2, <1>4, <1>10
  <2> QED  BY ZenonT(60), <1>5, <1>6, <2>1, <2>2, CountKept
<1> QED  BY ZenonT(60), <1>6, <1>9, <1>10

\* So does a proposal made again because of a NACK.
LEMMA CountReproposed ==
  ASSUME TypeOK, VotesCounted, [AsksOnce]_vars, NEW m \in BagToSet(net),
         m.type # "PROPOSE", NEW p \in Up, NEW y, \A k \in BagToSet(net') : Expected(k)',
         Exchange(m, Broadcast("PROPOSE", p, y)), UNCHANGED acked,
         proposedValue' = [proposedValue EXCEPT ![p] = y],
         acksReceived' = [acksReceived EXCEPT ![p] = NoVotes]
  PROVE  \A q \in Node : Counted(q)'
<1> DEFINE out == Broadcast("PROPOSE", p, y)
<1>1. p \in Node
  BY ZenonT(60), NodeAssumption
<1>2. m \notin out /\ Exchange(m, out) /\ \A x \in out : x.type = "PROPOSE" /\ x.from = p
  BY SMTT(60) DEF Broadcast, Send
<1>3. /\ proposedValue'[p] = y /\ acksReceived'[p] = NoVotes
      /\ \A q \in Node : q # p => /\ proposedValue'[q] = proposedValue[q]
                                  /\ acksReceived'[q] = acksReceived[q]
  BY ZenonT(60), <1>1 DEF TypeOK
<1>4. IsABag(net) /\ \A q \in Node : Counted(q)
  BY ZenonT(60) DEF VotesCounted
<1> HIDE DEF out
<1>5. IsABag(net') /\ \A x : CopiesOf(x, net') = CopiesOf(x, net) - (IF x = m THEN 1 ELSE 0)
                                                                  + (IF x \in out THEN 1 ELSE 0)
  BY ZenonT(60), <1>2, <1>4, ExchangeCopies
<1>6. \A x : CopiesOf(x, net) \in Nat
  BY ZenonT(60), <1>4, BagCopies
<1>8. Counted(p)'
  <2>1. \A x \in out : CopiesOf(x, net') = CopiesOf(x, net) + 1
    <3> SUFFICES ASSUME NEW x \in out PROVE CopiesOf(x, net') = CopiesOf(x, net) + 1
      OBVIOUS
    <3>1. x # m /\ CopiesOf(x, net) \in Nat
      BY ZenonT(60), <1>2, <1>6
    <3>2. CopiesOf(x, net') = CopiesOf(x, net) - (IF x = m THEN 1 ELSE 0)
                                               + (IF x \in out THEN 1 ELSE 0)
      BY ZenonT(60), <1>5
    <3> QED  BY SMTT(60), <3>1, <3>2
  <2>2. \A x \in Broadcast("PROPOSE", p, y) : CopiesOf(x, net') = CopiesOf(x, net) + 1
    BY ZenonT(60), <2>1 DEF out
  <2>3. acked \subseteq acked'
    OBVIOUS
  <2> QED  BY ZenonT(60), <1>3, <1>4, <1>5, <2>2, <2>3, CountBegins
<1>9. ASSUME NEW q \in Node, q # p PROVE Counted(q)'
  <2>1. \A x \in out : ~About(x, q)
    BY SMTT(60), <1>2, <1>9 DEF About
  <2>2. acked \subseteq acked' /\ proposedValue'[q] = proposedValue[q] /\ acksReceived'[q].ack = acksReceived[q].ack
    BY ZenonT(60), <1>3, <1>9
  <2> QED  BY ZenonT(60), <1>2, <1>4, <2>1, <2>2, CountQuiet
<1> QED  BY ZenonT(60), <1>8, <1>9

\* A step of the cluster keeps the counts, if no proposer asks again for votes it
\* still needs.
LEMMA VotesCountedStep ==
  ASSUME TypeOK, VotesCounted, [Step]_vars, [AsksOnce]_vars
  PROVE  VotesCounted'
<1>0. /\ IsABag(net) /\ (\A m \in BagToSet(net) : Expected(m))
      /\ (\A q \in Node : Counted(q)) /\ (\A v \in decided : Majority(Adopters(v)))
  BY ZenonT(60) DEF VotesCounted, DecidedIsAdopted
<1>1. CASE UNCHANGED vars
  <2>1. UNCHANGED <<net, acked, decided, proposedValue, acksReceived>>
    BY ZenonT(60), <1>1 DEF vars
  <2>2. \A m \in BagToSet(net') : Expected(m)'
    BY ZenonT(60), <1>0, <2>1 DEF Expected
  <2>3. IsABag(net') /\ \A x : CopiesOf(x, net') <= CopiesOf(x, net)
    <3>1. \A x : CopiesOf(x, net) \in Nat
      BY ZenonT(60), <1>0, BagCopies
    <3> QED  BY SMTT(60), <1>0, <2>1, <3>1
  <2>4. \A q \in Node : Counted(q)'
    BY ZenonT(60), <1>0, <2>1, <2>3, CountKept
  <2>5. DecidedIsAdopted'
    BY ZenonT(60), <1>0, <2>1, MajorityKept DEF DecidedIsAdopted
  <2> QED  BY ZenonT(60), <2>2, <2>3, <2>4, <2>5 DEF VotesCounted
<1>2. ASSUME NEW p \in Up, NEW v \in Value, Propose(p, v)
      PROVE  VotesCounted'
  <2> DEFINE y == Join(bufferedValue[p], v)
             out == Broadcast("PROPOSE", p, y)
  <2>1. UNCHANGED <<acked, decided>> /\ BagToSet(net') = BagToSet(net) \cup out
    BY ZenonT(60), <1>2, SendMessages DEF Propose
  <2>2. \A r \in out : r.to \in Up /\ r.type = "PROPOSE"
    BY SMTT(60) DEF Broadcast, Send
  <2>3. \A r \in out : Expected(r)'
    BY SMTT(60), <2>2 DEF Expected
  <2> HIDE DEF out
  <2>4. \A m \in BagToSet(net') : Expected(m)'
    BY ZenonT(60), <1>0, <2>1, <2>3, ExpectedKept
  <2>5. IsABag(net') /\ \A q \in Node : Counted(q)'
    BY ZenonT(60), <1>2, <2>4, CountPropose
  <2>6. DecidedIsAdopted'
    BY ZenonT(60), <1>0, <2>1, MajorityKept DEF DecidedIsAdopted
  <2> QED  BY ZenonT(60), <2>4, <2>5, <2>6 DEF VotesCounted
<1>3. ASSUME NEW m \in BagToSet(net), NEW out, Exchange(m, out), acked \subseteq acked',
             \A r \in out : Expected(r)', \A q \in Node : Counted(q)', decided' = decided
      PROVE  VotesCounted'
  <2>1. IsABag(net') /\ BagToSet(net') \subseteq BagToSet(net) \cup out
    BY ZenonT(60), <1>0, <1>3, ExchangeCopies, ExchangeMessages
  <2>2. \A k \in BagToSet(net') : Expected(k)'
    BY ZenonT(60), <1>0, <1>3, <2>1, ExpectedKept
  <2>3. DecidedIsAdopted'
    BY ZenonT(60), <1>0, <1>3, MajorityKept DEF DecidedIsAdopted
  <2> QED  BY ZenonT(60), <1>3, <2>1, <2>2, <2>3 DEF VotesCounted
<1>4. ASSUME NEW m \in BagToSet(net), NEW out, Exchange(m, out), acked \subseteq acked',
             \A r \in out : r.to \in Up /\ r.type \in {"NACK", "LEARN"},
             UNCHANGED <<proposedValue, decided>>,
             \A q \in Node : acksReceived'[q].ack = acksReceived[q].ack
      PROVE  VotesCounted'
  <2>1. \A r \in out : Expected(r)' /\ \A q \in Node : ~About(r, q)
    BY SMTT(60), <1>4 DEF Expected, About
  <2>2. \A q \in Node : Counted(q)'
    BY ZenonT(60), <1>0, <1>4, <2>1, CountQuiet
  <2> QED  BY ZenonT(60), <1>3, <1>4, <2>1, <2>2
<1>a. ASSUME NEW m \in BagToSet(net), Exchange(m, {}),
             UNCHANGED <<proposedValue, decided, acked>>,
             \A q \in Node : acksReceived'[q].ack = acksReceived[q].ack
      PROVE  VotesCounted'
  <2> DEFINE out == {}
  <2>1. /\ acked \subseteq acked' /\ Exchange(m, out)
        /\ \A r \in out : r.to \in Up /\ r.type \in {"NACK", "LEARN"}
    BY ZenonT(60), <1>a
  <2> HIDE DEF out
  <2> QED  BY ZenonT(60), <1>4, <1>a, <2>1
<1>5. ASSUME NEW m \in BagToSet(net), NEW y \in Value, m.type # "PROPOSE",
             Exchange(m, Broadcast("PROPOSE", m.to, y)), UNCHANGED <<acked, decided>>,
             proposedValue' = [proposedValue EXCEPT ![m.to] = y],
             acksReceived' = [acksReceived EXCEPT ![m.to] = NoVotes]
      PROVE  VotesCounted'
  <2>1. m.to \in Up /\ m.to \in Node
    BY ZenonT(60), <1>0, NodeAssumption DEF Expected
  <2>2. \A r \in Broadcast("PROPOSE", m.to, y) : r.to \in Up /\ r.type = "PROPOSE"
    BY SMTT(60) DEF Broadcast, Send
  <2>3. \A r \in Broadcast("PROPOSE", m.to, y) : Expected(r)'
    BY SMTT(60), <2>2 DEF Expected
  <2>4. BagToSet(net') \subseteq BagToSet(net) \cup Broadcast("PROPOSE", m.to, y)
    BY ZenonT(60), <1>5, ExchangeMessages
  <2>5. \A k \in BagToSet(net') : Expected(k)'
    BY ZenonT(60), <1>0, <1>5, <2>3, <2>4, ExpectedKept
  <2>6. \A q \in Node : Counted(q)'
    BY ZenonT(60), <1>5, <2>1, <2>5, CountReproposed
  <2> QED  BY ZenonT(60), <1>3, <1>5, <2>3, <2>6
<1>6. ASSUME NEW m \in BagToSet(net), HandleAck(m)
      PROVE  VotesCounted'
  <2> DEFINE p == m.to
             acks == [acksReceived[p] EXCEPT !.ack = @ + 1]
             quorum == ~quorumReached[p] /\ acks.ack + acks.nack >= QuorumSize
  <2>1. /\ m.type = "ACK" /\ p \in Node /\ bufferedValue[p] \in Value /\ UNCHANGED acked
        /\ acksReceived[p] \in [ack : Nat, nack : Nat]
    BY ZenonT(60), <1>6 DEF HandleAck, TypeOK, Message
  <2>2. acks.ack = acksReceived[p].ack + 1 /\ acks.ack \in Nat /\ acks.nack \in Nat
    BY SMTT(60), <2>1
  <2>3. CASE ~Equals(m.value, proposedValue[p])
    <3>1. Exchange(m, {}) /\ UNCHANGED <<proposedValue, acksReceived, decided>>
      BY ZenonT(60), <1>6, <2>3 DEF HandleAck, IgnoreVote, proposerVars
    <3> QED  BY ZenonT(60), <1>a, <2>1, <3>1
  <2>4. CASE Equals(m.value, proposedValue[p])
    <3>0. CheckAndHandleQuorum(m, p, acks, bufferedValue[p])
      BY ZenonT(60), <1>6, <2>4 DEF HandleAck
    <3> HIDE DEF acks
    <3>1. CASE quorum /\ acks.nack > 0
      <4>1. /\ Exchange(m, Broadcast("PROPOSE", p, bufferedValue[p])) /\ UNCHANGED decided
            /\ proposedValue' = [proposedValue EXCEPT ![p] = bufferedValue[p]]
            /\ acksReceived' = [acksReceived EXCEPT ![p] = NoVotes]
        BY SMTT(60), <2>2, <3>0, <3>1 DEF CheckAndHandleQuorum
      <4> QED  BY ZenonT(60), <1>5, <2>1, <4>1
    <3>2. CASE ~(quorum /\ acks.nack > 0)
      <4> DEFINE out == IF quorum THEN Broadcast("LEARN", p, proposedValue[p]) ELSE {}
      <4>1. /\ Exchange(m, out) /\ UNCHANGED proposedValue
            /\ acksReceived' = [acksReceived EXCEPT ![p] = acks]
            /\ decided' = IF quorum THEN decided \cup {proposedValue[p]} ELSE decided
        BY SMTT(60), <2>2, <3>0, <3>2 DEF CheckAndHandleQuorum
      <4>2. \A r \in out : r.to \in Up /\ r.type = "LEARN"
        BY SMTT(60) DEF Broadcast, Send
      <4> HIDE DEF out
      <4>3. /\ acksReceived'[p] = acks
            /\ \A q \in Node : q # p => acksReceived'[q] = acksReceived[q]
        BY ZenonT(60), <2>1, <4>1 DEF TypeOK
      <4>4. \A r \in out : Expected(r)' /\ \A q \in Node : ~About(r, q)
        BY SMTT(60), <4>2 DEF Expected, About
      <4>5. Counted(p)'
        BY ZenonT(60), <1>0, <2>1, <2>2, <2>4, <4>1, <4>3, <4>4, CountVote
      <4>6. ASSUME NEW q \in Node, q # p PROVE Counted(q)'
        <5>1. acked \subseteq acked' /\ proposedValue'[q] = proposedValue[q] /\ acksReceived'[q].ack = acksReceived[q].ack
          BY ZenonT(60), <2>1, <4>1, <4>3, <4>6
        <5> QED  BY ZenonT(60), <1>0, <4>1, <4>4, <5>1, CountQuiet
      <4>7. \A q \in Node : Counted(q)'
        BY ZenonT(60), <4>5, <4>6
      <4>8. DecidedIsAdopted'
        <5>0. PICK w : w = proposedValue[p]
          BY ZenonT(60)
        <5>1. \A v \in decided : Majority(Adopters(v))'
          BY ZenonT(60), <1>0, <2>1, MajorityKept
        <5>2. quorum => acks.ack >= QuorumSize
          BY SMTT(60), <2>2, <3>2, QuorumSizeType
        <5>3. quorum => Majority(Adopters(proposedValue[p]))'
          BY ZenonT(60), <2>1, <2>2, <4>3, <4>5, <5>2, CountIsMajority
        <5>4. quorum => Majority(Adopters(w))'
          <6>1. Adopters(proposedValue[p])' = Adopters(w)'
            BY ZenonT(60), <4>1, <5>0 DEF Adopters
          <6> QED  BY ZenonT(60), <5>3, <6>1 DEF Majority
        <5> QED  BY ZenonT(60), <4>1, <5>0, <5>1, <5>4 DEF DecidedIsAdopted
      <4>9. IsABag(net') /\ BagToSet(net') \subseteq BagToSet(net) \cup out
        BY ZenonT(60), <1>0, <4>1, ExchangeCopies, ExchangeMessages
      <4>10. \A k \in BagToSet(net') : Expected(k)'
        BY ZenonT(60), <1>0, <2>1, <4>4, <4>9, ExpectedKept
      <4> QED  BY ZenonT(60), <4>7, <4>8, <4>9, <4>10 DEF VotesCounted
    <3> QED  BY ZenonT(60), <3>1, <3>2
  <2> QED  BY ZenonT(60), <2>3, <2>4
<1>7. ASSUME NEW m \in BagToSet(net), HandleNack(m)
      PROVE  VotesCounted'
  <2> DEFINE p == m.to
             acks == [acksReceived[p] EXCEPT !.nack = @ + 1]
             buffered == Join(bufferedValue[p], m.value)
             quorum == ~quorumReached[p] /\ acks.ack + acks.nack >= QuorumSize
  <2>1. /\ m.type = "NACK" /\ p \in Node /\ buffered \in Value /\ UNCHANGED acked
        /\ acksReceived[p] \in [ack : Nat, nack : Nat]
    BY ZenonT(60), <1>7, JoinAbove DEF HandleNack, TypeOK, Message
  <2>2. acks.ack = acksReceived[p].ack /\ acks.nack \in Nat /\ acks.nack > 0
    BY SMTT(60), <2>1
  <2>3. CASE ~IsIn(proposedValue[p], m.value)
    <3>1. Exchange(m, {}) /\ UNCHANGED <<proposedValue, acksReceived, decided>>
      BY ZenonT(60), <1>7, <2>3 DEF HandleNack, IgnoreVote, proposerVars
    <3> QED  BY ZenonT(60), <1>a, <2>1, <3>1
  <2>4. CASE IsIn(proposedValue[p], m.value)
    <3>0. CheckAndHandleQuorum(m, p, acks, buffered)
      BY ZenonT(60), <1>7, <2>4 DEF HandleNack
    <3> HIDE DEF acks, buffered
    <3>1. CASE quorum
      <4>1. /\ Exchange(m, Broadcast("PROPOSE", p, buffered)) /\ UNCHANGED decided
            /\ proposedValue' = [proposedValue EXCEPT ![p] = buffered]
            /\ acksReceived' = [acksReceived EXCEPT ![p] = NoVotes]
        BY SMTT(60), <2>2, <3>0, <3>1 DEF CheckAndHandleQuorum
      <4> QED  BY ZenonT(60), <1>5, <2>1, <4>1
    <3>2. CASE ~quorum
      <4>1. /\ Exchange(m, {}) /\ UNCHANGED <<proposedValue, decided>>
            /\ acksReceived' = [acksReceived EXCEPT ![p] = acks]
        BY ZenonT(60), <3>0, <3>2 DEF CheckAndHandleQuorum
      <4>2. \A q \in Node : acksReceived'[q].ack = acksReceived[q].ack
        BY ZenonT(60), <2>1, <2>2, <4>1 DEF TypeOK
      <4> QED  BY ZenonT(60), <1>a, <2>1, <4>1, <4>2
    <3> QED  BY ZenonT(60), <3>1, <3>2
  <2> QED  BY ZenonT(60), <2>3, <2>4
<1>8. ASSUME NEW m \in BagToSet(net), HandlePropose(m)
      PROVE  VotesCounted'
  <2>1. UNCHANGED <<proposedValue, acksReceived, decided>>
    BY ZenonT(60), <1>8 DEF HandlePropose, proposerVars
  <2>2. CASE Reject(m)
    <3> DEFINE out == Send("NACK", m.to, {m.from}, Join(acceptedValue[m.to], m.value))
    <3>1. Exchange(m, out) /\ UNCHANGED acked
      BY ZenonT(60), <2>2 DEF Reject
    <3>2. \A r \in out : r.to \in Up /\ r.type \in {"NACK", "LEARN"}
      BY SMTT(60) DEF Send
    <3> HIDE DEF out
    <3> QED  BY ZenonT(60), <1>4, <2>1, <3>1, <3>2
  <2>3. CASE Accept(m)
    <3> DEFINE out == Send("ACK", m.to, {m.from}, m.value)
    <3>1. /\ Exchange(m, out) /\ m.type = "PROPOSE" /\ acked' = acked \cup {<<m.to, m.value>>}
          /\ m.from \in Node /\ m.to \in Up
      BY ZenonT(60), <1>0, <2>3 DEF Accept, Expected, TypeOK, Message
    <3>2. \A r \in out : /\ r.to \in Up /\ r.type = "ACK" /\ r.from = m.to
                         /\ r.to = m.from /\ r.value = m.value
      BY SMTT(60) DEF Send
    <3>3. \A r \in out : Expected(r)'
      <4> SUFFICES ASSUME NEW r \in out PROVE Expected(r)'
        BY ZenonT(60)
      <4>1. r.to \in Up /\ r.type = "ACK" /\ r.from = m.to /\ r.to = m.from /\ r.value = m.value
        BY ZenonT(60), <3>2
      <4>2. r.from \in Up /\ <<r.from, r.value>> \in acked'
        BY ZenonT(60), <2>1, <3>1, <4>1
      <4> QED  BY SMTT(60), <4>1, <4>2 DEF Expected
    <3>4. Counted(m.from)'
      BY ZenonT(60), <1>0, <2>1, <3>1, CountAnswer
    <3> HIDE DEF out
    <3>5. ASSUME NEW q \in Node, q # m.from PROVE Counted(q)'
      <4>1. \A r \in out : ~About(r, q)
        BY SMTT(60), <3>2, <3>5 DEF About
      <4>2. acked \subseteq acked' /\ proposedValue'[q] = proposedValue[q] /\ acksReceived'[q].ack = acksReceived[q].ack
        BY ZenonT(60), <2>1, <3>1
      <4> QED  BY ZenonT(60), <1>0, <3>1, <4>1, <4>2, CountQuiet
    <3>6. acked \subseteq acked' /\ \A q \in Node : Counted(q)'
      BY ZenonT(60), <3>1, <3>4, <3>5
    <3> QED  BY ZenonT(60), <1>3, <2>1, <3>1, <3>3, <3>6
  <2> QED  BY ZenonT(60), <1>8, <2>2, <2>3 DEF HandlePropose
<1>9. ASSUME NEW m \in BagToSet(net), HandleLearn(m) \/ Lose(m)
      PROVE  VotesCounted'
  <2>1. UNCHANGED <<proposedValue, acksReceived, acked, decided>>
    BY ZenonT(60), <1>9 DEF HandleLearn, Lose, proposerVars
  <2>2. Exchange(m, BroadcastToOthers("LEARN", m.to, m.value)) \/ Exchange(m, {})
    BY ZenonT(60), <1>9 DEF HandleLearn, Lose
  <2>3. \A r \in BroadcastToOthers("LEARN", m.to, m.value) : r.to \in Up /\ r.type \in {"NACK", "LEARN"}
    BY SMTT(60) DEF BroadcastToOthers, Send
  <2>4. CASE Exchange(m, BroadcastToOthers("LEARN", m.to, m.value))
    <3>1. acked \subseteq acked' /\ \A q \in Node : acksReceived'[q].ack = acksReceived[q].ack
      BY ZenonT(60), <2>1
    <3> QED  BY ZenonT(60), <1>4, <2>1, <2>3, <2>4, <3>1
  <2>5. CASE Exchange(m, {})
    BY ZenonT(60), <1>a, <2>1, <2>5
  <2> QED  BY ZenonT(60), <2>2, <2>4, <2>5
<1> QED  BY ZenonT(60), <1>1, <1>2, <1>6, <1>7, <1>8, <1>9 DEF Step, Handle

\* Nothing is under way and nothing counted when the cluster starts.
LEMMA VotesCountedInit == Init => VotesCounted
<1> SUFFICES ASSUME Init PROVE VotesCounted
  OBVIOUS
<1>1. IsABag(net) /\ BagToSet(net) = {} /\ decided = {}
  BY SMTT(60) DEF Init, InitWith, EmptyBag, SetToBag, BagToSet, IsABag
<1>2. ASSUME NEW p \in Node PROVE Counted(p)
  <2>1. \A a : Open(p, a) = {}
    BY ZenonT(60), <1>1 DEF Open
  <2>2. Cardinality({}) = acksReceived[p].ack
    BY SMTT(60), FS_EmptySet DEF Init, InitWith, NoVotes
  <2>3. {} \in SUBSET Adopters(proposedValue[p])
    OBVIOUS
  <2> QED  BY ZenonT(60), <2>1, <2>2, <2>3 DEF Counted, CountedOnce
<1> QED  BY ZenonT(60), <1>1, <1>2 DEF VotesCounted, DecidedIsAdopted

\* If no proposer asks again for votes it still needs, every value decided has
\* the votes of a majority, although HandleAck does not look at who sends them.
THEOREM DecidedHaveMajorities == Spec /\ VotesAskedOnce => []DecidedIsAdopted
<1>1. TypeOK /\ VotesCounted /\ [Next]_vars /\ [AsksOnce]_vars => VotesCounted'
  BY ZenonT(60), VotesCountedStep, NextIsStep
<1>2. VotesCounted => DecidedIsAdopted
  BY ZenonT(60) DEF VotesCounted
<1> QED  BY <1>1, <1>2, VotesCountedInit, TypeCorrect, PTL DEF Spec, VotesAskedOnce

\* And then decisions are a chain.  Proposers do ask again, after NACKs that come
\* late and in rounds that bring nothing new: without the condition decisions
\* may be concurrent.
THEOREM DecisionsAreComparable == Spec /\ VotesAskedOnce => []DecisionsComparable
<1>1. TypeOK /\ AdoptedValuesComparable /\ DecidedIsAdopted => DecisionsComparable
  BY ZenonT(60) DEF TypeOK, AdoptedValuesComparable, DecidedIsAdopted, DecisionsComparable
<1> QED  BY <1>1, TypeCorrect, AdoptedAreComparable, DecidedHaveMajorities, PTL

-----------------------------------------------------------------------------
(* Proposers keep what they are given *)

\* A value once below a proposal stays below it, and the value a call of
\* Propose adds is below the proposal it makes.
LEMMA SubmittedStep ==
  ASSUME TypeOK, BufferAboveProposal, ProposalCoversSubmitted, [Step]_vars
  PROVE  ProposalCoversSubmitted'
<1>1. TypeOK' /\ \A n \in Node : IsIn(proposedValue[n], proposedValue'[n])
  BY SMTT(60), TypeStep, ProposerStep
<1>2. ASSUME NEW p \in Node, NEW v \in submitted[p]
      PROVE  IsIn(v, proposedValue'[p])
  <2>1. /\ v \in Value /\ proposedValue[p] \in Value /\ proposedValue'[p] \in Value
        /\ IsIn(v, proposedValue[p])
    BY SMTT(60), <1>1, <1>2 DEF TypeOK, ProposalCoversSubmitted
  <2> QED  BY ZenonT(60), <1>1, <2>1, IsInTransitive
<1>3. CASE UNCHANGED submitted
  BY SMTT(60), <1>2, <1>3 DEF ProposalCoversSubmitted
<1>4. ASSUME NEW p \in Up, NEW v \in Value, Propose(p, v)
      PROVE  ProposalCoversSubmitted'
  <2>1. p \in Node /\ v \in Value /\ bufferedValue[p] \in Value
    BY SMTT(60), NodeAssumption DEF TypeOK
  <2>2. IsIn(v, Join(bufferedValue[p], v))
    BY ZenonT(60), <2>1, JoinAbove
  <2>3. proposedValue'[p] = Join(bufferedValue[p], v)
    BY ZenonT(60), <1>4, <2>1 DEF Propose, TypeOK
  <2>4. submitted' = [submitted EXCEPT ![p] = @ \cup {v}]
    BY SMTT(60), <1>4 DEF Propose
  <2> QED  BY ZenonT(60), <1>2, <2>1, <2>2, <2>3, <2>4 DEF ProposalCoversSubmitted, TypeOK
<1>5. ASSUME NEW m \in BagToSet(net), Handle(m) \/ Lose(m)
      PROVE  UNCHANGED submitted
  BY SMTT(60), <1>5 DEF Handle, HandleAck, HandleNack, HandlePropose, HandleLearn, Lose
<1>6. CASE UNCHANGED vars
  BY ZenonT(60), <1>3, <1>6 DEF vars
<1> QED  BY ZenonT(60), <1>3, <1>4, <1>5, <1>6 DEF Step

\* No proposer ever drops a value its engine gave it, whatever NACKs arrive.
THEOREM SubmittedIsProposed == Spec => []ProposalCoversSubmitted
<1>1. Init => ProposalCoversSubmitted
  BY SMTT(60) DEF Init, InitWith, ProposalCoversSubmitted
<1> QED  BY <1>1, SubmittedStep, BufferInvariant, NextIsStep, PTL DEF Spec

-----------------------------------------------------------------------------
(* Nothing is invented *)

\* u is an upper bound of everything the engines have proposed.
Covers(u) == \A p \in Node : \A v \in submitted[p] : IsIn(v, u)

Below(u) == {v \in Value : IsIn(v, u)}

\* The inductive invariant: NothingInvented extended to the values from which
\* learned and decided ones are made.
NothingInventedAnywhere == \A u \in Value : Covers(u) => AllIn(Below(u))

\* What is below u is closed under Join, and u bounds what is proposed.
LEMMA BelowStep ==
  ASSUME TypeOK, NothingInventedAnywhere, [Step]_vars
  PROVE  NothingInventedAnywhere'
<1> SUFFICES ASSUME NEW u \in Value, Covers(u)'
             PROVE  AllIn(Below(u))'
  BY ZenonT(60) DEF NothingInventedAnywhere, Below
<1> DEFINE G == Below(u)
<1>1. G \in SUBSET Value /\ \A v, w \in G : Join(v, w) \in G
  <2> SUFFICES ASSUME NEW v \in G, NEW w \in G PROVE Join(v, w) \in G
    BY ZenonT(60) DEF Below
  <2>1. v \in Value /\ w \in Value /\ IsIn(v, u) /\ IsIn(w, u)
    BY ZenonT(60) DEF Below
  <2>2. Join(v, w) \in Value /\ IsIn(Join(v, w), u)
    BY ZenonT(60), <2>1, JoinAbove, JoinLeast
  <2> QED  BY ZenonT(60), <2>2 DEF Below
<1>2. ASSUME NEW p \in Up, NEW v \in Value, Propose(p, v)
      PROVE  Covers(u) /\ v \in G
  <2>1. p \in Node /\ submitted' = [submitted EXCEPT ![p] = @ \cup {v}]
    BY ZenonT(60), <1>2, NodeAssumption DEF Propose
  <2>2. Covers(u) /\ IsIn(v, u)
    BY SMTT(60), <2>1 DEF Covers, TypeOK
  <2> QED  BY ZenonT(60), <2>2 DEF Below
<1>3. ASSUME NEW m \in BagToSet(net), Handle(m) \/ Lose(m)
      PROVE  Covers(u)
  <2>1. UNCHANGED submitted
    BY SMTT(60), <1>3 DEF Handle, HandleAck, HandleNack, HandlePropose, HandleLearn, Lose
  <2> QED  BY ZenonT(60), <2>1 DEF Covers
<1>4. CASE UNCHANGED vars
  BY ZenonT(60), <1>1, <1>4, AllInStep DEF vars, NothingInventedAnywhere, Covers
<1> HIDE DEF G
<1>5. ASSUME Covers(u) PROVE AllIn(G)
  BY ZenonT(60), <1>5 DEF NothingInventedAnywhere, G
<1>6. ASSUME Step PROVE AllIn(G)'
  <2>1. ASSUME NEW p \in Up, NEW v \in Value, Propose(p, v) PROVE AllIn(G)'
    BY ZenonT(60), <1>1, <1>2, <1>5, <2>1, AllInStep
  <2>2. ASSUME NEW m \in BagToSet(net), Handle(m) \/ Lose(m) PROVE AllIn(G)'
    BY ZenonT(60), <1>1, <1>3, <1>5, <2>2, AllInStep
  <2> QED  BY ZenonT(60), <1>6, <2>1, <2>2 DEF Step
<1> QED  BY ZenonT(60), <1>4, <1>6 DEF G

LEMMA BelowInit == Init => NothingInventedAnywhere
<1> SUFFICES ASSUME Init, NEW u \in Value PROVE AllIn(Below(u))
  BY ZenonT(60) DEF NothingInventedAnywhere
<1>1. Bottom \in Below(u)
  BY ZenonT(60), LatticeAssumption DEF Below
<1> QED  BY ZenonT(60), <1>1, AllInInit

\* Whatever is learned or decided is made of values engines have proposed.
THEOREM NothingIsInvented == Spec => []NothingInvented
<1>1. NothingInventedAnywhere => NothingInvented
  BY SMTT(60) DEF NothingInventedAnywhere, NothingInvented, Covers, AllIn, Below
<1> QED  BY <1>1, BelowInit, BelowStep, TypeCorrect, NextIsStep, PTL DEF Spec

-----------------------------------------------------------------------------
(* The protocol implements ValueChain *)

\* The values majorities adopted are a chain.
ChosenIsChain == \A v, w \in Chosen : Comparable(v, w)

\* Any two of them have a voter in common, and its votes are a chain.
LEMMA ChosenComparable ==
  ASSUME VotesFormChain
  PROVE  ChosenIsChain
<1> SUFFICES ASSUME NEW v \in Chosen, NEW w \in Chosen
             PROVE  Comparable(v, w)
  BY SMTT(60) DEF ChosenIsChain
<1> DEFINE voters(x) == {a \in Node : <<a, x>> \in acked}
<1>1. PICK a \in Node : a \in voters(v) /\ a \in voters(w)
  BY SMTT(60), MajoritiesMeet DEF Chosen
<1> QED  BY SMTT(60), <1>1 DEF VotesFormChain, Chosen

\* A step that sends no ACK leaves Chosen as it is; one that does adds at most
\* the value acknowledged.
LEMMA ChosenStep ==
  ASSUME TypeOK, Step
  PROVE  \/ UNCHANGED Chosen
         \/ \E m \in BagToSet(net) :
              Accept(m) /\ HandlePropose(m) /\ Chosen' = Chosen \cup {m.value}
<1>1. CASE acked' = acked
  BY SMTT(60), <1>1 DEF Chosen, Majority, QuorumSize
<1>2. ASSUME NEW m \in BagToSet(net), HandlePropose(m), Accept(m)
      PROVE  UNCHANGED Chosen \/ Chosen' = Chosen \cup {m.value}
  <2> DEFINE voters(x) == {a \in Node : <<a, x>> \in acked}
  <2>1. m.to \in Node /\ m.value \in Value /\ acked' = acked \cup {<<m.to, m.value>>}
    BY SMTT(60), <1>2 DEF TypeOK, Message, Accept
  <2>2. \A x : x # m.value => voters(x)' = voters(x)
    BY SMTT(60), <2>1
  <2>3. voters(m.value)' = voters(m.value) \cup {m.to}
    BY SMTT(60), <2>1
  <2>4. /\ IsFiniteSet(voters(m.value)) /\ IsFiniteSet(voters(m.value)')
        /\ voters(m.value) \subseteq voters(m.value)'
    BY ZenonT(60), <2>3, NodeAssumption, FS_Subset
  <2>5. Majority(voters(m.value)) => Majority(voters(m.value))'
    <3>1. Cardinality(voters(m.value)) <= Cardinality(voters(m.value)')
      BY ZenonT(60), <2>4, FS_Subset
    <3>2. /\ Cardinality(voters(m.value)) \in Nat /\ Cardinality(voters(m.value)') \in Nat
          /\ QuorumSize \in Nat
      BY SMTT(60), <2>4, FS_CardinalityType, QuorumSizeType
    <3> HIDE DEF voters
    <3> QED  BY <3>1, <3>2 DEF Majority, QuorumSize
  <2>6. \A x \in Value : x # m.value => (x \in Chosen' <=> x \in Chosen)
    BY ZenonT(60), <2>2 DEF Chosen, Majority, QuorumSize
  <2>7. m.value \in Chosen => m.value \in Chosen'
    BY ZenonT(60), <2>1, <2>5 DEF Chosen
  <2>8. Chosen \subseteq Value /\ Chosen' \subseteq Value
    BY DEF Chosen
  <2> QED  BY SMTT(60), <2>1, <2>6, <2>7, <2>8
<1>3. ASSUME NEW m \in BagToSet(net), HandlePropose(m), Reject(m)
      PROVE  acked' = acked
  BY SMTT(60), <1>3 DEF Reject
<1>4. ASSUME NEW m \in BagToSet(net), HandleAck(m) \/ HandleNack(m) \/ HandleLearn(m) \/ Lose(m)
      PROVE  acked' = acked
  BY SMTT(60), <1>4 DEF HandleAck, HandleNack, HandleLearn, Lose
<1>5. ASSUME NEW p \in Up, NEW v \in Value, Propose(p, v)
      PROVE  acked' = acked
  BY SMTT(60), <1>5 DEF Propose
<1> QED  BY SMTT(60), <1>1, <1>2, <1>3, <1>4, <1>5 DEF Step, Handle, HandlePropose

\* Propose is a Submit, an ACK that completes a majority a Choose, and every
\* other step changes neither inputs nor chosen values.
LEMMA ChainStep ==
  ASSUME TypeOK, NothingInventedAnywhere, ChosenIsChain', [Step]_vars
  PROVE  [Chain!Next]_<<UNION {submitted[p] : p \in Node}, Chosen>>
<1> DEFINE inputs == UNION {submitted[p] : p \in Node}
<1>1. CASE UNCHANGED vars
  BY SMTT(60), <1>1 DEF vars, Chosen, Majority, QuorumSize
<1>2. ASSUME NEW p \in Up, NEW v \in Value, Propose(p, v)
      PROVE  Chain!Next
  <2>1. p \in Node /\ v \in Value
    BY SMTT(60), NodeAssumption
  <2>2. submitted' = [submitted EXCEPT ![p] = @ \cup {v}] /\ acked' = acked
    BY SMTT(60), <1>2 DEF Propose
  <2>3. inputs' = inputs \cup {v}
    BY SMTT(60), <2>1, <2>2 DEF TypeOK
  <2>4. UNCHANGED Chosen
    BY SMTT(60), <2>2 DEF Chosen, Majority, QuorumSize
  <2> QED  BY SMTT(60), <2>1, <2>3, <2>4 DEF Chain!Next, Chain!Submit
<1>3. ASSUME NEW m \in BagToSet(net), Handle(m) \/ Lose(m)
      PROVE  [Chain!Next]_<<inputs, Chosen>>
  <2>1. UNCHANGED submitted
    BY SMTT(60), <1>3 DEF Handle, HandleAck, HandleNack, HandlePropose, HandleLearn, Lose
  <2>2. UNCHANGED inputs
    BY ZenonT(60), <2>1
  <2>3. CASE UNCHANGED Chosen
    BY SMTT(60), <2>2, <2>3
  <2>4. ASSUME NEW r \in BagToSet(net), Chosen' = Chosen \cup {r.value}
        PROVE  Chain!Next
    <3>1. r.value \in Value
      BY SMTT(60) DEF TypeOK, Message
    <3>2. \A u \in Value : (\A i \in inputs : IsIn(i, u)) => IsIn(r.value, u)
      BY SMTT(60) DEF NothingInventedAnywhere, Covers, AllIn, Below
    <3>3. \A w \in Chosen : IsIn(r.value, w) \/ IsIn(w, r.value)
      BY SMTT(60), <2>4 DEF ChosenIsChain, Comparable
    <3> QED  BY ZenonT(60), <2>2, <2>4, <3>1, <3>2, <3>3 DEF Chain!Next, Chain!Choose
  <2> QED  BY ZenonT(60), <1>3, <2>2, <2>3, <2>4, ChosenStep DEF Step
<1> QED  BY SMTT(60), <1>1, <1>2, <1>3 DEF Step

\* Every behaviour of the protocol is one of ValueChain.
THEOREM AgreementImplementsChain == Spec => ImplementsChain
<1>1. Init => Chain!Init
  <2> SUFFICES ASSUME Init
               PROVE  Chain!Init
    BY SMTT(60)
  <2>1. UNION {submitted[p] : p \in Node} = {}
    BY SMTT(60) DEF Init, InitWith
  <2>2. Chosen = {}
    <3>1. \A v : {a \in Node : <<a, v>> \in acked} = {}
      BY DEF Init, InitWith
    <3>2. ~Majority({})
      BY SMTT(60), QuorumSizeType, FS_EmptySet DEF Majority
    <3> QED  BY ZenonT(60), <3>1, <3>2 DEF Chosen
  <2> QED  BY SMTT(60), <2>1, <2>2 DEF Chain!Init
<1>2. Init => VotesFormChain
  BY DEF Init, InitWith, VotesFormChain
<1>4. Spec => [](TypeOK /\ NothingInventedAnywhere)
  BY BelowInit, BelowStep, TypeCorrect, NextIsStep, PTL DEF Spec
<1>5. Spec => []ChosenIsChain
  BY <1>2, VotesStep, ChosenComparable, TypeCorrect, NextIsStep, PTL DEF Spec
<1> QED  BY <1>1, <1>4, <1>5, ChainStep, NextIsStep, PTL DEF Spec, ImplementsChain, Chain!Spec
=============================================================================
