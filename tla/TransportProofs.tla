-------------------------- MODULE TransportProofs ---------------------------
(***************************************************************************)
(* Theorems about Transport, for every set of messages, connections and    *)
(* senders, all capacities and any number of faults: types, the order of   *)
(* the shutdown, and the refinement of MessageService.                     *)
(***************************************************************************)
EXTENDS Transport, FiniteSetTheorems, TLAPS

\* Adding one message to a set below its capacity stays within it, and taking
\* messages away does too.
LEMMA WithinCapacity ==
  ASSUME NEW S \in SUBSET Msg, NEW x, NEW size \in Nat
  PROVE  /\ Cardinality(S) \in Nat
         /\ Cardinality(S) < size => Cardinality(S \cup {x}) =< size
         /\ Cardinality(S) =< size => Cardinality(S \ {x}) =< size
         /\ Cardinality({}) = 0
<1>1. IsFiniteSet(S)
  BY FS_Subset, TransportAssumption
<1>2. Cardinality(S) \in Nat
  BY <1>1, FS_CardinalityType
<1>3. Cardinality(S \cup {x}) = IF x \in S THEN Cardinality(S)
                                          ELSE Cardinality(S) + 1
  BY <1>1, FS_AddElement
<1>4. Cardinality(S \ {x}) = IF x \in S THEN Cardinality(S) - 1
                                        ELSE Cardinality(S)
  BY <1>1, FS_RemoveElement
<1>5. Cardinality({}) = 0
  BY FS_EmptySet
<1> QED
  BY <1>2, <1>3, <1>4, <1>5

\* A message is put in the mailbox of a role.
LEMMA TargetIsRole ==
  ASSUME NEW m \in Msg
  PROVE  Target(m) \in Role
BY TransportAssumption DEF Target, Role

-----------------------------------------------------------------------------
(* Types *)

\* The sender's steps keep the types.
LEMMA SendStepType ==
  ASSUME TypeOK, NEW m \in Msg,
         Send(m) \/ SendStep(m) \/ ConnectFails(m)
  PROVE  TypeOK'
<1> USE TransportAssumption
<1>1. CASE Send(m)
  BY SMTT(60), <1>1 DEF TypeOK, Send, linkVars, nodeVars
<1>2. CASE \E k \in Conn : Connect(m, k)
  BY SMTT(60), <1>2 DEF TypeOK, Connect, nodeVars
<1>3. CASE Write(m)
  BY <1>3 DEF TypeOK, Write, nodeVars
<1>4. CASE WriteFails(m)
  <2>1. at[m] \in Conn
    BY <1>4 DEF TypeOK, WriteFails
  <2> QED
    BY <1>4, <2>1 DEF TypeOK, WriteFails, nodeVars
<1>5. CASE RewriteFails(m)
  BY SMTT(60), <1>5 DEF TypeOK, RewriteFails, linkVars, nodeVars
<1>6. CASE ConnectFails(m)
  BY <1>6 DEF TypeOK, ConnectFails, linkVars, nodeVars
<1> QED
  BY ZenonT(60), <1>1, <1>2, <1>3, <1>4, <1>5, <1>6 DEF SendStep

\* The server's steps and the network keep the types.
LEMMA ServeStepType ==
  ASSUME TypeOK, NEW k \in Conn, Cut(k) \/ ServeStep(k)
  PROVE  TypeOK'
<1> USE TransportAssumption
<1>1. CASE Cut(k)
  BY <1>1 DEF TypeOK, Cut, sendVars, nodeVars
<1>2. CASE Accept(k)
  BY SMTT(60), <1>2 DEF TypeOK, Accept, sendVars, nodeVars
<1>3. CASE Register(k)
  BY SMTT(60), <1>3 DEF TypeOK, Register, sendVars, nodeVars
<1>4. CASE \E m \in Msg : Receive(k, m)
  BY SMTT(60), <1>4 DEF TypeOK, Receive, sendVars, nodeVars
<1>5. CASE HandlerReturns(k)
  BY SMTT(60), <1>5 DEF TypeOK, HandlerReturns, sendVars, nodeVars
<1>6. CASE Push(k)
  <2>1. holding[k] \in Msg
    BY SMTT(60), <1>6 DEF Push, TypeOK
  <2>2. msgChan' \subseteq Msg /\ Cardinality(msgChan') =< MsgChanSize
    BY ZenonT(60), <1>6, <2>1, WithinCapacity DEF Push, TypeOK
  <2> QED
    BY SMTT(60), <1>6, <2>2 DEF TypeOK, Push, sendVars
<1> QED
  BY SMTT(60), <1>1, <1>2, <1>3, <1>4, <1>5, <1>6 DEF ServeStep

\* The node's and the router's steps keep the types.
LEMMA NodeStepType ==
  ASSUME TypeOK,
         \/ NodeStep
         \/ \E m \in Msg : Route(m)
         \/ \E r \in Role : RoleStep(r)
  PROVE  TypeOK'
<1> USE TransportAssumption
<1>1. ASSUME NEW m \in Msg, Take(m)
      PROVE  TypeOK'
  <2>1. Cardinality(msgChan') =< MsgChanSize
    BY ZenonT(60), <1>1, WithinCapacity DEF TypeOK, Take
  <2> QED
    BY <1>1, <2>1 DEF TypeOK, Take, sendVars, linkVars
<1>2. CASE LoopEnds
  BY ZenonT(60), <1>2 DEF TypeOK, LoopEnds, sendVars, linkVars
<1>3. ASSUME NEW m \in Msg, Route(m)
      PROVE  TypeOK'
  <2> DEFINE MailOK == /\ mailbox \in [Role -> SUBSET Msg]
                       /\ \A r \in Role : Cardinality(mailbox[r]) =< MailboxSize
  <2>1. MailOK' /\ dropped' \subseteq Msg
    <3>1. CASE Reached("node")
      BY SMTT(60), <1>3, <3>1 DEF Route, TypeOK
    <3>2. CASE ~Reached("node")
      <4> DEFINE t == Target(m)
      <4>1. t \in Role /\ mailbox[t] \in SUBSET Msg
        BY TargetIsRole DEF TypeOK
      <4>2. CASE Cardinality(mailbox[t]) < MailboxSize
        <5>1. mailbox' = [mailbox EXCEPT ![t] = mailbox[t] \cup {m}]
              /\ dropped' = dropped
          BY SMTT(60), <1>3, <3>2, <4>2 DEF Route, HandleIncomingMessage
        <5>2. Cardinality(mailbox[t] \cup {m}) =< MailboxSize
          BY ZenonT(60), <4>1, <4>2, WithinCapacity
        <5> HIDE DEF t
        <5> QED
          BY SMTT(60), <4>1, <5>1, <5>2 DEF TypeOK
      <4>3. CASE ~(Cardinality(mailbox[t]) < MailboxSize)
        BY SMTT(60), <1>3, <3>2, <4>3 DEF Route, HandleIncomingMessage, TypeOK
      <4> QED
        BY <4>2, <4>3
    <3> QED
      BY SMTT(60), <3>1, <3>2
  <2> QED
    BY <1>3, <2>1 DEF TypeOK, Route, sendVars, linkVars
<1>4. ASSUME NEW r \in Role, NEW m \in Msg, Handle(r, m)
      PROVE  TypeOK'
  <2>1. Cardinality(mailbox[r] \ {m}) =< MailboxSize
    BY ZenonT(60), <1>4, WithinCapacity DEF TypeOK
  <2> QED
    BY <1>4, <2>1 DEF TypeOK, Handle, sendVars, linkVars
<1>5. ASSUME NEW r \in Role, RoleEnds(r)
      PROVE  TypeOK'
  BY <1>5 DEF TypeOK, RoleEnds, sendVars, linkVars
<1> QED
  BY SMTT(60), <1>1, <1>2, <1>3, <1>4, <1>5 DEF NodeStep, RoleStep

\* The steps of the shutdown keep the types.
LEMMA StopStepType ==
  ASSUME TypeOK, AcceptEnds \/ StopNode \/ StopStep
  PROVE  TypeOK'
<1> USE TransportAssumption DEF StopStage
<1>1. CASE AcceptEnds
  BY ZenonT(60), <1>1 DEF TypeOK, AcceptEnds, sendVars, linkVars, nodeVars
<1>2. CASE StopNode
  BY SMTT(60), <1>2 DEF TypeOK, StopNode, sendVars, linkVars, nodeVars
<1>3. CASE StopRouter
  BY SMTT(60), <1>3 DEF TypeOK, StopRouter, sendVars, linkVars, nodeVars
<1>4. CASE CloseServer
  BY SMTT(60), <1>4 DEF TypeOK, CloseServer, sendVars, linkVars, nodeVars
<1>5. CASE CloseListener
  BY SMTT(60), <1>5 DEF TypeOK, CloseListener, sendVars, nodeVars
<1>6. CASE CloseConnections
  BY SMTT(60), <1>6 DEF TypeOK, CloseConnections, sendVars, nodeVars
<1>7. CASE CloseClient
  BY SMTT(60), <1>7 DEF TypeOK, CloseClient, nodeVars
<1> QED
  BY SMTT(60), <1>1, <1>2, <1>3, <1>4, <1>5, <1>6, <1>7 DEF StopStep

\* The types hold at the start.
LEMMA InitType == Init => TypeOK
<1>1. Cardinality({}) = 0
  BY FS_EmptySet
<1> QED
  BY <1>1, TransportAssumption DEF Init, TypeOK, StopStage, Role

\* Every step keeps the types.
LEMMA TypeStep == TypeOK /\ [Next]_vars => TypeOK'
<1>1. TypeOK /\ Next => TypeOK'
  BY SMTT(60), SendStepType, ServeStepType, NodeStepType, StopStepType DEF Next
<1>2. TypeOK /\ UNCHANGED vars => TypeOK'
  BY SMTT(60) DEF TypeOK, vars, sendVars, linkVars, nodeVars
<1> QED
  BY <1>1, <1>2

\* The type invariant: channel and mailboxes never exceed their capacity.
THEOREM TransportTypeCorrect == Spec => []TypeOK
BY InitType, TypeStep, PTL DEF Spec

-----------------------------------------------------------------------------
(* The order of the shutdown *)

\* Node.Stop shuts down from the outside in, and leaves no goroutine behind:
\* the waits of Node.Stop, MessageRouter.Stop and Server.Close are where they
\* have to be, and nothing they wait for can come back.
THEOREM StopIsOrdered == Spec => []StopInOrder
<1> DEFINE Inv == TypeOK /\ StopInOrder
<1>1. Init => Inv
  <2>1. Init => StopInOrder
    BY SMTT(60) DEF Init, StopInOrder, Reached, StopStage
  <2> QED
    BY <2>1, InitType
<1>2. Inv /\ [Next]_vars => Inv'
  <2> SUFFICES ASSUME Inv, [Next]_vars
               PROVE  StopInOrder'
    BY TypeStep
  <2>0. /\ stop \in DOMAIN StopStage
        /\ conn \in [Conn -> {"unused", "backlog", "accepted", "reading", "pushing", "gone"}]
        /\ roles \subseteq Role /\ routing \subseteq Msg
    BY ZenonT(60) DEF TypeOK
  <2> USE <2>0 DEF StopInOrder, Reached, StopStage, Served
  <2>1. ASSUME NEW m \in Msg, Send(m) \/ SendStep(m) \/ ConnectFails(m)
        PROVE  StopInOrder'
    <3>1. CASE Send(m)
      BY SMTT(60), <3>1 DEF Send, linkVars, nodeVars
    <3>2. CASE \E k \in Conn : Connect(m, k)
      BY SMTT(60), <3>2 DEF Connect, Listening, nodeVars
    <3>3. CASE Write(m)
      BY SMTT(60), <3>3 DEF Write, nodeVars
    <3>4. CASE WriteFails(m)
      BY SMTT(60), <3>4 DEF WriteFails, nodeVars
    <3>5. CASE RewriteFails(m)
      BY SMTT(60), <3>5 DEF RewriteFails, linkVars, nodeVars
    <3>6. CASE ConnectFails(m)
      BY SMTT(60), <3>6 DEF ConnectFails, linkVars, nodeVars
    <3> QED
      BY ZenonT(60), <2>1, <3>1, <3>2, <3>3, <3>4, <3>5, <3>6 DEF SendStep
  <2>2. ASSUME NEW k \in Conn, Cut(k) \/ ServeStep(k)
        PROVE  StopInOrder'
    <3>1. CASE Cut(k)
      BY SMTT(60), <3>1 DEF Cut, sendVars, nodeVars
    <3>2. CASE Accept(k)
      BY SMTT(60), <3>2 DEF Accept, Listening, nodeVars
    <3>3. CASE Register(k)
      BY SMTT(60), <3>3 DEF Register, nodeVars
    <3>4. CASE \E m \in Msg : Receive(k, m)
      BY SMTT(60), <3>4 DEF Receive, nodeVars
    <3>5. CASE HandlerReturns(k)
      BY SMTT(60), <3>5 DEF HandlerReturns, nodeVars
    <3>6. CASE Push(k)
      BY SMTT(60), <3>6 DEF Push
    <3> QED
      BY ZenonT(60), <2>2, <3>1, <3>2, <3>3, <3>4, <3>5, <3>6 DEF ServeStep
  <2>3. CASE NodeStep
    <3>1. CASE \E m \in Msg : Take(m)
      BY SMTT(60), <3>1 DEF Take, linkVars
    <3>2. CASE LoopEnds
      BY SMTT(60), <3>2 DEF LoopEnds, linkVars
    <3> QED
      BY ZenonT(60), <2>3, <3>1, <3>2 DEF NodeStep
  <2>4. ASSUME NEW m \in Msg, Route(m)
        PROVE  StopInOrder'
    BY ZenonT(60), <2>4 DEF Route, sendVars, linkVars
  <2>5. ASSUME NEW r \in Role, RoleStep(r)
        PROVE  StopInOrder'
    <3>1. CASE \E m \in Msg : Handle(r, m)
      BY SMTT(60), <3>1 DEF Handle, linkVars
    <3>2. CASE RoleEnds(r)
      BY SMTT(60), <3>2 DEF RoleEnds, linkVars
    <3> QED
      BY ZenonT(60), <2>5, <3>1, <3>2 DEF RoleStep
  <2>6. CASE AcceptEnds
    BY SMTT(60), <2>6 DEF AcceptEnds, sendVars, linkVars, nodeVars
  <2>7. CASE StopNode
    BY SMTT(60), <2>7 DEF StopNode, sendVars, linkVars, nodeVars
  <2>8. CASE StopStep
    <3>1. CASE StopRouter
      BY SMTT(60), <3>1 DEF StopRouter, linkVars, nodeVars
    <3>2. CASE CloseServer
      BY SMTT(60), <3>2 DEF CloseServer, linkVars, nodeVars
    <3>3. CASE CloseListener
      BY SMTT(60), <3>3 DEF CloseListener, nodeVars
    <3>4. CASE CloseConnections
      BY SMTT(60), <3>4 DEF CloseConnections, nodeVars
    <3>5. CASE CloseClient
      BY SMTT(60), <3>5 DEF CloseClient, nodeVars
    <3> QED
      BY ZenonT(60), <2>8, <3>1, <3>2, <3>3, <3>4, <3>5 DEF StopStep
  <2>9. CASE UNCHANGED vars
    BY SMTT(60), <2>9 DEF vars, linkVars, nodeVars
  <2> QED
    BY ZenonT(60), <2>1, <2>2, <2>3, <2>4, <2>5, <2>6, <2>7, <2>8, <2>9 DEF Next
<1> QED
  BY <1>1, <1>2, PTL DEF Spec

-----------------------------------------------------------------------------
(* The refinement of MessageService *)

\* A message is in one place: with its sender, in one connection, or in one
\* place of the node.
OnePlace ==
  /\ \A m \in Msg : pc[m] = "new" \/ InSend(m) => ~InLink(m) /\ ~InNode(m)
  /\ \A m \in Msg : InLink(m) => ~InNode(m)
  /\ \A m \in Msg : \A j, k \in Conn :
       /\ m \in buf[j] /\ m \in buf[k] => j = k
       /\ holding[j] = m /\ holding[k] = m => j = k
       /\ m \in buf[j] => holding[k] # m
  /\ \A m \in msgChan : m \notin routing
  /\ \A r \in Role : \A m \in mailbox[r] :
       m \notin msgChan /\ m \notin routing /\ r = Target(m)

\* The state of MessageService.
Pending == {m \in Msg : InSend(m) \/ InLink(m) \/ InNode(m)}

\* A step in which every message stays where it is, moves on or disappears.
Forward ==
  /\ Pending' \subseteq Pending
  /\ \A m \in Msg : pc'[m] = "new" <=> pc[m] = "new"
  /\ handled' = handled

\* What TypeOK says of the places a message can be in.
Places ==
  /\ pc \in [Msg -> {"new", "dial", "write", "redial", "rewrite", "sent", "failed"}]
  /\ \A m \in Msg : pc[m] \in {"write", "rewrite"} => at[m] \in Conn
  /\ buf \in [Conn -> SUBSET Msg]
  /\ holding \in [Conn -> Msg \cup {NoMsg}]
  /\ \A k \in Conn : conn[k] = "pushing" <=> holding[k] # NoMsg
  /\ msgChan \subseteq Msg /\ routing \subseteq Msg
  /\ mailbox \in [Role -> SUBSET Msg]

\* It follows from the types.
LEMMA PlacesTyped == TypeOK => Places
BY DEF TypeOK, Places

\* The sender's steps.  The retry of WriteFails keeps the message with the
\* sender, because the write that failed has put nothing in the connection.
LEMMA SendStepPlace ==
  ASSUME Places, OnePlace, NEW m \in Msg, SendStep(m) \/ ConnectFails(m)
  PROVE  OnePlace' /\ Forward
<1>0. ASSUME \A n \in Msg : n # m => pc'[n] = pc[n],
             InSend(m), pc'[m] # "new",
             UNCHANGED <<buf, holding, msgChan, routing, mailbox, handled>>
      PROVE  OnePlace' /\ Forward
  <2>1. \A n \in Msg : (InLink(n)' <=> InLink(n)) /\ (InNode(n)' <=> InNode(n))
    BY ZenonT(60), <1>0 DEF InLink, InNode
  <2>2. \A n \in Msg : InSend(n)' => InSend(n)
    BY ZenonT(60), <1>0 DEF InSend
  <2>3. \A n \in Msg : pc'[n] = "new" <=> pc[n] = "new"
    BY SMTT(60), <1>0 DEF InSend
  <2>4. OnePlace'
    BY ZenonT(60), <1>0, <2>1, <2>2, <2>3 DEF OnePlace
  <2>5. Forward
    BY ZenonT(60), <1>0, <2>1, <2>2, <2>3 DEF Forward, Pending
  <2> QED
    BY ZenonT(60), <2>4, <2>5
<1>1. CASE \E k \in Conn : Connect(m, k)
  <2>1. pc[m] \in {"dial", "redial"} /\ pc'[m] \in {"write", "rewrite"}
    BY SMTT(60), <1>1 DEF Connect, Places
  <2>2. \A n \in Msg : n # m => pc'[n] = pc[n]
    BY SMTT(60), <1>1 DEF Connect, Places
  <2>3. UNCHANGED <<buf, holding, msgChan, routing, mailbox, handled>>
    BY ZenonT(60), <1>1 DEF Connect, nodeVars
  <2> QED
    BY SMTT(60), <1>0, <2>1, <2>2, <2>3 DEF InSend
<1>2. CASE WriteFails(m) \/ RewriteFails(m) \/ ConnectFails(m)
  <2>1. InSend(m) /\ \E x \in {"redial", "failed"} : pc' = [pc EXCEPT ![m] = x]
    BY ZenonT(60), <1>2 DEF WriteFails, RewriteFails, ConnectFails, InSend
  <2>2. UNCHANGED <<buf, holding, msgChan, routing, mailbox, handled>>
    BY ZenonT(60), <1>2 DEF WriteFails, RewriteFails, ConnectFails, linkVars, nodeVars
  <2> QED
    BY SMTT(60), <1>0, <2>1, <2>2 DEF Places
<1>3. CASE Write(m)
  <2>1. /\ at[m] \in Conn /\ pc[m] \in {"write", "rewrite"}
        /\ pc' = [pc EXCEPT ![m] = "sent"]
    BY ZenonT(60), <1>3 DEF Write, Places
  <2>2. buf' \in {buf, [buf EXCEPT ![at[m]] = @ \cup {m}]}
    BY SMTT(60), <1>3 DEF Write
  <2>3. UNCHANGED <<holding, msgChan, routing, mailbox, handled>>
    BY ZenonT(60), <1>3 DEF Write, nodeVars
  <2>4. InSend(m) /\ ~InLink(m) /\ ~InNode(m) /\ pc'[m] = "sent"
    BY SMTT(60), <2>1 DEF InSend, OnePlace, Places
  <2>5. \A n \in Msg : n # m => pc'[n] = pc[n] /\ (InSend(n)' <=> InSend(n))
    BY SMTT(60), <2>1 DEF InSend, Places
  <2>6. \A n \in Msg : InNode(n)' <=> InNode(n)
    BY ZenonT(60), <2>3 DEF InNode
  <2>7. \A n \in Msg : n # m => (InLink(n)' <=> InLink(n))
    <3>1. buf \in [Conn -> SUBSET Msg]
      BY ZenonT(60) DEF Places
    <3>2. \A n \in Msg : \A j \in Conn : n # m => (n \in buf'[j] <=> n \in buf[j])
      BY SMTT(60), <2>1, <2>2, <3>1
    <3> QED
      BY ZenonT(60), <2>3, <3>2 DEF InLink
  <2>8. \A n \in Msg : \A i, j \in Conn :
          /\ n \in buf'[i] /\ n \in buf'[j] => i = j
          /\ holding'[i] = n /\ holding'[j] = n => i = j
          /\ n \in buf'[i] => holding'[j] # n
    <3>1. buf \in [Conn -> SUBSET Msg]
      BY ZenonT(60) DEF Places
    <3>2. \A n \in Msg : \A i, j \in Conn :
            /\ n \in buf[i] /\ n \in buf[j] => i = j
            /\ holding[i] = n /\ holding[j] = n => i = j
            /\ n \in buf[i] => holding[j] # n
      BY ZenonT(60) DEF OnePlace
    <3>3. \A j \in Conn : m \notin buf[j] /\ holding[j] # m
      BY ZenonT(60), <2>4 DEF InLink
    <3> QED
      BY SMTT(60), <2>1, <2>2, <2>3, <3>1, <3>2, <3>3
  <2>9. OnePlace'
    <3>1. ~InSend(m)'
      BY ZenonT(60), <2>4 DEF InSend
    <3> QED
      BY ZenonT(60), <2>3, <2>4, <2>5, <2>6, <2>7, <2>8, <3>1 DEF OnePlace
  <2>10. Forward
    BY ZenonT(60), <2>1, <2>3, <2>4, <2>5, <2>6, <2>7 DEF Forward, Pending, InSend
  <2> QED
    BY ZenonT(60), <2>9, <2>10
<1> QED
  BY ZenonT(60), <1>1, <1>2, <1>3 DEF SendStep

\* The server's steps and the network.
LEMMA ServeStepPlace ==
  ASSUME Places, OnePlace, NEW k \in Conn, Cut(k) \/ ServeStep(k)
  PROVE  OnePlace' /\ Forward
<1> USE TransportAssumption
<1>0. ASSUME UNCHANGED <<pc, holding, msgChan, routing, mailbox, handled>>,
             \A j \in Conn : buf'[j] \subseteq buf[j]
      PROVE  OnePlace' /\ Forward
  <2>1. \A n \in Msg : /\ InSend(n)' <=> InSend(n)
                       /\ InLink(n)' => InLink(n)
                       /\ InNode(n)' <=> InNode(n)
    BY SMTT(60), <1>0 DEF InSend, InLink, InNode
  <2>2. OnePlace'
    BY ZenonT(60), <1>0, <2>1 DEF OnePlace, InSend
  <2>3. Forward
    BY SMTT(60), <1>0, <2>1 DEF Forward, Pending
  <2> QED
    BY ZenonT(60), <2>2, <2>3
<1>1. CASE Cut(k)
  <2>1. UNCHANGED <<pc, buf, holding, msgChan, routing, mailbox, handled>>
    BY ZenonT(60), <1>1 DEF Cut, sendVars, nodeVars
  <2> QED
    BY ZenonT(60), <1>0, <2>1
<1>2. CASE Accept(k) \/ Register(k)
  BY SMTT(60), <1>0, <1>2 DEF Accept, Register, sendVars, nodeVars
<1>4. CASE HandlerReturns(k)
  <2>1. UNCHANGED <<pc, holding, msgChan, routing, mailbox, handled>>
    BY ZenonT(60), <1>4 DEF HandlerReturns, sendVars, nodeVars
  <2>2. \A j \in Conn : buf'[j] \subseteq buf[j]
    BY SMTT(60), <1>4 DEF HandlerReturns, Places
  <2> QED
    BY ZenonT(60), <1>0, <2>1, <2>2
<1> USE DEF Places, OnePlace, Forward, Pending, InSend, InLink, InNode
<1>3. CASE \E m \in Msg : Receive(k, m)
  BY SMTT(60), <1>3 DEF Receive, sendVars, nodeVars
<1>5. CASE Push(k)
  <2>0. PICK m \in Msg : holding[k] = m
    BY SMTT(60), <1>5 DEF Push
  <2>1. msgChan' = msgChan \cup {m}
    BY SMTT(60), <1>5, <2>0 DEF Push
  <2>2. holding'[k] = NoMsg /\ \A j \in Conn : j # k => holding'[j] = holding[j]
    BY SMTT(60), <1>5 DEF Push
  <2>3. UNCHANGED <<pc, buf, routing, mailbox, handled>>
    BY ZenonT(60), <1>5 DEF Push, sendVars
  <2>4. InLink(m) /\ ~InNode(m) /\ pc[m] # "new" /\ ~InSend(m)
    BY SMTT(60), <2>0
  <2>5. ~InLink(m)'
    BY ZenonT(60), <2>2, <2>3, <2>0
  <2>6. \A n \in Msg : n # m => (InLink(n)' <=> InLink(n))
                               /\ (InNode(n)' <=> InNode(n))
    <3> SUFFICES ASSUME NEW n \in Msg, n # m
                 PROVE  /\ InLink(n)' <=> InLink(n)
                        /\ InNode(n)' <=> InNode(n)
      BY ZenonT(60)
    <3>1. InLink(n)' <=> InLink(n)
      BY ZenonT(60), <2>1, <2>2, <2>3, <2>0
    <3>2. InNode(n)' <=> InNode(n)
      BY SMTT(60), <2>1, <2>3
    <3> QED
      BY ZenonT(60), <3>1, <3>2
  <2>7. Forward
    <3>1. InLink(m) /\ \A n \in Msg : InSend(n)' <=> InSend(n)
      BY ZenonT(60), <2>3, <2>4
    <3> HIDE DEF Places, OnePlace, InSend, InLink, InNode
    <3> QED
      BY ZenonT(60), <2>3, <2>6, <3>1
  <2>8. OnePlace'
    <3>1. m \notin routing /\ \A r \in Role : m \notin mailbox[r]
      BY ZenonT(60), <2>4
    <3>2. \A n \in msgChan' : n \notin routing'
      BY ZenonT(60), <2>1, <2>3, <3>1
    <3>3. \A r \in Role : \A n \in mailbox'[r] :
            n \notin msgChan' /\ n \notin routing' /\ r = Target(n)
      <4>1. \A r \in Role : \A n \in mailbox[r] :
              n \notin msgChan /\ n \notin routing /\ r = Target(n)
        BY ZenonT(60)
      <4> HIDE DEF Places, OnePlace, Forward, Pending, InSend, InLink, InNode
      <4> QED
        <5>1. msgChan' = msgChan \cup {m} /\ routing' = routing /\ mailbox' = mailbox
          BY ZenonT(60), <2>1, <2>3
        <5> SUFFICES ASSUME NEW r \in Role, NEW n \in mailbox[r]
                     PROVE  n \notin msgChan' /\ n \notin routing' /\ r = Target(n)
          BY ZenonT(60), <5>1
        <5>2. n # m
          BY ZenonT(60), <3>1
        <5> QED
          BY ZenonT(60), <4>1, <5>1, <5>2
    <3>4. \A n \in Msg : \A i, j \in Conn :
            /\ n \in buf'[i] /\ n \in buf'[j] => i = j
            /\ holding'[i] = n /\ holding'[j] = n => i = j
            /\ n \in buf'[i] => holding'[j] # n
      BY SMTT(60), <2>2, <2>3
    <3> HIDE DEF Places, Forward, Pending, InLink, InNode
    <3>5. \A n \in Msg : pc'[n] = "new" \/ InSend(n)' => ~InLink(n)' /\ ~InNode(n)'
      BY ZenonT(60), <2>3, <2>4, <2>6
    <3>6. \A n \in Msg : InLink(n)' => ~InNode(n)'
      BY ZenonT(60), <2>5, <2>6
    <3> QED
      BY ZenonT(60), <3>2, <3>3, <3>4, <3>5, <3>6
  <2> QED
    BY ZenonT(60), <2>7, <2>8
<1> QED
  BY ZenonT(60), <1>1, <1>2, <1>3, <1>4, <1>5 DEF ServeStep

\* The node's steps.
LEMMA NodeStepPlace ==
  ASSUME Places, OnePlace, NodeStep \/ \E m \in Msg : Route(m)
  PROVE  OnePlace' /\ Forward
<1> USE DEF Places, OnePlace, Forward, Pending, InSend, InLink, InNode
<1>1. CASE \E m \in Msg : Take(m)
  BY SMTT(60), <1>1 DEF Take, sendVars, linkVars
<1>2. CASE LoopEnds
  BY ZenonT(60), <1>2 DEF LoopEnds, sendVars, linkVars
<1>3. ASSUME NEW m \in Msg, Route(m)
      PROVE  OnePlace' /\ Forward
  <2>1. Target(m) \in Role
    BY TargetIsRole
  <2> QED
    BY SMTT(60), <1>3, <2>1 DEF Route, HandleIncomingMessage, sendVars, linkVars
<1> QED
  BY ZenonT(60), <1>1, <1>2, <1>3 DEF NodeStep

\* The steps of the shutdown.
LEMMA StopStepPlace ==
  ASSUME Places, OnePlace,
         \/ AcceptEnds \/ StopNode \/ StopStep
         \/ \E r \in Role : RoleEnds(r)
  PROVE  OnePlace' /\ Forward
<1>1. UNCHANGED <<pc, buf, holding, msgChan, routing, mailbox, handled>>
  BY SMTT(60) DEF AcceptEnds, StopNode, StopStep, RoleEnds, StopRouter, CloseServer,
         CloseListener, CloseConnections, CloseClient, sendVars, linkVars,
         nodeVars
<1> QED
  BY ZenonT(60), <1>1 DEF OnePlace, Forward, Pending, InSend, InLink, InNode

\* A role takes a message: it was pending, and is nowhere afterwards.
LEMMA HandlePlace ==
  ASSUME Places, OnePlace, NEW r \in Role, NEW m \in Msg, Handle(r, m)
  PROVE  OnePlace' /\ m \in Pending /\ Pending' = Pending \ {m}
<1>0. mailbox \in [Role -> SUBSET Msg]
  BY ZenonT(60) DEF Places
<1>1. m \in mailbox[r] /\ mailbox' = [mailbox EXCEPT ![r] = mailbox[r] \ {m}]
  BY ZenonT(60) DEF Handle
<1>2. UNCHANGED <<pc, buf, holding, msgChan, routing>>
  BY ZenonT(60) DEF Handle, sendVars, linkVars
<1>3. InNode(m) /\ m \notin msgChan /\ m \notin routing
  BY ZenonT(60), <1>1 DEF OnePlace, InNode
<1>4. \A s \in Role : m \in mailbox[s] => s = r
  BY ZenonT(60), <1>1 DEF OnePlace
<1>5. m \in Pending /\ ~InSend(m) /\ ~InLink(m)
  BY ZenonT(60), <1>3 DEF OnePlace, Pending
<1>6. \A s \in Role : m \notin mailbox'[s]
  BY SMTT(60), <1>0, <1>1, <1>4
<1>7. \A s \in Role : mailbox'[s] \subseteq mailbox[s]
  BY SMTT(60), <1>0, <1>1
<1>8. \A n \in Msg : n # m => (InNode(n)' <=> InNode(n))
  <2>1. \A n \in Msg : \A s \in Role : n # m => (n \in mailbox'[s] <=> n \in mailbox[s])
    BY SMTT(60), <1>0, <1>1
  <2> QED
    BY ZenonT(60), <1>2, <2>1 DEF InNode
<1>9. \A n \in Msg : (InSend(n)' <=> InSend(n)) /\ (InLink(n)' <=> InLink(n))
  BY ZenonT(60), <1>2 DEF InSend, InLink
<1>10. ~InNode(m)'
  BY ZenonT(60), <1>2, <1>3, <1>6 DEF InNode
<1>11. OnePlace'
  BY ZenonT(60), <1>2, <1>7, <1>8, <1>9, <1>10 DEF OnePlace
<1>12. Pending' = Pending \ {m}
  BY SMTT(60), <1>5, <1>8, <1>9, <1>10 DEF Pending
<1> QED
  BY ZenonT(60), <1>5, <1>11, <1>12

\* The transport is a message service: only what was sent is handled, and no
\* message twice, whatever connections break, are made twice or fall out of
\* the pool, and whenever Node.Stop is called.
THEOREM TransportImplementsService == Spec => ImplementsService
<1> DEFINE Sent == {m \in Msg : pc[m] # "new"}
           Inv == TypeOK /\ OnePlace
           SNext == [Service!Next]_<<Sent, Pending, handled>>
<1>1. Init => Inv /\ Service!Init
  <2>1. Init => OnePlace /\ Sent = {} /\ Pending = {}
    BY SMTT(60), TransportAssumption
       DEF Init, OnePlace, InSend, InLink, InNode, Pending, Role
  <2> QED
    BY SMTT(60), <2>1, InitType DEF Service!Init, Init, Pending
<1>2. Inv /\ [Next]_vars => Inv' /\ SNext
  <2> SUFFICES ASSUME TypeOK, OnePlace, [Next]_vars
               PROVE  OnePlace' /\ SNext
    BY TypeStep
  <2>1. OnePlace' /\ Forward => OnePlace' /\ SNext
    <3> SUFFICES ASSUME OnePlace', Forward PROVE SNext
      BY ZenonT(60)
    <3>1. Service!Lose
      BY SMTT(60) DEF Forward, Service!Lose, Pending
    <3>2. Service!Next
      BY ZenonT(60), <3>1 DEF Service!Next
    <3> QED
      BY ZenonT(60), <3>2
  <2>2. ASSUME NEW m \in Msg, Send(m)
        PROVE  OnePlace' /\ SNext
    <3>1. pc[m] = "new" /\ pc'[m] \in {"dial", "write"}
          /\ \A n \in Msg : n # m => pc'[n] = pc[n]
      BY SMTT(60), <2>2 DEF Send, TypeOK
    <3>2. UNCHANGED <<buf, holding, msgChan, routing, mailbox, handled>>
      BY ZenonT(60), <2>2 DEF Send, linkVars, nodeVars
    <3>3. OnePlace'
      <4>1. \A n \in Msg : /\ InLink(n)' <=> InLink(n)
                           /\ InNode(n)' <=> InNode(n)
        BY ZenonT(60), <3>2 DEF InLink, InNode
      <4>2. \A n \in Msg : n # m => (InSend(n)' <=> InSend(n))
        BY ZenonT(60), <3>1 DEF InSend
      <4> QED
        BY ZenonT(60), <3>1, <3>2, <4>1, <4>2 DEF OnePlace
    <3>4. Sent' = Sent \cup {m} /\ Pending' = Pending \cup {m}
      BY SMTT(60), <3>1, <3>2 DEF Pending, InSend, InLink, InNode
    <3>5. Service!Send(m)
      BY ZenonT(60), <3>1, <3>2, <3>4 DEF Service!Send, Pending
    <3>6. Service!Next
      BY ZenonT(60), <3>5 DEF Service!Next
    <3> QED
      BY ZenonT(60), <3>3, <3>6
  <2>3. ASSUME NEW r \in Role, NEW m \in Msg, Handle(r, m)
        PROVE  OnePlace' /\ SNext
    <3>1. OnePlace' /\ m \in Pending /\ Pending' = Pending \ {m}
      BY SMTT(60), <2>3, PlacesTyped, HandlePlace
    <3>2. handled' = [handled EXCEPT ![m] = @ + 1] /\ Sent' = Sent
      BY ZenonT(60), <2>3 DEF Handle, sendVars
    <3>3. Service!Deliver(m)
      BY SMTT(60), <3>1, <3>2 DEF Service!Deliver, Pending
    <3>4. Service!Next
      BY ZenonT(60), <3>3 DEF Service!Next
    <3> QED
      BY ZenonT(60), <3>1, <3>4
  <2>4. CASE UNCHANGED vars
    <3>1. UNCHANGED <<pc, buf, holding, msgChan, routing, mailbox, handled>>
      BY ZenonT(60), <2>4 DEF vars, sendVars, linkVars, nodeVars
    <3>2. OnePlace' /\ Forward
      BY SMTT(60), <3>1 DEF OnePlace, Forward, Pending, InSend, InLink, InNode
    <3> QED
      BY SMTT(60), <2>1, <3>2
  <2>5. CASE \/ \E m \in Msg : SendStep(m) \/ ConnectFails(m) \/ Route(m)
             \/ \E k \in Conn : Cut(k) \/ ServeStep(k)
             \/ AcceptEnds \/ NodeStep \/ StopNode \/ StopStep
             \/ \E r \in Role : RoleEnds(r)
    <3>1. OnePlace' /\ Forward
      BY <2>5, PlacesTyped, SendStepPlace, ServeStepPlace, NodeStepPlace, StopStepPlace
    <3> QED
      BY <2>1, <3>1
  <2> HIDE DEF SNext
  <2> QED
    BY SMTT(60), <2>2, <2>3, <2>4, <2>5 DEF Next, RoleStep
<1> QED
  BY <1>1, <1>2, PTL DEF Spec, ImplementsService, Service!Spec, Pending

=============================================================================
