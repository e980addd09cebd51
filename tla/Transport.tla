----------------------------- MODULE Transport ------------------------------
(***************************************************************************)
(* The way of a message to one node: Client and Connection of the sender,  *)
(* Server, Node and MessageRouter of the receiver, and the shutdown of the *)
(* receiver by Node.Stop.                                                  *)
(*                                                                         *)
(* Every message is sent by a goroutine of its own.  Connections, channels *)
(* and mailboxes hold sets: nothing depends on the order of messages.  TCP *)
(* is external: a connection that works delivers all that was written, and *)
(* one that is broken may swallow a write or report an error.  A message   *)
(* is written and received whole, as the receiver decodes no part of one.  *)
(***************************************************************************)
EXTENDS Naturals, FiniteSets

CONSTANTS
  Client,       \* the nodes that send, among them the receiver
  Own,          \* the receiver, which sends to itself over TCP as well
  Msg,          \* the messages
  Sender,       \* the node that sends a message
  Kind,         \* the type of a message: ack, nack, propose or learn
  Conn,         \* bound: the connections that can be made
  NoConn,       \* a target without an entry in the pool
  NoMsg,        \* a handler that holds no message
  MsgChanSize,  \* capacity of the channel between server and node
  MailboxSize,  \* capacity of a mailbox
  MaxFaults     \* bound: how often the network fails

ASSUME TransportAssumption ==
  /\ Own \in Client
  /\ Sender \in [Msg -> Client]
  /\ Kind \in [Msg -> {"ack", "nack", "propose", "learn"}]
  /\ NoConn \notin Conn /\ NoMsg \notin Msg
  /\ IsFiniteSet(Msg)
  /\ MsgChanSize \in Nat /\ MailboxSize \in Nat /\ MaxFaults \in Nat

Role == {"proposer", "acceptor", "learner"}

\* The role whose mailbox HandleIncomingMessage chooses.
Target(m) ==
  CASE Kind[m] \in {"ack", "nack"} -> "proposer"
    [] Kind[m] = "propose" -> "acceptor"
    [] Kind[m] = "learn" -> "learner"

VARIABLES
  pc,         \* where the Send of a message is
  at,         \* the connection it uses
  pool,       \* Client.pool: the entry for the receiver
  hungup,     \* connections that the sender has closed
  cut,        \* connections that the network has broken
  buf,        \* what is written to a connection and not yet received
  conn,       \* where handleConnection of a connection is
  shut,       \* connections that Server.Close has closed
  holding,    \* the message that a handler has received and not passed on
  accepting,  \* whether the loop of Listen runs
  msgChan,    \* the channel that Listen returns
  loop,       \* whether handleIncomingMsgChannel runs
  routing,    \* the messages whose routing goroutine runs
  mailbox,    \* the mailbox of each role
  roles,      \* the roles whose loop runs
  stop,       \* where Node.Stop is
  faults,     \* how often the network has failed
  dropped,    \* history: messages that met a full mailbox
  handled     \* history: how often a role has taken a message

sendVars == <<pc, at, pool>>
linkVars == <<hungup, cut, buf, conn, shut, holding>>
nodeVars == <<msgChan, loop, routing, mailbox, roles, dropped, handled>>
vars == <<sendVars, linkVars, nodeVars, accepting, stop, faults>>

\* The steps of Node.Stop in their order.  One that is reached has closed
\* node.done, router.done, server.done, the listener, the connections.
StopStage == [running |-> 0, node |-> 1, router |-> 2, server |-> 3,
              listener |-> 4, connections |-> 5, stopped |-> 6]

\* Whether Stop has gone at least as far as a step.
Reached(s) == StopStage[s] =< StopStage[stop]

Listening == ~Reached("listener")

Init ==
  /\ pc = [m \in Msg |-> "new"]
  /\ at = [m \in Msg |-> NoConn]
  /\ pool = [c \in Client |-> NoConn]
  /\ hungup = {} /\ cut = {} /\ shut = {}
  /\ buf = [k \in Conn |-> {}]
  /\ conn = [k \in Conn |-> "unused"]
  /\ holding = [k \in Conn |-> NoMsg]
  /\ accepting = TRUE /\ loop = TRUE /\ roles = Role
  /\ msgChan = {} /\ routing = {} /\ mailbox = [r \in Role |-> {}]
  /\ stop = "running"
  /\ faults = 0 /\ dropped = {} /\ handled = [m \in Msg |-> 0]

-----------------------------------------------------------------------------
(* Client.Send *)

\* Send looks for a connection in the pool.
Send(m) ==
  LET k == pool[Sender[m]] IN
  /\ pc[m] = "new"
  /\ pc' = [pc EXCEPT ![m] = IF k = NoConn THEN "dial" ELSE "write"]
  /\ at' = [at EXCEPT ![m] = k]
  /\ UNCHANGED <<pool, linkVars, nodeVars, accepting, stop, faults>>

\* connect succeeds.  It replaces the entry of the pool without a look at it:
\* two goroutines that find none make two connections.
Connect(m, k) ==
  /\ pc[m] \in {"dial", "redial"}
  /\ Listening
  /\ conn[k] = "unused"
  /\ conn' = [conn EXCEPT ![k] = "backlog"]
  /\ pool' = [pool EXCEPT ![Sender[m]] = k]
  /\ at' = [at EXCEPT ![m] = k]
  /\ pc' = [pc EXCEPT ![m] = IF @ = "dial" THEN "write" ELSE "rewrite"]
  /\ UNCHANGED <<hungup, cut, buf, shut, holding, nodeVars, accepting, stop,
                 faults>>

\* connect fails: the server does not listen, or the network is at fault.
ConnectFails(m) ==
  /\ pc[m] \in {"dial", "redial"}
  /\ \/ ~Listening /\ UNCHANGED faults
     \/ faults < MaxFaults /\ faults' = faults + 1
  /\ pc' = [pc EXCEPT ![m] = "failed"]
  /\ UNCHANGED <<at, pool, linkVars, nodeVars, accepting, stop>>

\* The other end is gone or cannot be reached.
Broken(k) == k \in cut \/ k \in shut \/ conn[k] = "gone"

\* Connection.Send returns nil; on a broken connection the message is gone.
Write(m) ==
  LET k == at[m] IN
  /\ pc[m] \in {"write", "rewrite"}
  /\ k \notin hungup
  /\ buf' = IF Broken(k) THEN buf ELSE [buf EXCEPT ![k] = @ \cup {m}]
  /\ pc' = [pc EXCEPT ![m] = "sent"]
  /\ UNCHANGED <<at, pool, hungup, cut, conn, shut, holding, nodeVars,
                 accepting, stop, faults>>

\* Mutant: the error is reported although the message was written.
WriteFailsLate(m) ==
  LET k == at[m] IN
  /\ pc[m] = "write"
  /\ k \in hungup \/ Broken(k)
  /\ buf' = [buf EXCEPT ![k] = @ \cup {m}]
  /\ pool' = [pool EXCEPT ![Sender[m]] = NoConn]
  /\ hungup' = hungup \cup {k}
  /\ pc' = [pc EXCEPT ![m] = "redial"]
  /\ UNCHANGED <<at, cut, conn, shut, holding, nodeVars, accepting, stop,
                 faults>>

\* It returns an error.  Send deletes the entry of the pool, whatever
\* connection it is by now, closes its own and tries once more.
WriteFails(m) ==
  LET k == at[m] IN
  /\ pc[m] = "write"
  /\ k \in hungup \/ Broken(k)
  /\ pool' = [pool EXCEPT ![Sender[m]] = NoConn]
  /\ hungup' = hungup \cup {k}
  /\ pc' = [pc EXCEPT ![m] = "redial"]
  /\ UNCHANGED <<at, cut, buf, conn, shut, holding, nodeVars, accepting, stop,
                 faults>>

\* The second attempt fails too: the entry is deleted, nothing is closed.
RewriteFails(m) ==
  LET k == at[m] IN
  /\ pc[m] = "rewrite"
  /\ k \in hungup \/ Broken(k)
  /\ pool' = [pool EXCEPT ![Sender[m]] = NoConn]
  /\ pc' = [pc EXCEPT ![m] = "failed"]
  /\ UNCHANGED <<at, linkVars, nodeVars, accepting, stop, faults>>

\* The network breaks a connection.
Cut(k) ==
  /\ faults < MaxFaults
  /\ conn[k] \notin {"unused", "gone"} /\ k \notin cut
  /\ cut' = cut \cup {k}
  /\ faults' = faults + 1
  /\ UNCHANGED <<sendVars, hungup, buf, conn, shut, holding, nodeVars,
                 accepting, stop>>

-----------------------------------------------------------------------------
(* Server *)

\* The loop of Listen accepts a connection and starts its handler.
Accept(k) ==
  /\ accepting /\ Listening
  /\ conn[k] = "backlog"
  /\ conn' = [conn EXCEPT ![k] = "accepted"]
  /\ UNCHANGED <<sendVars, hungup, cut, buf, shut, holding, nodeVars, accepting,
                 stop, faults>>

\* The loop ends because the listener is closed.
AcceptEnds ==
  /\ accepting /\ ~Listening
  /\ accepting' = FALSE
  /\ UNCHANGED <<sendVars, linkVars, nodeVars, stop, faults>>

\* The handler enters its connection in activeConnections.
Register(k) ==
  /\ conn[k] = "accepted"
  /\ conn' = [conn EXCEPT ![k] = "reading"]
  /\ UNCHANGED <<sendVars, hungup, cut, buf, shut, holding, nodeVars, accepting,
                 stop, faults>>

\* Receive returns a message while the server is not shutting down.
Receive(k, m) ==
  /\ conn[k] = "reading" /\ k \notin shut
  /\ ~Reached("server")
  /\ m \in buf[k]
  /\ buf' = [buf EXCEPT ![k] = @ \ {m}]
  /\ holding' = [holding EXCEPT ![k] = m]
  /\ conn' = [conn EXCEPT ![k] = "pushing"]
  /\ UNCHANGED <<sendVars, hungup, cut, shut, nodeVars, accepting, stop, faults>>

\* The handler returns: Receive found the end of the stream, an error or the
\* connection closed by Server.Close, or a message and server.done closed.
HandlerReturns(k) ==
  /\ conn[k] = "reading"
  /\ \/ k \in hungup /\ buf[k] = {}
     \/ k \in cut \/ k \in shut
     \/ buf[k] # {} /\ Reached("server")
  /\ conn' = [conn EXCEPT ![k] = "gone"]
  /\ buf' = [buf EXCEPT ![k] = {}]
  /\ UNCHANGED <<sendVars, hungup, cut, shut, holding, nodeVars, accepting,
                 stop, faults>>

\* Mutant: the capacity of the channel is not respected.
PushUnbounded(k) ==
  /\ conn[k] = "pushing"
  /\ msgChan' = msgChan \cup {holding[k]}
  /\ holding' = [holding EXCEPT ![k] = NoMsg]
  /\ conn' = [conn EXCEPT ![k] = "reading"]
  /\ UNCHANGED <<sendVars, hungup, cut, buf, shut, loop, routing, mailbox,
                 roles, dropped, handled, accepting, stop, faults>>

\* Mutant: the handler drops a message when the channel is full.
PushOrDrop(k) ==
  /\ conn[k] = "pushing"
  /\ msgChan' = IF Cardinality(msgChan) < MsgChanSize
                  THEN msgChan \cup {holding[k]} ELSE msgChan
  /\ holding' = [holding EXCEPT ![k] = NoMsg]
  /\ conn' = [conn EXCEPT ![k] = "reading"]
  /\ UNCHANGED <<sendVars, hungup, cut, buf, shut, loop, routing, mailbox,
                 roles, dropped, handled, accepting, stop, faults>>

\* The handler puts the message in the channel; it waits for room, and for
\* nothing else.
Push(k) ==
  /\ conn[k] = "pushing"
  /\ Cardinality(msgChan) < MsgChanSize
  /\ msgChan' = msgChan \cup {holding[k]}
  /\ holding' = [holding EXCEPT ![k] = NoMsg]
  /\ conn' = [conn EXCEPT ![k] = "reading"]
  /\ UNCHANGED <<sendVars, hungup, cut, buf, shut, loop, routing, mailbox,
                 roles, dropped, handled, accepting, stop, faults>>

-----------------------------------------------------------------------------
(* Node and MessageRouter *)

\* handleIncomingMsgChannel takes a message and starts its goroutine; select
\* may choose this even when node.done is closed.
Take(m) ==
  /\ loop
  /\ m \in msgChan
  /\ msgChan' = msgChan \ {m}
  /\ routing' = routing \cup {m}
  /\ UNCHANGED <<sendVars, linkVars, loop, mailbox, roles, dropped, handled,
                 accepting, stop, faults>>

LoopEnds ==
  /\ loop /\ Reached("node")
  /\ loop' = FALSE
  /\ UNCHANGED <<sendVars, linkVars, msgChan, routing, mailbox, roles, dropped,
                 handled, accepting, stop, faults>>

\* HandleIncomingMessage puts the message in the mailbox of its role, or drops
\* it if that is full.
HandleIncomingMessage(m) ==
  LET r == Target(m)
      fits == Cardinality(mailbox[r]) < MailboxSize IN
  /\ mailbox' = IF fits THEN [mailbox EXCEPT ![r] = @ \cup {m}] ELSE mailbox
  /\ dropped' = IF fits THEN dropped ELSE dropped \cup {m}

\* The goroutine of a message; once node.done is closed it does nothing.
Route(m) ==
  /\ m \in routing
  /\ routing' = routing \ {m}
  /\ IF Reached("node") THEN UNCHANGED <<mailbox, dropped>>
                        ELSE HandleIncomingMessage(m)
  /\ UNCHANGED <<sendVars, linkVars, msgChan, loop, roles, handled, accepting,
                 stop, faults>>

\* runProposer, runAcceptor or runLearner takes a message from its mailbox.
Handle(r, m) ==
  /\ r \in roles
  /\ m \in mailbox[r]
  /\ mailbox' = [mailbox EXCEPT ![r] = @ \ {m}]
  /\ handled' = [handled EXCEPT ![m] = @ + 1]
  /\ UNCHANGED <<sendVars, linkVars, msgChan, loop, routing, roles, dropped,
                 accepting, stop, faults>>

RoleEnds(r) ==
  /\ r \in roles /\ Reached("router")
  /\ roles' = roles \ {r}
  /\ UNCHANGED <<sendVars, linkVars, msgChan, loop, routing, mailbox, dropped,
                 handled, accepting, stop, faults>>

-----------------------------------------------------------------------------
(* Node.Stop *)

\* Stop closes node.done.
StopNode ==
  /\ stop = "running"
  /\ stop' = "node"
  /\ UNCHANGED <<sendVars, linkVars, nodeVars, accepting, faults>>

\* Mutant: Stop does not wait for the loop and the routing goroutines.
StopRouterUnwaited ==
  /\ stop = "node"
  /\ stop' = "router"
  /\ UNCHANGED <<sendVars, linkVars, nodeVars, accepting, faults>>

\* Stop has waited for the node's goroutines; la.Stop closes router.done.
StopRouter ==
  /\ stop = "node"
  /\ ~loop /\ routing = {}
  /\ stop' = "router"
  /\ UNCHANGED <<sendVars, linkVars, nodeVars, accepting, faults>>

\* la.Stop has waited for the roles; Server.Close closes server.done.
CloseServer ==
  /\ stop = "router"
  /\ roles = {}
  /\ stop' = "server"
  /\ UNCHANGED <<sendVars, linkVars, nodeVars, accepting, faults>>

\* Server.Close closes the listener; what was not accepted is reset.
CloseListener ==
  /\ stop = "server"
  /\ stop' = "listener"
  /\ cut' = cut \cup {k \in Conn : conn[k] = "backlog"}
  /\ UNCHANGED <<sendVars, hungup, buf, conn, shut, holding, nodeVars,
                 accepting, faults>>

\* Server.Close closes the connections that are registered now.
CloseConnections ==
  /\ stop = "listener"
  /\ stop' = "connections"
  /\ shut' = shut \cup {k \in Conn : conn[k] \in {"reading", "pushing"}}
  /\ UNCHANGED <<sendVars, hungup, cut, buf, conn, holding, nodeVars, accepting,
                 faults>>

\* Connections that handleConnection runs for.
Served == {k \in Conn : conn[k] \in {"accepted", "reading", "pushing"}}

\* Server.Close has waited for the loop of Listen and the handlers;
\* Client.Close closes the connection in the pool.
CloseClient ==
  /\ stop = "connections"
  /\ ~accepting /\ Served = {}
  /\ stop' = "stopped"
  /\ hungup' = hungup \cup ({pool[Own]} \ {NoConn})
  /\ pool' = [pool EXCEPT ![Own] = NoConn]
  /\ UNCHANGED <<pc, at, cut, buf, conn, shut, holding, nodeVars, accepting,
                 faults>>

-----------------------------------------------------------------------------
SendStep(m) ==
  \/ \E k \in Conn : Connect(m, k)
  \/ Write(m) \/ WriteFails(m) \/ RewriteFails(m)

ServeStep(k) ==
  \/ Accept(k) \/ Register(k)
  \/ \E m \in Msg : Receive(k, m)
  \/ HandlerReturns(k) \/ Push(k)

NodeStep ==
  \/ \E m \in Msg : Take(m)
  \/ LoopEnds

RoleStep(r) ==
  \/ \E m \in Msg : Handle(r, m)
  \/ RoleEnds(r)

StopStep ==
  \/ StopRouter \/ CloseServer \/ CloseListener \/ CloseConnections
  \/ CloseClient

Next ==
  \/ \E m \in Msg : Send(m) \/ SendStep(m) \/ ConnectFails(m) \/ Route(m)
  \/ \E k \in Conn : Cut(k) \/ ServeStep(k)
  \/ AcceptEnds \/ NodeStep \/ StopNode \/ StopStep
  \/ \E r \in Role : RoleStep(r)

Spec == Init /\ [][Next]_vars

\* Goroutines that can go on do.  Nobody has to send or to call Stop, and the
\* network does not have to fail.
FairSpec ==
  /\ Spec
  /\ \A m \in Msg : WF_vars(SendStep(m)) /\ WF_vars(Route(m))
  /\ \A k \in Conn : WF_vars(ServeStep(k))
  /\ WF_vars(AcceptEnds) /\ WF_vars(NodeStep) /\ WF_vars(StopStep)
  /\ \A r \in Role : WF_vars(RoleStep(r))

-----------------------------------------------------------------------------
(* Properties *)

\* The type invariant: the channel and the mailboxes stay within their
\* capacity, a Send that writes has a connection, and a handler holds a message
\* exactly while it passes it on.
TypeOK ==
  /\ pc \in [Msg -> {"new", "dial", "write", "redial", "rewrite", "sent",
                     "failed"}]
  /\ at \in [Msg -> Conn \cup {NoConn}]
  /\ \A m \in Msg : pc[m] \in {"write", "rewrite"} => at[m] \in Conn
  /\ pool \in [Client -> Conn \cup {NoConn}]
  /\ hungup \subseteq Conn /\ cut \subseteq Conn /\ shut \subseteq Conn
  /\ buf \in [Conn -> SUBSET Msg]
  /\ conn \in [Conn -> {"unused", "backlog", "accepted", "reading", "pushing",
                        "gone"}]
  /\ holding \in [Conn -> Msg \cup {NoMsg}]
  /\ \A k \in Conn : conn[k] = "pushing" <=> holding[k] # NoMsg
  /\ accepting \in BOOLEAN /\ loop \in BOOLEAN
  /\ msgChan \subseteq Msg /\ Cardinality(msgChan) =< MsgChanSize
  /\ routing \subseteq Msg
  /\ mailbox \in [Role -> SUBSET Msg]
  /\ \A r \in Role : Cardinality(mailbox[r]) =< MailboxSize
  /\ roles \subseteq Role
  /\ stop \in DOMAIN StopStage
  /\ faults \in 0..MaxFaults
  /\ dropped \subseteq Msg
  /\ handled \in [Msg -> Nat]

\* A message is in the hands of its sender, under way, or with the node.
InSend(m) == pc[m] \in {"dial", "write", "redial", "rewrite"}
InNode(m) == m \in msgChan \/ m \in routing \/ \E r \in Role : m \in mailbox[r]
InLink(m) == \E k \in Conn : m \in buf[k] \/ holding[k] = m

Service == INSTANCE MessageService WITH
  sent <- {m \in Msg : pc[m] # "new"},
  pending <- {m \in Msg : InSend(m) \/ InLink(m) \/ InNode(m)}

\* The transport implements the message service that LatticeAgreement takes
\* for granted: through pooled connections, a retry on a fresh connection and
\* three hand-overs, no role handles a message twice or one never sent.
ImplementsService == Service!Spec

\* Node.Stop shuts down from the outside in: when the roles are told to end
\* no goroutine is left that could route a message to them, the server is
\* closed after the roles have ended, and when Stop has returned no handler
\* and no accept loop is left.
StopInOrder ==
  /\ Reached("router") => ~loop /\ routing = {}
  /\ Reached("server") => roles = {}
  /\ Reached("stopped") => ~accepting /\ Served = {}

\* A message that Client.Send reported as sent is handled, unless a mailbox
\* was full, its connection broke or the node is being stopped.  A connection
\* that fell out of the pool and a full channel only delay it.
SentArrives ==
  \A m \in Msg :
    pc[m] = "sent" ~> \/ handled[m] > 0 \/ m \in dropped
                      \/ at[m] \in cut \/ stop # "running"

\* Node.Stop returns (engine.go:156, "Stops the node and its network service
\* gracefully").
StopReturns == stop = "node" ~> stop = "stopped"
=============================================================================
