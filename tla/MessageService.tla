--------------------------- MODULE MessageService ---------------------------
(***************************************************************************)
(* What the transport promises lattice agreement about the messages sent   *)
(* to one node: only what was sent arrives, in any order, each message at  *)
(* most once, and any of them may be lost.                                 *)
(***************************************************************************)
EXTENDS Naturals

CONSTANT Msg

VARIABLES
  sent,      \* the messages that some sender has begun to send
  pending,   \* those of them that may still arrive
  handled    \* how often each has been given to its role

Init == sent = {} /\ pending = {} /\ handled = [m \in Msg |-> 0]

Send(m) ==
  /\ m \notin sent
  /\ sent' = sent \cup {m}
  /\ pending' = pending \cup {m}
  /\ UNCHANGED handled

Deliver(m) ==
  /\ m \in pending
  /\ pending' = pending \ {m}
  /\ handled' = [handled EXCEPT ![m] = @ + 1]
  /\ UNCHANGED sent

Lose ==
  /\ pending' \in SUBSET pending
  /\ UNCHANGED <<sent, handled>>

Next == Lose \/ \E m \in Msg : Send(m) \/ Deliver(m)

Spec == Init /\ [][Next]_<<sent, pending, handled>>
=============================================================================
