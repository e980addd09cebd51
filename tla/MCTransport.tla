---------------------------- MODULE MCTransport -----------------------------
(***************************************************************************)
(* Transport for TLC: the LEARNs that a node sends to itself.  They share  *)
(* a pool entry, and Node.Stop closes both ends of their connections.      *)
(***************************************************************************)
EXTENDS Transport

OwnMessages == [m \in Msg |-> Own]
Learns == [m \in Msg |-> "learn"]
=============================================================================
