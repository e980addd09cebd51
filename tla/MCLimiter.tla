----------------------------- MODULE MCLimiter ------------------------------
(***************************************************************************)
(* Finite instances of Limiter for TLC: two nodes, a check on each, one of *)
(* them for two units, and a Status.                                       *)
(***************************************************************************)
EXTENDS Limiter, FiniteSetsExt, TLC

CONSTANTS n1, n2, c1, c2, s1

Requested == (c1 :> 1) @@ (c2 :> 2)
SentTo == (c1 :> n1) @@ (c2 :> n2) @@ (s1 :> n2)
RequestNodes == [r \in Check \cup Status |-> SentTo[r]]
RequestedBy(c) == Requested[c]
SumRequested(S) == MapThenSumSet(RequestedBy, S)
=============================================================================
