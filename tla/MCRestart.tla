----------------------------- MODULE MCRestart ------------------------------
(***************************************************************************)
(* Restart for TLC, with the values of MCEngine.  The network is slow: n1  *)
(* and n2 hear from each other until a node crashes, n2 and n3 afterwards, *)
(* and n3 is asked to increment then.                                      *)
(***************************************************************************)
EXTENDS MCEngine, Restart

\* A Start more for each crash.
RestartRounds == [n \in Node |-> Rounds[n] + MaxCrashes]

Reachable == IF crashes = 0 THEN {n1, n2} ELSE {n2, n3}

SlowNext ==
  \/ /\ \/ \E op \in Op : OpNode[op] \in Reachable
                          /\ (Call(op) \/ Return(op) \/ Timeout(op))
        \/ \E n \in Reachable : \/ FlushCapture(n) \/ FlushPropose(n)
                                \/ SyncPropose(n) \/ SyncReturn(n) \/ SyncTimeout(n)
        \/ \E m \in BagToSet(net) :
             {m.from, m.to} \subseteq Reachable /\ (Vote(m) \/ Learn(m))
        \/ \E c \in BagToSet(callbacks) : c.node \in Reachable /\ OnLearn(c)
     /\ UNCHANGED <<snapshot, crashes>>
  \/ \E n \in Reachable : Snapshot(n)
  \/ Crash(n2)

SlowSpec == RestartInit /\ [][SlowNext]_restartVars
=============================================================================
