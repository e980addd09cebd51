------------------------------ MODULE Limiter -------------------------------
(***************************************************************************)
(* internal/limiter behind internal/api: clients ask nodes whether a       *)
(* request is within its limit (Check) or how much is left (Status), for   *)
(* one identifier, resource and rule.  A limiter keeps no state but a      *)
(* counter per window in the engine.                                       *)
(*                                                                         *)
(* The engine is what module Engine models, reduced to what it promises:   *)
(* each node has its local counters, agreed values form a chain (module    *)
(* ValueChain), and a callback with an agreed value, however late, is      *)
(* merged and answers the calls it covers.  A counter is the set of checks *)
(* that have incremented it.  Every node has a clock of its own.           *)
(***************************************************************************)
EXTENDS Integers

CONSTANTS
  Node,
  Check, Status,   \* the requests clients make
  RequestNode,     \* RequestNode[r]: the node r is sent to
  Total(_),        \* Total(S): the sum of value_requested over S \subseteq Check
  Limit, Window,   \* the rule, the window in ticks of the clock
  Second,          \* ticks of the clock in a second
  Modulus,         \* 2^64
  StartTime, MaxTime  \* where the clocks start, and a bound on them

Request == Check \cup Status

ASSUME RuleAssumption ==
  /\ Limit \in Nat /\ Window \in Nat \ {0} /\ Second \in Nat \ {0}
  /\ StartTime \in Nat /\ MaxTime \in Nat /\ Modulus \in Nat \ {0}
  /\ RequestNode \in [Request -> Node] /\ Check \cap Status = {}

ASSUME TotalAssumption ==
  /\ Total({}) = 0
  /\ \A S \in SUBSET Check : /\ Total(S) \in Nat
                             /\ \A T \in SUBSET S : Total(T) <= Total(S)

VARIABLES
  clock,       \* clock[n]
  pc,          \* pc[r]: where request r is, in the end the response
  now,         \* now[r]: the clock as r read it last
  local,       \* local[n]: the checks counted in the local counters of n
  agreed,      \* the values that lattice agreement has chosen
  result,      \* result[r]: the counters the engine answered r with
  remaining,   \* remaining[s]: Decision.Remaining of a Status
  before       \* history: the checks answered when r called the engine

vars == <<clock, pc, now, local, agreed, result, remaining, before>>

\* Truncate(Window), and the key of the window that starts then: buildKey keeps
\* whole seconds.
WindowStart(t) == t - (t % Window)
BuildKey(start) == start \div Second

CurrentKey(r) == BuildKey(WindowStart(now[r]))

\* The checks of S that have incremented the counter with this key.
Counted(S, key) == {c \in S : CurrentKey(c) = key}

\* The sliding window at time t, prev being what its previous window counts.
Estimate(prev, cur, t) == (prev * (Window - (t % Window))) \div Window + cur

\* The estimate from cur for the window of t and prev for the one before.
Consumed(prev, cur, t) ==
  Estimate(Total(Counted(prev, BuildKey(WindowStart(t) - Window))),
           Total(Counted(cur, BuildKey(WindowStart(t)))), t)

Issued == UNION {local[n] : n \in Node}
Answered == {c \in Check : pc[c] \in {"allowed", "exceeded"}}

Contained(v, w) == v \subseteq w
Agreement == INSTANCE ValueChain WITH
  Value <- SUBSET Check, IsIn <- Contained,
  inputs <- {{c} : c \in Issued}, chosen <- agreed

\* Start on every node has agreed on the empty counters.
Init ==
  /\ clock = [n \in Node |-> StartTime]
  /\ pc = [r \in Request |-> "idle"]
  /\ now = [r \in Request |-> StartTime]
  /\ local = [n \in Node |-> {}]
  /\ agreed = {{}}
  /\ result = [r \in Request |-> {}]
  /\ remaining = [s \in Status |-> 0]
  /\ before = [r \in Request |-> {}]

-----------------------------------------------------------------------------
(* Check and Status *)

\* Mutant: the previous window counts in full.
CheckLocalUnweighted(c) ==
  LET n == RequestNode[c]
      t == clock[n]
      used == Total(Counted(local[n], BuildKey(WindowStart(t))))
                + Total(Counted(local[n], BuildKey(WindowStart(t) - Window))) >= Limit
  IN  /\ pc[c] = "idle"
      /\ now' = [now EXCEPT ![c] = t]
      /\ pc' = [pc EXCEPT ![c] = IF used THEN "refused" ELSE "counting"]
      /\ UNCHANGED <<clock, local, agreed, result, remaining, before>>

\* The first half of Check: if the local counters are used up the request is
\* refused without counting it.
CheckLocal(c) ==
  LET n == RequestNode[c]
      used == Consumed(local[n], local[n], clock[n]) >= Limit
  IN  /\ pc[c] = "idle"
      /\ now' = [now EXCEPT ![c] = clock[n]]
      /\ pc' = [pc EXCEPT ![c] = IF used THEN "refused" ELSE "counting"]
      /\ UNCHANGED <<clock, local, agreed, result, remaining, before>>

\* incrementAndGetTotalCountInSlidingWindow up to the wait of IncrementKey; the
\* clock is read again.
CheckIncrement(c) ==
  LET n == RequestNode[c]
  IN  /\ pc[c] = "counting"
      /\ now' = [now EXCEPT ![c] = clock[n]]
      /\ local' = [local EXCEPT ![n] = @ \cup {c}]
      /\ before' = [before EXCEPT ![c] = Answered]
      /\ pc' = [pc EXCEPT ![c] = "waiting"]
      /\ UNCHANGED <<clock, agreed, result, remaining>>

\* Mutant: the current window is read locally, without its own increment.
CheckReturnLocal(c) ==
  LET consumed == Consumed(local[RequestNode[c]] \ {c}, local[RequestNode[c]] \ {c}, now[c])
  IN  /\ pc[c] = "signalled"
      /\ pc' = [pc EXCEPT ![c] = IF consumed <= Limit THEN "allowed" ELSE "exceeded"]
      /\ UNCHANGED <<clock, now, local, agreed, result, remaining, before>>

\* Mutant: the previous window is not looked at.
CheckReturnCurrent(c) ==
  LET consumed == Consumed({}, result[c], now[c])
  IN  /\ pc[c] = "signalled"
      /\ pc' = [pc EXCEPT ![c] = IF consumed <= Limit THEN "allowed" ELSE "exceeded"]
      /\ UNCHANGED <<clock, now, local, agreed, result, remaining, before>>

\* IncrementKey returns: the current window is what the engine answered, the
\* previous one is read from the local counters of this moment.
CheckReturn(c) ==
  LET consumed == Consumed(local[RequestNode[c]], result[c], now[c])
  IN  /\ pc[c] = "signalled"
      /\ pc' = [pc EXCEPT ![c] = IF consumed <= Limit THEN "allowed" ELSE "exceeded"]
      /\ UNCHANGED <<clock, now, local, agreed, result, remaining, before>>

\* getTotalCountInSlidingWindow up to the wait of ValueForKey.
StatusCall(s) ==
  /\ pc[s] = "idle"
  /\ now' = [now EXCEPT ![s] = clock[RequestNode[s]]]
  /\ before' = [before EXCEPT ![s] = Answered]
  /\ pc' = [pc EXCEPT ![s] = "waiting"]
  /\ UNCHANGED <<clock, local, agreed, result, remaining>>

\* Mutant: the subtraction is one of signed integers.
StatusReturnSigned(s) ==
  LET consumed == Consumed(local[RequestNode[s]], result[s], now[s])
  IN  /\ pc[s] = "signalled"
      /\ remaining' = [remaining EXCEPT ![s] = Limit - consumed]
      /\ pc' = [pc EXCEPT ![s] = "reported"]
      /\ UNCHANGED <<clock, now, local, agreed, result, before>>

\* ValueForKey returns; the subtraction is one of uint64.
StatusReturn(s) ==
  LET consumed == Consumed(local[RequestNode[s]], result[s], now[s])
  IN  /\ pc[s] = "signalled"
      /\ remaining' = [remaining EXCEPT ![s] = (Limit - consumed) % Modulus]
      /\ pc' = [pc EXCEPT ![s] = "reported"]
      /\ UNCHANGED <<clock, now, local, agreed, result, before>>

\* The engine times out, the increment stays: the response is an error.
Timeout(r) ==
  /\ pc[r] \in {"waiting", "signalled"}
  /\ pc' = [pc EXCEPT ![r] = "unavailable"]
  /\ UNCHANGED <<clock, now, local, agreed, result, remaining, before>>

-----------------------------------------------------------------------------
(* The engine and the clocks *)

\* A quorum adopts a value made of increments that were made.
Agree ==
  /\ UNCHANGED <<clock, pc, now, local, result, remaining, before>>
  /\ \E v \in SUBSET Issued : Agreement!Choose(v)

\* Mutant: every callback answers the calls that wait.
OnLearnAnswersAll(n, v) ==
  LET merged == local[n] \cup v
      answered == {r \in Request : RequestNode[r] = n /\ pc[r] = "waiting"}
  IN  /\ local' = [local EXCEPT ![n] = merged]
      /\ pc' = [r \in Request |-> IF r \in answered THEN "signalled" ELSE pc[r]]
      /\ result' = [r \in Request |-> IF r \in answered THEN v ELSE result[r]]
      /\ UNCHANGED <<clock, now, agreed, remaining, before>>

\* The onLearn callback of the engine of n.
OnLearn(n, v) ==
  LET merged == local[n] \cup v
      answered == {r \in Request : /\ RequestNode[r] = n /\ pc[r] = "waiting"
                                   /\ merged \subseteq v}
  IN  /\ local' = [local EXCEPT ![n] = merged]
      /\ pc' = [r \in Request |-> IF r \in answered THEN "signalled" ELSE pc[r]]
      /\ result' = [r \in Request |-> IF r \in answered THEN merged ELSE result[r]]
      /\ UNCHANGED <<clock, now, agreed, remaining, before>>

Tick(n) ==
  /\ clock[n] < MaxTime
  /\ clock' = [clock EXCEPT ![n] = @ + 1]
  /\ UNCHANGED <<pc, now, local, agreed, result, remaining, before>>

\* handleCheck and handleStatus of the API serve a request; the last step is
\* the response, which is an error after a timeout.
HandleCheck(c) == CheckLocal(c) \/ CheckIncrement(c) \/ CheckReturn(c) \/ Timeout(c)
HandleStatus(s) == StatusCall(s) \/ StatusReturn(s) \/ Timeout(s)

Next ==
  \/ \E c \in Check : HandleCheck(c)
  \/ \E s \in Status : HandleStatus(s)
  \/ Agree
  \/ \E n \in Node : Tick(n) \/ \E v \in agreed : OnLearn(n, v)

Spec == Init /\ [][Next]_vars
-----------------------------------------------------------------------------
(* Properties *)

\* Requests, clocks and counters have their types; what a node counts are
\* checks that have incremented.
TypeOK ==
  /\ clock \in [Node -> Nat]
  /\ pc \in [Request -> {"idle", "counting", "waiting", "signalled", "refused",
                         "allowed", "exceeded", "reported", "unavailable"}]
  /\ now \in [Request -> Nat]
  /\ local \in [Node -> SUBSET Check]
  /\ agreed \subseteq SUBSET Check
  /\ result \in [Request -> SUBSET Check]
  /\ remaining \in [Status -> Nat]
  /\ before \in [Request -> SUBSET Check]

AllowedIn(start) == {c \in Check : pc[c] = "allowed" /\ WindowStart(now[c]) = start}

\* The limit of a rate limiter: of the requests that fall into one window, those
\* allowed never ask for more than the limit together, on whatever nodes and
\* however concurrently they are checked (README: "Linearizable reads and
\* writes").
LimitHolds == \A c \in Check : Total(AllowedIn(WindowStart(now[c]))) <= Limit

\* What a check is allowed on: its own request and all requests that had been
\* answered, by any node, when it was counted, weighted as the sliding window
\* has it.  In particular it is enough to read the previous window locally.
AllowedWithinWindow ==
  \A c \in Check : pc[c] = "allowed" => Consumed(before[c], before[c] \cup {c}, now[c]) <= Limit

\* A request is refused or found to exceed the limit only if those that were
\* counted at all, allowed or not, use up the sliding window.
DenialIsDue ==
  \A c \in Check : pc[c] \in {"refused", "exceeded"} => Consumed(Issued, Issued, now[c]) >= Limit

\* A node's Status knows all checks that the node had answered before.
StatusSeesOwnNode ==
  \A s \in Status : pc[s] = "reported" =>
    {c \in before[s] : RequestNode[c] = RequestNode[s]} \subseteq result[s]
=============================================================================
