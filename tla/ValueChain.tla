----------------------------- MODULE ValueChain -----------------------------
(***************************************************************************)
(* What lattice agreement promises, without nodes or messages: values are  *)
(* submitted, and values made of submitted ones are chosen so that those   *)
(* chosen are always a chain.                                              *)
(***************************************************************************)
CONSTANTS Value, IsIn(_, _)

VARIABLES
  inputs,      \* the values submitted so far
  chosen       \* the values chosen so far

Init == inputs = {} /\ chosen = {}

Submit(v) ==
  /\ inputs' = inputs \cup {v}
  /\ UNCHANGED chosen

\* v is below everything that is above all inputs, and ordered with all that
\* was chosen before.
Choose(v) ==
  /\ \A u \in Value : (\A i \in inputs : IsIn(i, u)) => IsIn(v, u)
  /\ \A w \in chosen : IsIn(v, w) \/ IsIn(w, v)
  /\ chosen' = chosen \cup {v}
  /\ UNCHANGED inputs

Next == \E v \in Value : Submit(v) \/ Choose(v)

Spec == Init /\ [][Next]_<<inputs, chosen>>
=============================================================================
