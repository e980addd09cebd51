\* Two nodes start, then an increment and a read: a callback that comes late
\* answers the read.
SPECIFICATION EngineSpec
CONSTANTS
  n1 = n1
  n2 = n2
  n3 = n3
  i1 = i1
  i2 = i2
  i3 = i3
  r2 = r2
  Node = {n1, n2, n3}
  Up = {n1, n2}
  Op = {i1, r2}
  OpNode <- OpNodes
  OpKind <- OpKinds
  Starting = {n1, n2}
  Timeouts = {}
  Value <- SetValue
  Bottom <- SetBottom
  Join <- SetJoin
  IsIn <- SetIsIn
  StrictlyIsIn <- SetStrictlyIsIn
  Equals <- SetEquals
  IncrementKey <- SetIncrement
  Proposals <- NoProposals
  MaxRounds <- Rounds
  Lossy = FALSE
INVARIANTS
  AnswersAreCurrent
CHECK_DEADLOCK FALSE
