\* n2 votes for the increment of n1, crashes, and votes for the one of n3.
SPECIFICATION SlowSpec
CONSTANTS
  n1 = n1
  n2 = n2
  n3 = n3
  i1 = i1
  i2 = i2
  i3 = i3
  r2 = r2
  Node = {n1, n2, n3}
  Up = {n1, n2, n3}
  Op = {i1, i3}
  OpNode <- OpNodes
  OpKind <- OpKinds
  Starting = {}
  Timeouts = {}
  Value <- SetValue
  Bottom <- SetBottom
  Join <- SetJoin
  IsIn <- SetIsIn
  StrictlyIsIn <- SetStrictlyIsIn
  Equals <- SetEquals
  IncrementKey <- SetIncrement
  Proposals <- NoProposals
  MaxRounds <- RestartRounds
  Lossy = FALSE
  MaxCrashes = 1
INVARIANTS
  AnswersAreCurrent
CHECK_DEADLOCK FALSE
