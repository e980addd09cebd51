\* One node starts, its sync may time out, then it makes an increment; no losses.
SPECIFICATION EngineFairSpec
CONSTANTS
  n1 = n1
  n2 = n2
  n3 = n3
  i1 = i1
  i2 = i2
  i3 = i3
  r2 = r2
  Node = {n1, n2, n3}
  Up = {n1, n2}
  Op = {i1}
  OpNode <- OpNodes
  OpKind <- OpKinds
  Starting = {n1}
  Timeouts = {"operation", "sync"}
  Value <- SetValue
  Bottom <- SetBottom
  Join <- SetJoin
  IsIn <- SetIsIn
  StrictlyIsIn <- SetStrictlyIsIn
  Equals <- SetEquals
  IncrementKey <- SetIncrement
  Proposals <- NoProposals
  MaxRounds <- Rounds
  Lossy = FALSE
INVARIANTS
  OwnIncrementsStay
PROPERTIES
  EveryCallReturns
CHECK_DEADLOCK FALSE
