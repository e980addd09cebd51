\* Counters with and without zero entries, one node of three down.
SPECIFICATION FairSpec
CONSTANTS
  n1 = n1
  n2 = n2
  n3 = n3
  k1 = k1
  Modulus = 4
  Node = {n1, n2, n3}
  Up = {n1, n2}
  Value <- MapValue
  Bottom <- CMBottom
  Join <- CMJoin
  IsIn <- CMIsIn
  StrictlyIsIn <- CMStrictlyIsIn
  Equals <- CMEquals
  Proposals <- RestartedWriter
  MaxRounds <- OneRound
  Lossy = FALSE
PROPERTY GossipEnds
CHECK_DEADLOCK FALSE
