\* Two concurrent proposers, one node of three down, two rounds of n1 and one of n2.
SPECIFICATION FairSpec
CONSTANTS
  n1 = n1
  n2 = n2
  n3 = n3
  Writers = {n1, n2}
  Node = {n1, n2, n3}
  Up = {n1, n2}
  Value <- SetValue
  Bottom <- SetBottom
  Join <- SetJoin
  IsIn <- SetIsIn
  StrictlyIsIn <- SetStrictlyIsIn
  Equals <- SetEquals
  Proposals <- Increments
  MaxRounds <- TwoRoundsOfN1
  Lossy = FALSE
INVARIANTS
  TypeOK
  NothingInvented
  AdoptedValuesComparable
  ProposalCoversSubmitted
PROPERTIES
  ValuesOnlyGrow
  ImplementsChain
  SubmittedIsLearned
  GossipEnds
CHECK_DEADLOCK FALSE
