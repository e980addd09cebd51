\* Two concurrent proposers, one node of three down, two rounds each.
SPECIFICATION Spec
CONSTANTS
  n1 = n1
  n2 = n2
  n3 = n3
  Writers = {n1, n2}
  Node = {n1, n2, n3}
  Up = {n1, n2}
  Value <- SetValue
  Bottom <- SetBottom
  Join <- SetJoin
  IsIn <- SetIsIn
  StrictlyIsIn <- SetStrictlyIsIn
  Equals <- SetEquals
  Proposals <- Increments
  MaxRounds <- TwoRounds
  Lossy = FALSE
SYMMETRY Symmetry
INVARIANTS
  DecisionsComparable
CHECK_DEADLOCK FALSE
