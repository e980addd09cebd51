\* Three nodes, one key, increments by one, restarts.
SPECIFICATION Spec
CONSTANTS
  n1 = n1
  n2 = n2
  n3 = n3
  k1 = k1
  k2 = k2
  Node = {n1, n2, n3}
  Key = {k1}
  Amount = {1}
  MaxTotal = 3
  Modulus = 16
SYMMETRY Symmetry
INVARIANTS
  TypeOK
  JoinIsLeastUpperBound
  MergeOrderIsInvisible
  OwnSlotLeads
  NoIncrementDropped
  
CHECK_DEADLOCK FALSE
