\* Windows of two seconds, a limit of two, clocks that drift apart.
SPECIFICATION Spec
CONSTANTS
  n1 = n1
  n2 = n2
  c1 = c1
  c2 = c2
  s1 = s1
  Node = {n1, n2}
  Check = {c1, c2}
  Status = {s1}
  RequestNode <- RequestNodes
  Total <- SumRequested
  Limit = 2
  Window = 2
  Second = 1
  Modulus = 16
  StartTime = 3
  MaxTime = 5
INVARIANTS
  TypeOK
  
  
  DenialIsDue
  StatusSeesOwnNode
CHECK_DEADLOCK FALSE
