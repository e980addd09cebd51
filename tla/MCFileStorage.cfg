\* Two changes of the counters; exits, power losses and failing calls.
SPECIFICATION FairSpec
CONSTANTS
  Absent = Absent
  Empty = Empty
  Torn = Torn
  MaxVersion = 2
INVARIANTS
  TypeOK
  SnapshotsAreWhole
  
PROPERTIES
  ImplementsStore
  StopIsSaved
CHECK_DEADLOCK FALSE
