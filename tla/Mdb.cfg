SPECIFICATION Spec
CONSTANTS
  Names = {n1, n2}
  Keys = {k1, k2}
  Values = {v0, v1}
  Default = v0
  Absent = Absent
  Faults = {"thread"}
  MaxTables = 2
  MaxChanges = 3
INVARIANTS
  TypeOK
  KeyChain
  FutureMeansHeard
PROPERTY ImplementsFeed
CHECK_DEADLOCK FALSE
