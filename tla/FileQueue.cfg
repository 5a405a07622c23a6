SPECIFICATION FairSpec
CONSTANTS
  f1 = f1
  f2 = f2
  f3 = f3
  f4 = f4
  f5 = f5
  f6 = f6
  f7 = f7
  f8 = f8
  f9 = f9
  Listing <- NineFiles
  Workers = {w1, w2}
  ScmBatch = 2
  Sentinel = Sentinel
  Faults = {"drop", "stream", "crash"}
INVARIANTS
  TypeOK
  SweepOnlyWhenSettled
  MemoryBound
PROPERTIES
  ImplementsPass
  Terminates
CHECK_DEADLOCK FALSE
