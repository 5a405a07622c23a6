SPECIFICATION FairSpec
CONSTANTS
  Replicas = {r1, r2}
  N = 2
  Checksums = {a, b, x}
  Broken = {x}
  None = None
  MaxRestarts = 2

INVARIANTS
  TypeOK
  AppliedOnce
  NoGaps
  ReturnsMigrated
PROPERTY Ends
CHECK_DEADLOCK FALSE
