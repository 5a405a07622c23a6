SPECIFICATION Spec
CONSTANTS
  Replicas = {r1, r2}
  N = 2
  Checksums = {a, b, x}
  Broken = {x}
  None = None
  MaxRestarts = 1
SYMMETRY Symmetry
PROPERTY SeesEarlierWork
CHECK_DEADLOCK FALSE
