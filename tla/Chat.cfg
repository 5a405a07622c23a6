SPECIFICATION Spec
CONSTANTS
  Graphs = {"multi", "full", "minimal"}
  MaxTurns = 2
  MaxRetries = 1
  MaxRegens = 2
  Limit = 22
  Real = {k}
  Searches = {k}
  Engine = {p}
  Unregistered = {x}
  Denied = {d, e}
  MaxBatch = 2
  MaxCalls = 2
  MaxUnknown = 2
SYMMETRY Symmetry
CHECK_DEADLOCK FALSE
INVARIANTS
  TypeOK
  FirstCallServed
  AnsweredOrDropped
  LimitIsBackstop
  FreshEvidence
  KeptIsGrounded
  RegensSpent
