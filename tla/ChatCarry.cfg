SPECIFICATION Spec
CONSTANTS
  Graphs = {"multi"}
  MaxTurns = 2
  MaxRetries = 1
  MaxRegens = 2
  Limit = 22
  Real = {k}
  Searches = {k}
  Engine = {p}
  Unregistered = {x}
  Denied = {d}
  MaxBatch = 2
  MaxCalls = 2
  MaxUnknown = 2
SYMMETRY Symmetry
CHECK_DEADLOCK FALSE
INVARIANTS
  SourcesOfTurn
