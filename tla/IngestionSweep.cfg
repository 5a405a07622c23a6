SPECIFICATION Spec
CONSTANTS
  Paths = {p1}
  Branches = {main}
  Versions = {v1, v2}
  Barren = {}
  Batches = 1
  Runs = {r1, r2}
  None = None
  Reverts = FALSE
  Faults = {"lock", "crash", "list", "stream", "tracker", "seen", "delete", "query", "reply", "purge"}
  MaxMishaps = 2
SYMMETRY Symmetry
PROPERTIES
  SweepOnlyGone
