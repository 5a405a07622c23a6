SPECIFICATION Spec
CONSTANTS
  Paths = {p1, p2}
  Branches = {main}
  Versions = {v1, v2, v3}
  Barren = {v3}
  Batches = 1
  Runs = {r1, r2}
  None = None
  Reverts = TRUE
  Faults = {"list", "fetch", "stream", "parse", "tracker", "seen", "query"}
  MaxMishaps = 2
SYMMETRY Symmetry
INVARIANTS
  TypeOK
  TrackedIndexed
  CleanRunExact
