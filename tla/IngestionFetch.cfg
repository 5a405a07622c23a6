SPECIFICATION Spec
CONSTANTS
  Paths = {p1, p2}
  Branches = {main}
  Versions = {v1, v2}
  Barren = {}
  Batches = 1
  Runs = {r1}
  None = None
  Reverts = FALSE
  Faults = {"fetch"}
  MaxMishaps = 1
SYMMETRY Symmetry
PROPERTIES
  SweepOnlyGone
