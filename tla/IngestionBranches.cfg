SPECIFICATION Spec
CONSTANTS
  Paths = {p1}
  Branches = {main, dev}
  Versions = {v1, v2}
  Barren = {}
  Batches = 1
  Runs = {r1}
  None = None
  Reverts = FALSE
  Faults = {}
  MaxMishaps = 0
SYMMETRY Symmetry
PROPERTIES
  SkipSound
