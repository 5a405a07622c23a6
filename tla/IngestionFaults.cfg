SPECIFICATION FairSpec
CONSTANTS
  Paths = {p1}
  Branches = {main}
  Versions = {v1, v2, v3}
  Barren = {v3}
  Batches = 2
  Runs = {r1, r2}
  None = None
  Reverts = FALSE
  Faults = {"list", "fetch", "stream", "parse", "embed", "upsert", "record", "query", "reply", "purge", "clock", "crash"}
  MaxMishaps = 3
INVARIANTS
  CleanRunComplete
  CleanRunReplaces
PROPERTIES
  SkipSound
  PurgeSpares
  CatchesUp
  RunsEnd
