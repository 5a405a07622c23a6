SPECIFICATION PodSpec
CONSTANTS
  Invs = {i1, i2}
  Pages = {t1}
  MaxEvents = 2
  Faults = {"emit", "raise", "stamp", "crash", "blip"}
  MaxMishaps = 1
  Limit = 1
  Polls = 2
  MaxVisits = 2
  None = None

  Cap = 3
  DropCount = 1
  ChunkSize = 2
  MaxRows = 5
  MaxFailedFlushes = 2

  Tools = {u1, u2}
  Args = {1, 2}
  Callers = {c1, c2}
  MaxEntries = 2
  MaxPurges = 2

  Slots = {s1}
  Texts = {x1, x2}
  Operators = {o1, o2}
  Nobody = Nobody

  MaxRounds = 3
  RoundCap = 2
  CallBudget = 5
  WallClock = 4
  ToolTimeout = 2
  ModelTime = 1
  MaxAsked = 3

  Users = {y1, y2}
  Msgs = {g1, g2}
  Quota = 1
  Rungs = 1
INVARIANTS
  TypeOK
  OneEnd
  CompletedIsStamped
  HeardExactly
  RowsAccounted
  PurgeReaches
  ReviewDecides
  OverrunBounded
  EvidenceJudged
  QuotaOverrun
PROPERTIES
  HearsTheEnd
  RowsDelivered
  AnswerStays
CHECK_DEADLOCK FALSE
