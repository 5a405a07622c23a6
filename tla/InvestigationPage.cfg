SPECIFICATION PageSpec
CONSTANTS
  Invs = {i1}
  Pages = {t1}
  MaxEvents = 2
  Faults = {}
  MaxMishaps = 0
  Limit = 1
  Polls = 2
  MaxVisits = 1
  None = None
INVARIANT ShownExactly
CHECK_DEADLOCK FALSE
