SPECIFICATION Spec
CONSTANTS
  Requests = {r1, r2}
  NoRequest = none
  MaxCrashes = 0
INVARIANTS AbandonedCommandKeepsThePage
CHECK_DEADLOCK FALSE
