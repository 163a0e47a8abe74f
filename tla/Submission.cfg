SPECIFICATION BothSpec
CONSTANTS
  Requests = {r1, r2}
  NoRequest = none
  MaxCrashes = 2
  Work = {o1, o2}
  Waits = {w1}
  Updaters <- MCUpdaters
  MaxLeases = 2
  MaxRenewals = 1
INVARIANTS
  AtMostOneClick OlderGenerationsSettled
  ReadinessLasts ReadinessCoversEvidence
PROPERTIES
  RetiredRoleNeverClicks ImplementsPromise ActorIsFreed AttemptIsResolved
  DeferredWorkRuns
CHECK_DEADLOCK FALSE
