SPECIFICATION ProbeSpec
CONSTANTS
  s1 = s1
  s2 = s2
  web = web
  lasting = lasting
  shared = shared
  account = account
  Account = account
  None = none
  Sessions <- Both
  Loops = {l1, l2}
  Scopes <- AllScopes
  Conversations = {web, lasting}
  Starts <- LoneOrPaired
  Lasting <- Replaced
  Success = 1
  Min429 = 1
  Max429 = 2
  Delays = {2}
  MaxLevel = 0
  MaxDefers = 1
SYMMETRY Symmetric
INVARIANTS StoppedObserversReleaseTheirTurn
CHECK_DEADLOCK FALSE
