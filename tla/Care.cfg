SPECIFICATION CareSpec
CONSTANTS
  Sessions = {s1, s2}
  MaxAttempts = 2
  MaxGen = 2
  MaxLoadMoves = 2
  Account = account
  NoRecord = none
  role = role
  Roles = {role}
  Deletes = {d1}
  Replacements = {p1}
  TeamDeletions = {t1}
  Target <- MCTarget
  MaxCleanMoves = 2
  Absent = absent
  Callers = {c1, c2, c3}
  Keys = {k1, k2}
  NoCaller = NoCaller
  MaxArrivals = 4
  MaxRetained = 2
INVARIANTS
  NoGateIsLost
  ClicksAreCounted UnknownDeletionIsNotRepeated OneSuccessor
PROPERTIES
  PersistentErrorIsReported SettledBeforeDeleted EveryCleanupReturns
  ImplementsFifoLock
CHECK_DEADLOCK FALSE
