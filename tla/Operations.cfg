SPECIFICATION OpsSpec
CONSTANTS
  Requests = {r1, r2}
  MaxGen = 2
  PageRefresh = refresh
  None = none
  MaxChainGens = 3
  MaxChainMoves = 2
  Backoff <- MCBackoff
  Deadline = 5
  f1 = f1
  sa = sa
  sb = sb
  Artifacts = {f1, f2}
  Owner <- MCOwner
  Captures = {k1, k2}
  Transfers = {t1}
  Contents = {c1, c2}
  Pieces = 2
  MaxArtMoves = 2
  Nothing = nothing
  Cores = {p1, p2, p3}
  Browsers = {b1, b2, b3}
  Overlap = FALSE
  MaxOwnMoves = 5
  Nobody = nobody
  Mutations = {m1}
  Reads = {w1}
  MaxTries = 3
  MaxCores = 2
  MaxNodes = 5
SYMMETRY Symmetric
INVARIANTS
  StopPressedOnce ConfirmedStopIsTrue
  BackoffIsKept
  DownloadedIsStored PublishedIsExact
  BrowserIsFound
  StartedOnce UndispatchedNeverRuns
  ReadsItsOwnTurn
PROPERTIES PausedIsForGood NotOverAPerson
CHECK_DEADLOCK FALSE
