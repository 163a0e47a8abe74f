INIT OwnInit
NEXT OwnNext
CONSTANTS
  Cores = {p1, p2, p3}
  Browsers = {b1, b2}
  Overlap = TRUE
  MaxOwnMoves = 1
  Nobody = nobody
INVARIANT OneOwner
CHECK_DEADLOCK FALSE
