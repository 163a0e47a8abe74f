SPECIFICATION SeeSpec
CONSTANTS
  Observers = {o1, o2}
  MaxText = 2
  Window = 1
  ReadLimit = 1
  MaxSeeMoves = 1
  NoObserver = nobody
PROPERTIES CompletedResultStays
CHECK_DEADLOCK FALSE
