SPECIFICATION FairSeeSpec
CONSTANTS
  Observers = {o1, o2}
  MaxText = 2
  Window = 1
  ReadLimit = 1
  MaxSeeMoves = 1
  NoObserver = nobody
PROPERTIES QuietFinalStood EndedStaysEnded FinishedAnswerIsCollected
CHECK_DEADLOCK FALSE
