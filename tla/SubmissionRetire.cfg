SPECIFICATION Spec
CONSTANTS
  Requests = {r1, r2}
  NoRequest = none
  MaxCrashes = 0
PROPERTIES TerminalStaysTerminal
CHECK_DEADLOCK FALSE
