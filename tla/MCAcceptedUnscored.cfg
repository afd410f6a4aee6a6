SPECIFICATION Spec
CONSTANTS
  Players = {p1, p2}
  NumRounds = 1
  Minigame = {}
  MaxFaults = 0
  MaxCalls = 0
  Timeouts = FALSE
SYMMETRY Symmetry
CHECK_DEADLOCK FALSE
INVARIANT
  AcceptedIsNotTimeout
