SPECIFICATION FairSpec
CONSTANTS
  Players = {p1}
  NumRounds = 2
  Minigame = {1}
  MaxFaults = 0
  MaxCalls = 2
  Timeouts = TRUE
CHECK_DEADLOCK FALSE
INVARIANTS
  WindowOpenOnlyInQuestion
  WindowMatchesContext
  ScoresSettled
PROPERTY
  GameEnds
