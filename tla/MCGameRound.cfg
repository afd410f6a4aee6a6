SPECIFICATION Spec
CONSTANTS
  Players = {p1, p2}
  NumRounds = 2
  Minigame = {1}
  MaxFaults = 1
  MaxCalls = 2
  Timeouts = FALSE
CONSTRAINT OneTroubleLater
SYMMETRY Symmetry
CHECK_DEADLOCK FALSE
INVARIANTS
  TypeOK
  SubmittedIsStored
  ProgressKept
  TimeoutsUncredited
  NoOverCredit
PROPERTY
  ShowGoesOn
