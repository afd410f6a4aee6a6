SPECIFICATION FairSpec
CONSTANTS
    Kinds <- MCKinds
    MaxReconnectAttempts = 1
    MaxFaults = 3
    MaxInbox = 1
INVARIANTS ScreenFollowsGame LockedMeansHeard CredsAreGood
PROPERTY SpinnerEnds
CHECK_DEADLOCK FALSE
