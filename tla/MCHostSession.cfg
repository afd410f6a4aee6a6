SPECIFICATION Spec
CONSTANTS
    Themes = {"history", "art"}
    Minigames = {"slide"}
    Available <- MCAvailable
    DefaultTimes <- MCDefaultTimes
    DefaultSequence <- MCDefaultSequence
    MaxQuestions = 2
    DefaultQuestions = 1
    MinTime = 10
    MaxTime = 20
    TimeStep = 10
    MinBlocks = 1
    MaxBlocks = 4
    DefaultSize = 3
    Columns = 2
    MaxStarts = 1
    MaxEdits = 1
    MaxSends = 2
    MaxFaults = 1
    MaxInbox = 1
    MaxRounds = 2
    MaxTroubles = 1
INVARIANTS HostShowsGame EditsSettle PlaysTheFlow DropsFollowTheSnake LeaderboardTellsTheGame
CONSTRAINT ShortGames
CHECK_DEADLOCK FALSE
