SPECIFICATION Spec
CONSTANTS
    Games <- MCGames
    Dictionary <- MCDictionary
    IsPlayed <- MCIsPlayed
    TimeLimit = 2
    MaxTries = 2
    LightCount = 3
    SwitchCount = 2
    MaxAffectedLights = 2
    ScrambleMoves <- MCScrambleMoves
    SolverTurns = 24
    Cols = 9
    Rows = 7
    PlaneCount = 2
    LongLength = 2
    ShortLength = 1
    Spots = {25, 75}
    Sites <- MCSites
    Shapes <- MCShapes
    MaxStars = 1
    StepLength = 20
    MaxPathCells = 9
    MaxSimSteps = 40
    Touched <- MCTouched
    MaxTurns <- MCMaxTurns
    MaxFaults <- MCMaxFaults
INVARIANTS DealtFairly JudgedFairly KeyboardIsFreed RoutesAreFlyable ReplayIsScored
PROPERTY SolvedIsPaid
CONSTRAINT PlanIsFollowed
