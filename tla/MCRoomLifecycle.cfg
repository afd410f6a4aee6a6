SPECIFICATION FairSpec
CONSTANTS
    Rooms = {r1}
    Codes = {c1}
    MaxHosts = 2
    Players = {p1}
    MinPlayers = 1
    MaxCalls = 2
    None = None
CONSTRAINT StatusKept
INVARIANTS HostlessHasTimer ActiveHasEngine
PROPERTY HostlessCloses
CHECK_DEADLOCK FALSE
