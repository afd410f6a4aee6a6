SPECIFICATION FairSpec
CONSTANTS
  Rooms = {r1}
  Clients = {c1}
  Sockets = {s1, s2}
  None = None
INVARIANTS MembershipBacked EntriesOwned OnlyLateOnesAreGhosts NothingOutlives
PROPERTIES OnlyOwnerRemoves ZombiesAreFreed IdleAreClosed
CHECK_DEADLOCK FALSE
