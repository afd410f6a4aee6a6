SPECIFICATION Spec
CONSTANTS
  c1 = c1
  c2 = c2
  r1 = r1
  Rooms = {r1}
  Clients = {c1}
  Sockets = {s1, s2, s3}
  None = None
  Room = r1
  MaxPlayers = 2
  MinPlayers = 1
  NameOf <- DifferentNames
  MaxDrops = 3
CHECK_DEADLOCK FALSE
INVARIANT
  OfflineHasTimer
PROPERTY
  OfflineResolves
