SPECIFICATION Spec
CONSTANTS
  c1 = c1
  c2 = c2
  r1 = r1
  Rooms = {r1}
  Clients = {c1, c2}
  Sockets = {s1, s2, s3}
  None = None
  Room = r1
  MaxPlayers = 2
  MinPlayers = 2
  NameOf <- DifferentNames
  MaxDrops = 2
CHECK_DEADLOCK FALSE
SYMMETRY Symmetry
INVARIANTS
  MembershipTypeOK
  LeftForGood
  GhostsAreHasty
