CONSTANTS
  c1 = c1
  c2 = c2
  Callers <- MCCallers
  Loop = Loop
  User = User
  MaxConns = 2
  DialMayFail = FALSE
  PeerCloses = 0
  MaxDupResponses = 0
  UserStops = FALSE
  UserDisconnects = 0
  MaxEvents = 0

SPECIFICATION FairSpec
PROPERTY CommandsEventuallyResolved
CHECK_DEADLOCK FALSE
