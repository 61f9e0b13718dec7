CONSTANTS
  c1 = c1
  c2 = c2
  Callers <- MCCallers
  Loop = Loop
  User = User
  MaxConns = 2
  DialMayFail = TRUE
  PeerCloses = 1
  MaxDupResponses = 1
  UserStops = TRUE
  UserDisconnects = 0
  MaxEvents = 1

SPECIFICATION FairSpec
PROPERTY ConnectionLossEndsLoop
PROPERTY RegisteredCommandsResolved
CHECK_DEADLOCK FALSE
