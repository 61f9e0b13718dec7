\* Everything the environment can do at once: dial failures, a dropped
\* connection, a duplicate response, Stop() and a user Disconnect().
CONSTANTS
  c1 = c1
  c2 = c2
  Callers <- MCCallers
  Loop = Loop
  User = User
  MaxConns = 2
  DialMayFail = TRUE
  PeerCloses = 1
  MaxDupResponses = 1
  UserStops = TRUE
  UserDisconnects = 1
  MaxEvents = 1

SPECIFICATION Spec
SYMMETRY CallerSymmetry
INVARIANT TypeOK
PROPERTY CommandFutureRefinement
CHECK_DEADLOCK FALSE
