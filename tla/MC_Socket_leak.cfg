\* A user Disconnect racing the loop's deferred Disconnect while a caller
\* sends a command: no dial failures, drops, duplicates or Stop() needed.
CONSTANTS
  c1 = c1
  c2 = c2
  Callers <- MCCallers
  Loop = Loop
  User = User
  MaxConns = 2
  DialMayFail = FALSE
  PeerCloses = 0
  MaxDupResponses = 0
  UserStops = FALSE
  UserDisconnects = 1
  MaxEvents = 0

SPECIFICATION Spec
INVARIANT NoLeakedTransport
CHECK_DEADLOCK FALSE
