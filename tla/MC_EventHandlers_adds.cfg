CONSTANTS
  h1 = h1
  h2 = h2
  h3 = h3
  Handlers <- MCHandlers
  NoHandler = NoHandler
  MaxAdds = 4
  MaxRemoves = 0
  MaxEvents = 1

SPECIFICATION Spec
INVARIANT FanOutLinearizable
CHECK_DEADLOCK FALSE
