CONSTANTS
  h1 = h1
  h2 = h2
  h3 = h3
  Handlers <- MCHandlers
  NoHandler = NoHandler
  MaxAdds = 3
  MaxRemoves = 1
  MaxEvents = 2

SPECIFICATION Spec
INVARIANT FanOutLinearizable
CHECK_DEADLOCK FALSE
