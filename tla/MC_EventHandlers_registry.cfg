CONSTANTS
  h1 = h1
  h2 = h2
  h3 = h3
  Handlers <- MCHandlers
  NoHandler = NoHandler
  MaxAdds = 3
  MaxRemoves = 2
  MaxEvents = 1

SPECIFICATION Spec
INVARIANT TypeOK
PROPERTY RegistryRefinement
CHECK_DEADLOCK FALSE
