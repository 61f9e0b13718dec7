\* One AddEventHandler racing one event: the add's store into the Go map
\* and handleEvent's unlocked Get.
CONSTANTS
  h1 = h1
  h2 = h2
  h3 = h3
  Handlers <- MCHandlers
  NoHandler = NoHandler
  MaxAdds = 1
  MaxRemoves = 0
  MaxEvents = 1

SPECIFICATION Spec
INVARIANT NoMapReadDuringWrite
CHECK_DEADLOCK FALSE
