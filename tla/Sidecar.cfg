SPECIFICATION Spec
CONSTANTS
  Command = {x1, x2}
  Launch = {}
  None = none
  MaxStarts = 2
  MaxCrashes = 1
  MaxMessages = 1
  MaxChunks = 3
  MaxTroubles = 1
  Qube = {alice, bob}
  User = user
  MaxCalls = 3
INVARIANTS
  TypeOK
  NoOverlap
 
CHECK_DEADLOCK FALSE
