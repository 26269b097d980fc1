\* One Qube object without a subprocess; two blocks in each second.
CONSTANTS
  Front = {f1}
  Worker = worker
  NoOne = NoOne
  Features <- AloneFeatures
  Threshold = 2
  TimeOf <- Pairs
  TypeOf <- Mixed
  Rank <- Swapped
  MaxBlocks = 4
  MaxChain = 8
SPECIFICATION FairSpec
INVARIANTS
  TypeOK
  QueuedOnlyWhileAnchoring
  RememberedUntilAnchored
PROPERTIES
  ImplementsLifecycle
  FlagReset
CHECK_DEADLOCK TRUE
