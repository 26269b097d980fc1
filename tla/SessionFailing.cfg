\* A commanded anchor that fails while blocks are queued.
CONSTANTS
  Front = {f1}
  Worker = worker
  NoOne = NoOne
  Features <- FailingFeatures
  Threshold = 2
  TimeOf <- Apart
  TypeOf <- OneType
  Rank <- InTurn
  MaxBlocks = 3
  MaxChain = 3
SPECIFICATION Spec
INVARIANTS
  QueuedOnlyWhileAnchoring
CHECK_DEADLOCK TRUE
