\* A Qube object hands its session over to the subprocess and goes on.
CONSTANTS
  Front = {f1}
  Worker = worker
  NoOne = NoOne
  Features <- HandoverFeatures
  Threshold = 2
  TimeOf <- Apart
  TypeOf <- OneType
  Rank <- InTurn
  MaxBlocks = 3
  MaxChain = 3
SPECIFICATION Spec
INVARIANTS
  OnlyLeftBlocksAnchored
CHECK_DEADLOCK TRUE
