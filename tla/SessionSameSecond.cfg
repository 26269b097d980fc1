\* Two blocks of one type in one second, no anchor.
CONSTANTS
  Front = {f1}
  Worker = worker
  NoOne = NoOne
  Features <- AloneFeatures
  Threshold = 4
  TimeOf <- OneSecond
  TypeOf <- OneType
  Rank <- InTurn
  MaxBlocks = 3
  MaxChain = 3
SPECIFICATION Spec
INVARIANTS
  SavedForRecovery
CHECK_DEADLOCK TRUE
