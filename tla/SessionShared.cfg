\* A Qube object and the auto-anchor subprocess, with every failure; distinct seconds.
CONSTANTS
  Front = {f1}
  Worker = worker
  NoOne = NoOne
  Features <- SharedFeatures
  Threshold = 2
  TimeOf <- Apart
  TypeOf <- OneType
  Rank <- InTurn
  MaxBlocks = 3
  MaxChain = 4
SPECIFICATION Spec
INVARIANTS
  SavedForRecovery
  FlagMeansAnchoring

  
  
CHECK_DEADLOCK TRUE
