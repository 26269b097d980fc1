\* Three Qube objects (say sidecar, CLI and auto-anchor subprocess) share a chain.
CONSTANTS
  Inst = {p1, p2, p3}
  NoInst = NoInst
  a = a
  b = b
  Payload = {a, b}
  Direct = {}
  NoPayload = NoPayload
  Batch <- MCBatch
  SummaryThreshold = 2
  MaxChain = 4
SPECIFICATION Spec
SYMMETRY Symmetry
INVARIANTS
  TypeOK
  ChainIntegrity
  MutualExclusion
PROPERTIES
  OnlyUpToDateWrites
  ImplementsLedger
CHECK_DEADLOCK TRUE
