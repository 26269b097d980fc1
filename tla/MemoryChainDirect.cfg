\* Two Qube objects whose commands also write permanent blocks directly.
CONSTANTS
  Inst = {p1, p2}
  NoInst = NoInst
  a = a
  b = b
  Payload = {a, b}
  Direct = {p1, p2}
  NoPayload = NoPayload
  Batch <- MCBatch
  SummaryThreshold = 2
  MaxChain = 3
SPECIFICATION FairSpec
INVARIANTS
  LengthIsNextNumber
PROPERTIES
  LockReleased
CHECK_DEADLOCK TRUE
