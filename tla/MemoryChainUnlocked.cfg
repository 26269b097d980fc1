\* One Qube object: a direct write while the summary of an anchor is awaited.
CONSTANTS
  Inst = {p1}
  NoInst = NoInst
  a = a
  b = b
  Payload = {a, b}
  Direct = {p1}
  NoPayload = NoPayload
  Batch <- MCBatch
  SummaryThreshold = 2
  MaxChain = 4
SPECIFICATION Spec
INVARIANTS
  ChainIntegrity
CHECK_DEADLOCK TRUE
