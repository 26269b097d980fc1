SPECIFICATION Spec
CONSTANTS
  Actor = {a1, a2}
  Thing = {t1, t2}
  Coin = {coin1, coin2}
  Change = {c1}
  NoSnapshot = NoSnapshot
  NoCoin = NoCoin
  NoTx = NoTx
  MaxSent = 4
  MaxOpens = 2
  MaxFailures = 1
  MaxCrashes = 1
INVARIANTS
  TypeOK
  MessagesCounted
  RejectionFinal
  PaidRecorded
PROPERTIES
  
  DiscardRestores
  ImplementsPayment
CONSTRAINT Bound
SYMMETRY Symmetry
CHECK_DEADLOCK FALSE
