SPECIFICATION Spec
CONSTANTS
  Actor = {a1, a2}
  Item = {i1, i2, i3}
  NoBlock = NoBlock
  Torn = Torn
  NoRecord = NoRecord
  NoCopy = NoCopy
  NoCall = NoCall
  MaxSales = 2
  Key = {1, 2, 3, 4}
  Size <- Sizes
  CacheSize = 3
  Request = {r1, r2}
  Sender = {peer}
  From <- OnePeer
  MaxMessageAge = 1
  ClockSkew = 1
  NonceAge = 3
  MaxNonces = 1
  MaxHandshakes = 3
  HandshakeWindow = 2
  HandshakeTime = 6
  Connection = {c1, c2}
  MaxMessages = 2
  MessageWindow = 1
  MaxConnections = 1
  BlockTime = 1
  MessageTime = 2
  Recipient = {recipient}
  Owner = owner
  MaxBlocks = 1
INVARIANTS
  TypeOK
  AcceptedOnce
  
  HandedOver
PROPERTIES
  SharedKept
SYMMETRY Symmetry
CHECK_DEADLOCK FALSE
