SPECIFICATION SFairSpec
CONSTANTS
  Workers = {w1}
  Messages = {m1, m2}
  Orders = {o1}
  Products = {1}
  m1 = m1
  m2 = m2
  o1 = o1
  MsgOrder <- WithInvalid
  OrderItems <- OneItem
  MaxQty = 1
  MaxBatch = 2
  MaxReceiveCount = 2
  DlqUrlSet = TRUE
  MaxFaults = 2
  None = None
  Invalid = Invalid
INVARIANTS
  NoneLost
  ParkedAfterRetries
  RetriesBounded
PROPERTIES
  EveryMessageEnds
  StopEnds
