SPECIFICATION Spec
CONSTANTS
  Workers = {w1, w2}
  Messages = {m1, m2, m3}
  Orders = {o1, o2}
  Products = {1, 2}
  m1 = m1
  m2 = m2
  m3 = m3
  o1 = o1
  o2 = o2
  MsgOrder <- Duplicate
  OrderItems <- Crosswise
  MaxQty = 1
  MaxBatch = 1
  MaxReceiveCount = 1
  DlqUrlSet = TRUE
  MaxFaults = 1
  None = None
  Invalid = Invalid
SYMMETRY Symmetry
INVARIANTS
  TypeOK
  NoneLost
PROPERTIES
  SettledOnce
  ImplementsSettlement
