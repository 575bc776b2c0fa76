SPECIFICATION Spec
CONSTANTS
  Workers = {w1}
  Messages = {m1}
  Orders = {o1}
  Products = {1}
  m1 = m1
  m2 = m2
  m3 = m3
  o1 = o1
  o2 = o2
  MsgOrder <- OneMessage
  OrderItems <- OneItem
  MaxQty = 1
  MaxBatch = 2
  MaxReceiveCount = 2
  DlqUrlSet = TRUE
  MaxFaults = 3
  None = None
  Invalid = Invalid
PROPERTIES
  ParkedOrdersUnsettled
