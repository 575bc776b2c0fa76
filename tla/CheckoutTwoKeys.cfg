SPECIFICATION Spec
CONSTANTS
  Requests = {r1, r2}
  Users = {u1, u2}
  Keys = {k1, k2}
  Carts = {c1, c2}
  Products = {1}
  u1 = u1
  u2 = u2
  c1 = c1
  c2 = c2
  k1 = k1
  k2 = k2
  CartOwner <- MCCartOwner
  Calls <- TwoKeyCalls
  Lines <- OneLine
  MaxQty = 2
  PoolMax = 4
  MaxRetries = 0
  QueueUrlSet = TRUE
  None = None
  Placeholder = Placeholder
  Error = Error
PROPERTIES
  OrderFromOpenCart
