SPECIFICATION FairSpec
CONSTANTS
  Requests = {r1, r2}
  Users = {u1, u2}
  Keys = {k1, k2}
  Carts = {c1, c2}
  Products = {1, 2}
  r1 = r1
  r2 = r2
  u1 = u1
  u2 = u2
  c1 = c1
  c2 = c2
  k1 = k1
  k2 = k2
  CartOwner <- MCCartOwner
  Calls <- MCCalls
  Lines <- OneLine
  CartOf <- MCCartOf
  CartRows <- MCCartRows
  MaxQty = 1
  PoolMax = 3
  MaxRetries = 0
  QueueUrlSet = TRUE
  Workers = {w1}
  MaxBatch = 1
  MaxReceiveCount = 1
  DlqUrlSet = FALSE
  MaxFaults = 1
  None = None
  Placeholder = Placeholder
  Error = Error
  Invalid = Invalid
INVARIANTS
  NoStrayLocks
  UnitsConserved
PROPERTIES
  ImplementsShop
  EveryCallAnswered
  EveryEventEnds
