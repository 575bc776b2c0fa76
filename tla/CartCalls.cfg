SPECIFICATION Spec
CONSTANTS
  Requests = {r1, r2, r3}
  Users = {u1, u2}
  Carts = {c1, c2, c3}
  Products = {p1}
  u1 = u1
  u2 = u2
  c1 = c1
  c2 = c2
  c3 = c3
  p1 = p1
  CartOwner <- MCCartOwner
  Calls <- MCCalls
  MaxQty = 4
  None = None
SYMMETRY Symmetry
INVARIANTS
  TypeOK
  OneOpenCartPerUser
  ConflictOnlyAfterCheckout
  UnitsAccounted
