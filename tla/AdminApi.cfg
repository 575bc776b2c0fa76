SPECIFICATION Spec
CONSTANTS
  Roles = {"admin", "user"}
  Secrets = {s1, s2}
  Unset = Unset
  ExpiresIn = 2
  TicksPerSecond = 2
  MaxClock = 5
  MaxTokens = 1
  c1 = c1
  p0 = p0
  Calls = {c1, c2}
  Ids = {p0, c1, c2}
  Inputs <- MCInputs
  OldRow <- MCOldRow
  OldQty = 1
  MaxQty = 3
  None = None
INVARIANTS
  TokenLifetime
  EveryProductStocked
  PatchesKept
  RestocksAddUp
