SPECIFICATION Spec
CONSTANTS
  k1 = k1
  k2 = k2
  u1 = u1
  e1 = e1
  e2 = e2
  None = None
  Keys = {k1, k2}
  UrlKeys = {u1}
  UrlOf <- SharedUrl
  Limited = {k1}
  Limit <- Limits
  Expiring = {k1}
  Downloads = {d1, d2}
  UnlockKeys = {e1, e2, e3}
  ValidKeys <- TwoValid
  NetFails = TRUE
  MaxRestarts = 1
SYMMETRY Interchangeable
CHECK_DEADLOCK FALSE
INVARIANTS
  CountedAtMostOnce
  CountsAreExact
  UsedUpIsLeaving
  GoneForCause
