SPECIFICATION Spec
CONSTANTS
  k1 = k1
  k2 = k2
  u1 = u1
  None = None
  Keys = {k1, k2}
  UrlKeys = {u1}
  UrlOf <- SharedUrl
  Limited = {k1}
  Limit <- Limits
  Expiring = {k1}
  Downloads = {d1, d2}
  DbFails = FALSE
  MaxRestarts = 0
SYMMETRY Interchangeable
CHECK_DEADLOCK FALSE
INVARIANT AccessReturns
