SPECIFICATION Spec
CONSTANTS
  root = root
  x1 = x1
  x2 = x2
  x3 = x3
  i0 = i0
  i1 = i1
  i2 = i2
  a0 = a0
  a1 = a1
  a2 = a2
  n0 = n0
  n1 = n1
  n2 = n2
  None = None
  Root = root
  NewUsers = {x1, x2, x3}
  Ids = {i0, i1, i2}
  ApiKeys = {a0, a1, a2}
  Names = {n0, n1, n2}
  IdOf <- IdsOf
  ApiKeyOf <- ApiKeysOf
  NameOf <- NamesOf
  Creators = {root, x1}
  Uploaders = {root, x2}
  Checks = {q1}
  Deletes = {y1, y2}
SYMMETRY Interchangeable
CHECK_DEADLOCK FALSE
INVARIANTS
  CreatedIsFound
  LeadsToSomebody
  CreatedApart
  ActsForItself
  FailedIsNotCreated
