SPECIFICATION Spec
CONSTANTS
  i1 = i1
  i2 = i2
  r1 = r1
  r2 = r2
  e3 = e3
  e1 = e1
  e2 = e2
  Instance = {i1, i2}
  Request = {r1, r2}
  Endpoint = {e1, e2, e3}
  Initial <- MCInitial
  MaxId = 3
  MaxFaults = 1
CHECK_DEADLOCK FALSE
INVARIANTS OpenExactlyInUse RoutesFresh
PROPERTIES ImplementsCatalog
SYMMETRY Symmetry
