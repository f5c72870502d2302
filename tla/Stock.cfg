SPECIFICATION Spec
CONSTANTS
  Skus = {"MOUSE"}
  Locations = {"STORE", "DESK"}
  Customers = {"EMP1"}
  Actors = {u1}
  ReservationIds = {r1, r2}
  CountIds = {n1}
  r1 = r1
  r2 = r2
  n1 = n1
  n2 = n2
  u1 = u1
  u2 = u2
  MaxQuantity = 2
  MaxRows = 2
  Switched = {"MOUSE", "EMP1", "DESK"}
  None = None
SYMMETRY Symmetry
INVARIANTS
  ReservedIsHeld
  ReservedCovered
  LedgerExplainsStock
  StagedCountsApplyOnce
PROPERTY ImplementsClaims
