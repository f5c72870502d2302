SPECIFICATION Spec
CONSTANTS
  Assets = {a1}
  Customers = {c1}
  Locations = {l1, l2}
  Actors = {u1, u2}
  Corrections = {k1, k2}
  Outcomes = {"confirmed_lost", "found"}
  MaxMovements = 4
  MaxLosses = 2
  None = None
SYMMETRY Symmetry
INVARIANTS
  HeldByActiveCustomers
  InUseAtActiveLocations
  MovementsExplainAssets
  LostAssetsAreRecoverable
PROPERTIES
  DisposalIsEvidenced
  ImplementsLedger
CHECK_DEADLOCK FALSE
