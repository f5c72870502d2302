SPECIFICATION Spec
CONSTANTS
  Serialized = {"LAPTOP"}
  None = None
  Orders = {"PO1", "PO2"}
  LineIds = {"L1", "L2", "L3"}
  RowIds = {"D1", "D2"}
  OrderDocuments <- TwoOrders
  Notes <- ManyNotes
  Suppliers = {"SUP"}
  Skus = {"MOUSE", "LAPTOP"}
  Locations = {"STORE"}
  Serials = {"SN1", "SN2"}
  Actors = {u1}
  StagingIds = {s1, s2}
  ReceiptIds = {r1, r2}
  r1 = r1
  r2 = r2
  s1 = s1
  s2 = s2
  u1 = u1
  u2 = u2
  MaxUnits = 2
  MaxCopies = 2
  Switched = {"SUP", "MOUSE", "STORE"}
CHECK_DEADLOCK FALSE
SYMMETRY Symmetry
INVARIANTS
  NeverOverReceived
  GoodsMatchUnlessStopped
  OrderStatusDerived
  AppliedIffConfirmed
  AwaitedGoodsAreActive
  GoodsLieAtActiveLocations
PROPERTIES
  AssetsStayPutAway
  ImplementsFulfilment
