SPECIFICATION Spec
CONSTANTS
  Serialized = {"LAPTOP"}
  None = None
  Orders = {"PO1"}
  LineIds = {"L1"}
  RowIds = {"D1", "D2"}
  OrderDocuments <- OneOrder
  Notes <- SerializedNotes
  Suppliers = {"SUP"}
  Skus = {"LAPTOP"}
  Locations = {"STORE"}
  Serials = {"SN1", "SN2"}
  Actors = {u1}
  StagingIds = {s1}
  ReceiptIds = {r1, r2}
  r1 = r1
  r2 = r2
  s1 = s1
  s2 = s2
  u1 = u1
  u2 = u2
  MaxUnits = 2
  MaxCopies = 2
  Switched = {}
CHECK_DEADLOCK FALSE
SYMMETRY Symmetry
INVARIANT OrdersMatchGoods
