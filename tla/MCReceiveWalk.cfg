CONSTANTS
  p2 = p2 i2 = i2 A = A B = B D = D a1 = a1 a2 = a2 b1 = b1 d1 = d1
  NoPull = NoPull NoReceipt = NoReceipt
  Pull = {p2} Item = {i2} Hour = {8} PO = {A, B, D} Line = {a1, a2, b1, d1}
  ItemPull <- MCItemPull ItemCode <- MCItemCode
  PullWarehouse <- MCPullWarehouse PoWarehouse <- MCPoWarehouse
  LockPoByPull = {} LockHourCap = {}
  PoNumber <- MCPoNumber PoPull <- MCNoPull PoExternalRef <- MCNoPull
  LinePo <- MCLinePo LineNumber <- MCLineNumber LineItemCode <- MCLineItemCode
  WindowQty = {1} OrderQty = {1, 3} ReceiveQty = {2, 5} Dates = {1, 2}
  MaxCalls = 1 WalkItem = i2
SPECIFICATION WalkSpec
INVARIANTS PlanIsTake
PROPERTIES WalkEnds
CHECK_DEADLOCK FALSE
