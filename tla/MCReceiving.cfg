CONSTANTS
  p1 = p1 p2 = p2 i1 = i1 i2 = i2 A = A B = B a1 = a1 a2 = a2 b1 = b1
  NoPull = NoPull NoReceipt = NoReceipt
  Pull = {p1, p2} Item = {i1, i2} Hour = {8} PO = {A, B} Line = {a1, a2, b1}
  ItemPull <- MCItemPull ItemCode <- MCItemCode
  PullWarehouse <- MCPullWarehouse PoWarehouse <- MCPoWarehouse
  LockPoByPull = {p1} LockHourCap = {p1}
  PoNumber <- MCPoNumber PoPull <- MCPoPull PoExternalRef <- MCPoExternalRef
  LinePo <- MCLinePo LineNumber <- MCLineNumber LineItemCode <- MCLineItemCode
  WindowQty = {1, 3} OrderQty = {2} ReceiveQty = {1, 3} Dates = {1, 2}
  MaxCalls = 3
SPECIFICATION Spec
INVARIANTS TypeOK LinesBalance WindowsBalance CapacityRespected HourCapRespected
  ReversalsPair AutoClosedIsFull ClosedPullComplete PendingIsUntouched LiveReceiptsHaveRows
PROPERTIES ClosedPullFrozen AppendOnly OldestFirst
CHECK_DEADLOCK FALSE
