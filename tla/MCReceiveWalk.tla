--------------------------- MODULE MCReceiveWalk ---------------------------
(***************************************************************************)
(* One loose pull that wants item X, and three POs with it on four lines.  *)
(***************************************************************************)
EXTENDS ReceiveWalk, TLC

CONSTANTS p2, i2, A, B, D, a1, a2, b1, d1

MCItemPull == i2 :> p2
MCItemCode == i2 :> "X"
MCPullWarehouse == p2 :> "BKK"
MCPoWarehouse == [o \in PO |-> "BKK"]
MCPoNumber == (A :> 1) @@ (B :> 2) @@ (D :> 3)
MCNoPull == [o \in PO |-> NoPull]
MCLinePo == (a1 :> A) @@ (a2 :> A) @@ (b1 :> B) @@ (d1 :> D)
MCLineNumber == [l \in Line |-> IF l = a2 THEN 2 ELSE 1]
MCLineItemCode == [l \in Line |-> "X"]
============================================================================
