---------------------------- MODULE MCReceiving ----------------------------
(***************************************************************************)
(* A small warehouse for Receiving.  Pull p1 is strict (LockPoByPull and   *)
(* LockHourCap, the defaults) and p2 is loose; both want item code X.  PO  *)
(* A was imported under the number of p1 and PO B is linked to no pull, so *)
(* p2 may draw on both POs and p1 on A alone.                              *)
(***************************************************************************)
EXTENDS Receiving, TLC

CONSTANTS p1, p2, i1, i2, A, B, a1, a2, b1

MCItemPull == (i1 :> p1) @@ (i2 :> p2)
MCItemCode == [i \in Item |-> "X"]
MCPullWarehouse == [p \in Pull |-> "BKK"]
MCPoWarehouse == [o \in PO |-> "BKK"]
MCPoNumber == (A :> 1) @@ (B :> 2)
MCPoPull == [o \in PO |-> NoPull]
MCPoExternalRef == (A :> p1) @@ (B :> NoPull)
MCLinePo == [l \in Line |-> IF l = b1 THEN B ELSE A]
MCLineNumber == [l \in Line |-> IF l = a2 THEN 2 ELSE 1]
MCLineItemCode == [l \in Line |-> IF l = a2 THEN "Y" ELSE "X"]
============================================================================
