----------------------------- MODULE MCPoImport -----------------------------
(***************************************************************************)
(* Two workbooks that share a PO number, and two confirm requests.         *)
(***************************************************************************)
EXTENDS PoImport, TLC

CONSTANTS r1, r2, n1, n2

MCFile == (r1 :> {n1, n2}) @@ (r2 :> {n2})
=============================================================================
