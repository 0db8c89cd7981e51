---------------------------- MODULE UpsertProofs ----------------------------
(***************************************************************************)
(* Proofs about ErpUpsert, for any items, hours and rows of the ERP, and   *)
(* any number of days and faults.                                          *)
(***************************************************************************)
EXTENDS ErpUpsert

(* What the variables hold, and what a pull that is not there yet lacks.   *)
Types ==
    /\ erp \subseteq Row /\ today \in 0 .. MaxDay /\ faults \in Nat
    /\ pull \in {"none", "open", "closed"}
    /\ item \in [Item -> {"none", "normal", "canceled"}]
    /\ expected \in [Window -> Nat] /\ received \in [Window -> Nat]
Untouched ==
    pull = "none" => (\A i \in Item : item[i] = "none") /\ \A w \in Window : received[w] = 0

UpsertInv == Types /\ Untouched /\ TypeOK /\ CapKept /\ SignedStands /\ Idempotent

-----------------------------------------------------------------------------
(* The draft has a number of pieces for every window, and none for an item *)
(* it does not have.                                                       *)
LEMMA DraftType ==
  ASSUME ErpUpsertAssumption, Types
  PROVE  /\ Draft \in [Window -> Nat]
         /\ \A w \in Window : w[1] \notin DraftItems => Draft[w] = 0
         /\ DraftItems \subseteq Item
<1> DEFINE q == [r \in Row |-> r.qty]
<1>1. ASSUME NEW w \in Window
      PROVE  SumOf(RowsOf(w), q) \in Nat
  <2>1. RowsOf(w) \subseteq Row /\ IsFiniteSet(RowsOf(w))
    BY FS_Subset DEF RowsOf, Recent, Types, ErpUpsertAssumption
  <2>2. \A r \in RowsOf(w) : q[r] \in Int
    BY <2>1 DEF ErpUpsertAssumption
  <2> QED
    BY <2>1, <2>2, SumType
<1>2. ASSUME NEW w \in Window, w[1] \notin DraftItems
      PROVE  Draft[w] = 0
  <2>1. RowsOf(w) = {}
    BY <1>2 DEF RowsOf, DraftItems
  <2> QED
    BY <2>1, SumEmpty DEF Draft
<1>3. DraftItems \subseteq Item
  BY DEF DraftItems, Recent, Types, ErpUpsertAssumption
<1> QED
  BY <1>1, <1>2, <1>3 DEF Draft

(* The draft depends on the ERP and the day only.                          *)
LEMMA DraftStays ==
  ASSUME erp' = erp, today' = today
  PROVE  Draft' = Draft /\ DraftItems' = DraftItems
BY DEF Draft, DraftItems, RowsOf, Recent, HourOf

(* What an upsert plans covers the draft and what was received.            *)
LEMMA PlanType ==
  ASSUME ErpUpsertAssumption, Types
  PROVE  /\ SyncWindows \in [Window -> Nat]
         /\ \A w \in Window : Draft[w] > 0 => SyncWindows[w] >= received[w] /\ SyncWindows[w] >= Draft[w]
         /\ \A w \in Window : ~(Draft[w] > 0) => SyncWindows[w] = expected[w]
         /\ Statuses \in [Item -> {"none", "normal", "canceled"}]
BY DraftType DEF SyncWindows, SafeQty, Greatest, Statuses, Types

-----------------------------------------------------------------------------
LEMMA UpsertInit == ErpUpsertAssumption /\ Init => UpsertInv
<1> SUFFICES ASSUME ErpUpsertAssumption, Init
             PROVE  UpsertInv
  OBVIOUS
<1>1. Types /\ Untouched /\ TypeOK /\ CapKept /\ SignedStands
  BY DEF ErpUpsertAssumption, Init, Types, Untouched, TypeOK, CapKept, SignedStands
<1>2. Idempotent
  BY DEF Init, Idempotent, Nothing
<1> QED
  BY <1>1, <1>2 DEF UpsertInv

(* What another action than an update reports, a sync of the same draft    *)
(* need not repeat.                                                        *)
LEMMA NotUpdated ==
  ASSUME \/ last' = Nothing
         \/ last'.outcome \in {"created", "skipped-closed", "error"}
  PROVE  Idempotent'
BY DEF Idempotent, Nothing

(* The update: what it writes is what it would write again.                *)
LEMMA UpdateStep ==
  ASSUME ErpUpsertAssumption, UpsertInv, UpdatePull
  PROVE  UpsertInv'
<1> USE DEF UpdatePull, Revisable
<1>1. Types /\ Types'
  BY PlanType DEF UpsertInv, Types
<1>2. Untouched'
  BY DEF Untouched
<1>3. TypeOK'
  <2>1. \A w \in Window : item'[w[1]] = "none" => w[1] \notin DraftItems /\ item[w[1]] = "none"
    BY DEF Statuses, Window
  <2>2. \A w \in Window : item'[w[1]] = "none" => expected'[w] = 0
    BY <2>1, <1>1, DraftType, PlanType DEF UpsertInv, TypeOK
  <2> QED
    BY <1>1, <2>2 DEF Types, TypeOK
<1>4. CapKept'
  BY <1>1, DraftType, PlanType DEF UpsertInv, CapKept, Types
<1>5. SignedStands'
  BY DEF SignedStands
<1>6. Idempotent'
  <2>1. Draft' = Draft /\ DraftItems' = DraftItems
    BY DraftStays
  <2>2. Statuses' = item'
    <3>1. Statuses' = [i \in Item |-> item'[i]]
      BY <2>1 DEF Statuses
    <3> QED
      BY <3>1, <1>1 DEF Types
  <2>3. SyncWindows' = expected'
    <3>1. SyncWindows' = [w \in Window |-> expected'[w]]
      BY <2>1 DEF SyncWindows, SafeQty
    <3> QED
      BY <3>1, <1>1 DEF Types
  <2>4. Added' = {} /\ Canceled' = {}
    BY <2>1, <1>1, DraftType DEF Added, Canceled, Statuses
  <2> QED
    BY <2>2, <2>3, <2>4 DEF Idempotent
<1> QED
  BY <1>1, <1>2, <1>3, <1>4, <1>5, <1>6 DEF UpsertInv

LEMMA UpsertStep == ErpUpsertAssumption /\ UpsertInv /\ [Next]_vars => UpsertInv'
<1> SUFFICES ASSUME ErpUpsertAssumption, UpsertInv, [Next]_vars
             PROVE  UpsertInv'
  OBVIOUS
<1> USE DEF UpsertInv, Types, Untouched, TypeOK, CapKept, SignedStands
<1>1. CASE InsertPull
  <2>1. Types'
    BY <1>1, DraftType, PlanType DEF InsertPull
  <2>2. \A w \in Window : item'[w[1]] = "none" => w[1] \notin DraftItems
    BY <1>1 DEF InsertPull, Statuses, Window
  <2>3. \A w \in Window : item'[w[1]] = "none" => expected'[w] = 0
    BY <1>1, <2>2, DraftType DEF InsertPull
  <2>4. \A w \in Window : received'[w] =< expected'[w]
    BY <1>1, DraftType DEF InsertPull
  <2>5. Idempotent'
    BY <1>1, NotUpdated DEF InsertPull, Nothing
  <2> QED
    BY <1>1, <2>1, <2>3, <2>4, <2>5 DEF InsertPull
<1>2. CASE UpdatePull
  BY <1>2, UpdateStep
<1>3. CASE SkipClosed
  <2>1. Idempotent'
    BY <1>3, NotUpdated DEF SkipClosed, Nothing
  <2> QED
    BY <1>3, <2>1 DEF SkipClosed
<1>4. CASE UpsertFails
  <2>1. Idempotent'
    BY <1>4, NotUpdated DEF UpsertFails
  <2> QED
    BY <1>4, <2>1 DEF UpsertFails
<1>5. CASE NextDay
  <2>1. Idempotent'
    BY <1>5, NotUpdated DEF NextDay
  <2>2. today + 1 \in 0 .. MaxDay
    BY <1>5 DEF NextDay, ErpUpsertAssumption
  <2> QED
    BY <1>5, <2>1, <2>2 DEF NextDay
<1>6. CASE ClosePull
  <2>1. Idempotent'
    BY <1>6, NotUpdated DEF ClosePull, Operates
  <2> QED
    BY <1>6, <2>1 DEF ClosePull, Operates
<1>7. CASE ReopenPull
  <2>1. Idempotent'
    BY <1>7, NotUpdated DEF ReopenPull
  <2> QED
    BY <1>7, <2>1 DEF ReopenPull
<1>8. ASSUME NEW r \in Row, ReviseErp(r)
      PROVE  UpsertInv'
  <2>1. Idempotent'
    BY <1>8, NotUpdated DEF ReviseErp
  <2> QED
    BY <1>8, <2>1 DEF ReviseErp
<1>9. ASSUME NEW w \in Window, Receive(w)
      PROVE  UpsertInv'
  <2>1. Idempotent'
    BY <1>9, NotUpdated DEF Receive, Operates
  <2> QED
    BY <1>9, <2>1 DEF Receive, Operates
<1>10. ASSUME NEW w \in Window, Cancel(w)
       PROVE  UpsertInv'
  <2>1. Idempotent'
    BY <1>10, NotUpdated DEF Cancel, Operates
  <2> QED
    BY <1>10, <2>1 DEF Cancel, Operates
<1>11. ASSUME NEW w \in Window, DeleteWindow(w)
       PROVE  UpsertInv'
  <2>1. Idempotent'
    BY <1>11, NotUpdated DEF DeleteWindow, Operates
  <2> QED
    BY <1>11, <2>1 DEF DeleteWindow, Operates
<1>12. ASSUME NEW i \in Item, NEW status \in {"normal", "canceled"}, SetStatus(i, status)
       PROVE  UpsertInv'
  <2>1. Idempotent'
    BY <1>12, NotUpdated DEF SetStatus, Operates
  <2>2. \A w \in Window : w[1] \in Item
    BY DEF Window
  <2> QED
    BY <1>12, <2>1, <2>2 DEF SetStatus, Operates
<1>13. CASE UNCHANGED vars
  <2>1. Draft' = Draft /\ DraftItems' = DraftItems
    BY <1>13, DraftStays DEF vars
  <2>2. Idempotent'
    BY <1>13, <2>1 DEF vars, Idempotent, Statuses, SyncWindows, SafeQty, Added, Canceled
  <2> QED
    BY <1>13, <2>2 DEF vars
<1> QED
  BY <1>1, <1>2, <1>3, <1>4, <1>5, <1>6, <1>7, <1>8, <1>9, <1>10, <1>11, <1>12, <1>13
  DEF Next, Upsert

-----------------------------------------------------------------------------
LEMMA UpsertInvariant ==
  ASSUME ErpUpsertAssumption
  PROVE  Spec => []UpsertInv
<1>1. Init => UpsertInv
  BY UpsertInit
<1>2. UpsertInv /\ [Next]_vars => UpsertInv'
  BY UpsertStep
<1> QED
  BY <1>1, <1>2, PTL DEF Spec

(* The types, and no window plans pieces of an item the pull does not      *)
(* have.                                                                   *)
THEOREM UpsertTypeCorrect ==
  ASSUME ErpUpsertAssumption
  PROVE  Spec => []TypeOK
<1>1. UpsertInv => TypeOK
  BY DEF UpsertInv
<1> QED
  BY <1>1, UpsertInvariant, PTL

(* Whatever the ERP revises while pieces are received under the hour cap,  *)
(* no window plans less than was received.                                 *)
THEOREM CapCorrect ==
  ASSUME ErpUpsertAssumption
  PROVE  Spec => []CapKept
<1>1. UpsertInv => CapKept
  BY DEF UpsertInv
<1> QED
  BY <1>1, UpsertInvariant, PTL

(* A signed pull has no window short until it is reopened.                 *)
THEOREM SignedCorrect ==
  ASSUME ErpUpsertAssumption
  PROVE  Spec => []SignedStands
<1>1. UpsertInv => SignedStands
  BY DEF UpsertInv
<1> QED
  BY <1>1, UpsertInvariant, PTL

(* A sync of an unchanged ERP over an unchanged pull changes nothing.      *)
THEOREM IdempotentCorrect ==
  ASSUME ErpUpsertAssumption
  PROVE  Spec => []Idempotent
<1>1. UpsertInv => Idempotent
  BY DEF UpsertInv
<1> QED
  BY <1>1, UpsertInvariant, PTL

LEMMA KeepsStep == UpsertInv /\ [Next]_vars => [KeepsCanceled]_vars
<1> SUFFICES ASSUME UpsertInv, Upsert, NEW i \in Item, item[i] = "canceled"
             PROVE  item'[i] = "canceled"
  BY DEF KeepsCanceled, Upsert
<1>1. pull # "none"
  BY DEF UpsertInv, Untouched
<1> QED
  BY <1>1 DEF Upsert, InsertPull, UpdatePull, SkipClosed, Statuses

(* An item that is canceled stays so until an operator says otherwise,     *)
(* whatever the ERP sends.                                                 *)
THEOREM CanceledCorrect ==
  ASSUME ErpUpsertAssumption
  PROVE  Spec => CanceledByOperator
<1>1. UpsertInv /\ [Next]_vars => [KeepsCanceled]_vars
  BY KeepsStep
<1> QED
  BY <1>1, UpsertInvariant, PTL DEF Spec, CanceledByOperator
=============================================================================
