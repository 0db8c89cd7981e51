---------------------------- MODULE PagesProofs -----------------------------
(***************************************************************************)
(* Proofs about the pages whose answers overtake each other.               *)
(***************************************************************************)
EXTENDS PageCalls, FiniteSetTheorems, WellFoundedInduction, TLAPS

(* One or none.                                                            *)
LEMMA OneOrNone ==
  ASSUME NEW S, \A x, y \in S : x = y
  PROVE  Cardinality(S) =< 1
<1>1. CASE S = {}
  BY <1>1, FS_EmptySet
<1>2. CASE S # {}
  <2>1. PICK x \in S : S = {x}
    BY <1>2
  <2> QED
    BY <2>1, FS_Singleton
<1> QED
  BY <1>1, <1>2

(* Something that is asked for by each of A finds one of B left for it.    *)
LEMMA Room ==
  ASSUME NEW A, NEW B, IsFiniteSet(A), IsFiniteSet(B), Cardinality(A) =< Cardinality(B)
  PROVE  /\ A # {} => B # {}
         /\ \A C \in SUBSET A : Cardinality(C) =< Cardinality(B)
         /\ \A a \in A, b \in B : Cardinality(A \ {a}) =< Cardinality(B \ {b})
<1>1. Cardinality(A) \in Nat /\ Cardinality(B) \in Nat
  BY FS_CardinalityType
<1>2. ASSUME NEW C \in SUBSET A
      PROVE  Cardinality(C) =< Cardinality(B)
  <2>1. IsFiniteSet(C) /\ Cardinality(C) =< Cardinality(A)
    BY FS_Subset
  <2>2. Cardinality(C) \in Nat
    BY <2>1, FS_CardinalityType
  <2> QED
    BY <1>1, <2>1, <2>2
<1>3. A # {} => B # {}
  BY <1>1, FS_EmptySet
<1>4. ASSUME NEW a \in A, NEW b \in B
      PROVE  Cardinality(A \ {a}) =< Cardinality(B \ {b})
  <2>1. Cardinality(A \ {a}) = Cardinality(A) - 1
    BY FS_RemoveElement
  <2>2. Cardinality(B \ {b}) = Cardinality(B) - 1
    BY FS_RemoveElement
  <2> QED
    BY <1>1, <2>1, <2>2
<1> QED
  BY <1>2, <1>3, <1>4

LEMMA RoomForOne ==
  ASSUME NEW A, NEW B, IsFiniteSet(A), IsFiniteSet(B), Cardinality(A) < Cardinality(B), NEW a
  PROVE  Cardinality(A \cup {a}) =< Cardinality(B)
<1>1. Cardinality(A) \in Nat /\ Cardinality(B) \in Nat
  BY FS_CardinalityType
<1>2. Cardinality(A \cup {a}) = IF a \in A THEN Cardinality(A) ELSE Cardinality(A) + 1
  BY FS_AddElement
<1> QED
  BY <1>1, <1>2


-----------------------------------------------------------------------------
LEMMA CancelInit == Cancel!Init => Cancel!CancelInv
BY DEF Cancel!Init, Cancel!CancelInv, Cancel!ModalHasTarget, Cancel!NoPost

LEMMA CancelStep ==
  ASSUME Cancel!TxCancelAssumption, Cancel!CancelInv, [Cancel!Next]_(Cancel!vars)
  PROVE  Cancel!CancelInv' /\ Cancel!PostsShown
<1> USE DEF Cancel!CancelInv, Cancel!ModalHasTarget, Cancel!PostsShown
<1>1. ASSUME NEW r \in Receipt, Cancel!OpenCancelModal(r)
      PROVE  Cancel!CancelInv' /\ Cancel!PostsShown
  BY <1>1 DEF Cancel!OpenCancelModal, Cancel!Target
<1>2. ASSUME NEW r \in Receipt, Cancel!SomebodyCancels(r)
      PROVE  Cancel!CancelInv' /\ Cancel!PostsShown
  BY <1>2 DEF Cancel!SomebodyCancels, Cancel!Accepts
<1>3. CASE Cancel!Dismiss
  BY <1>3 DEF Cancel!Dismiss
<1>4. CASE Cancel!ConfirmCancel
  BY <1>4 DEF Cancel!ConfirmCancel
<1>5. CASE Cancel!ServeCancel
  BY <1>5 DEF Cancel!ServeCancel, Cancel!Accepts
<1>6. CASE Cancel!Cancelled
  BY <1>6 DEF Cancel!Cancelled, Cancel!AfterDone, Cancel!NoPost
<1>7. CASE Cancel!Refused \/ Cancel!Lost
  BY <1>7 DEF Cancel!Refused, Cancel!Lost, Cancel!NoPost
<1>8. CASE Cancel!ListAnswered \/ Cancel!Refresh
  BY <1>8 DEF Cancel!ListAnswered, Cancel!Refresh
<1>9. CASE UNCHANGED Cancel!vars
  BY <1>9 DEF Cancel!vars
<1> QED
  BY <1>1, <1>2, <1>3, <1>4, <1>5, <1>6, <1>7, <1>8, <1>9 DEF Cancel!Next, Cancel!Settles

-----------------------------------------------------------------------------
LEMMA AskedInit == MastersRacing!Init => MastersRacing!AskedInv
BY DEF MastersRacing!Init, MastersRacing!AskedInv

LEMMA AskedStep ==
  ASSUME MastersRacing!AskedInv, [MastersRacing!Next]_(MastersRacing!vars)
  PROVE  MastersRacing!AskedInv'
<1> USE DEF MastersRacing!AskedInv
<1>1. ASSUME NEW x \in MastersRacing!Record, MastersRacing!AskDelete(x)
      PROVE  MastersRacing!AskedInv'
  BY <1>1 DEF MastersRacing!AskDelete
<1>2. CASE MastersRacing!ConfirmOk
  <2>1. m5' = [state |-> "fading", callback |-> None]
    BY <1>2 DEF MastersRacing!ConfirmOk
  <2>2. m6' = IF m5.callback = None THEN m6 ELSE m6 + 1
    BY <1>2 DEF MastersRacing!ConfirmOk
  <2> QED
    BY <2>1, <2>2
<1>3. CASE MastersRacing!ConfirmDismiss \/ MastersRacing!Faded
  BY <1>3 DEF MastersRacing!ConfirmDismiss, MastersRacing!Faded
<1>4. CASE UNCHANGED <<m5, m6>>
  BY <1>4
<1>5. ASSUME NEW r \in m7,
             \/ MastersRacing!Serve(r) \/ MastersRacing!Answer(r)
             \/ MastersRacing!Refused(r) \/ MastersRacing!Lose(r)
      PROVE  UNCHANGED <<m5, m6>>
  BY <1>5 DEF MastersRacing!Serve, MastersRacing!Answer, MastersRacing!Refused, MastersRacing!Lose
<1>6. ASSUME NEW x,
             \/ MastersRacing!OpenUserModal(x) \/ MastersRacing!OpenWarehouseModal(x)
             \/ MastersRacing!Tick(x)
      PROVE  UNCHANGED <<m5, m6>>
  BY <1>6 DEF MastersRacing!OpenUserModal, MastersRacing!OpenWarehouseModal, MastersRacing!Tick
<1>7. ASSUME \/ MastersRacing!Dismiss \/ MastersRacing!Save \/ MastersRacing!FilterUsers
             \/ MastersRacing!FilterHouses \/ MastersRacing!SomebodyEdits
             \/ UNCHANGED MastersRacing!vars
      PROVE  UNCHANGED <<m5, m6>>
  BY <1>7 DEF MastersRacing!Dismiss, MastersRacing!Save, MastersRacing!FilterUsers,
     MastersRacing!FilterHouses, MastersRacing!SomebodyEdits, MastersRacing!vars
<1> QED
  BY <1>1, <1>2, <1>3, <1>4, <1>5, <1>6, <1>7 DEF MastersRacing!Next

-----------------------------------------------------------------------------
LEMMA SavingInit == Form!Init => Form!SavingInv
BY DEF Form!Init, Form!SavingInv, Form!Saving

LEMMA SavingStep ==
  ASSUME Form!SavingInv, [Form!Next]_(Form!vars)
  PROVE  Form!SavingInv'
<1> USE DEF Form!SavingInv, Form!Saving
<1>1. ASSUME NEW p \in Pulls, Form!OpenDrawer(p)
      PROVE  Form!SavingInv'
  BY <1>1 DEF Form!OpenDrawer
<1>2. CASE Form!CloseDrawer \/ Form!Dismiss
  BY <1>2 DEF Form!CloseDrawer, Form!Dismiss
<1>3. ASSUME NEW p, Form!Start(p)
      PROVE  Form!SavingInv'
  BY <1>3 DEF Form!Start, Form!Fill, Form!FillForNew, Form!FillForEdit, Form!Request
<1>4. CASE Form!Save
  <2>1. PICK q : q.kind = "save" /\ {"kind", "state"} \subseteq DOMAIN q /\ m9' = m9 \cup {q}
    BY <1>4 DEF Form!Save, Form!Request
  <2> QED
    BY <1>4, <2>1 DEF Form!Save
<1>5. ASSUME NEW r \in m9, Form!Serve(r) \/ Form!Lose(r)
      PROVE  Form!SavingInv'
  <2>1. PICK s : m9' = (m9 \ {r}) \cup {[r EXCEPT !.state = s]}
    BY <1>5 DEF Form!Serve, Form!Lose
  <2> DEFINE q == [r EXCEPT !.state = s]
  <2>2. q.kind = r.kind /\ {"kind", "state"} \subseteq DOMAIN q
    OBVIOUS
  <2>3. m9' = (m9 \ {r}) \cup {q} /\ m8' = m8
    BY <1>5, <2>1 DEF Form!Serve, Form!Lose
  <2> HIDE DEF q
  <2> QED
    BY <2>2, <2>3
<1>6. ASSUME NEW r \in m9, Form!WarehousesAnswer(r)
      PROVE  Form!SavingInv'
  BY <1>6 DEF Form!WarehousesAnswer
<1>7. ASSUME NEW r \in m9, Form!SaveAnswer(r)
      PROVE  Form!SavingInv'
  <2>1. CASE r.state = "ok"
    <3>1. PICK q : q.kind = "load" /\ {"kind", "state"} \subseteq DOMAIN q
                   /\ m9' = (m9 \ {r}) \cup {q}
      BY <1>7, <2>1 DEF Form!SaveAnswer, Form!Request
    <3> QED
      BY <1>7, <2>1, <3>1 DEF Form!SaveAnswer, Form!ComesBack
  <2>2. CASE r.state # "ok"
    BY <1>7, <2>2 DEF Form!SaveAnswer, Form!ComesBack
  <2> QED
    BY <2>1, <2>2
<1>8. ASSUME NEW r \in m9, Form!LoadAnswer(r)
      PROVE  Form!SavingInv'
  BY <1>8 DEF Form!LoadAnswer
<1>9. CASE UNCHANGED Form!vars
  BY <1>9 DEF Form!vars
<1> QED
  BY <1>1, <1>2, <1>3, <1>4, <1>5, <1>6, <1>7, <1>8, <1>9 DEF Form!Next, Form!User, Form!Answer,
     Form!OpenCreate, Form!OpenEdit

-----------------------------------------------------------------------------
LEMMA RenderedInit == Pages!PagerAssumption /\ Pages!Init => Pages!RenderedInv
BY DEF Pages!PagerAssumption, Pages!Init, Pages!RenderedInv, Pages!Render, Pages!TotalPagesOf,
   Pages!ClampPage, Pages!Hidden

LEMMA MaxOfTwo ==
  ASSUME NEW a \in Int, NEW b \in Int
  PROVE  /\ Pages!Max({a, b}) = IF a >= b THEN a ELSE b
         /\ Pages!Min({a, b}) = IF a =< b THEN a ELSE b
BY DEF Pages!Max, Pages!Min

LEMMA Clamped ==
  ASSUME NEW p \in Int, NEW pages \in Nat, pages >= 1
  PROVE  Pages!ClampPage(p, pages) = IF p < 1 THEN 1 ELSE IF p > pages THEN pages ELSE p
<1>1. Pages!ClampPage(p, pages) = Pages!Max({1, Pages!Min({pages, p})})
  BY DEF Pages!ClampPage
<1>2. Pages!Min({pages, p}) = IF pages =< p THEN pages ELSE p
  BY MaxOfTwo
<1> DEFINE m == Pages!Min({pages, p})
<1>3. Pages!Max({1, m}) = IF 1 >= m THEN 1 ELSE m
  BY <1>2, MaxOfTwo
<1> QED
  BY <1>1, <1>2, <1>3

LEMMA RenderedStep ==
  ASSUME Pages!PagerAssumption, Pages!RenderedInv, [Pages!Next]_(Pages!vars)
  PROVE  Pages!RenderedInv' /\ Pages!Moves
<1>1. ASSUME NEW p, Pages!HandleClick(p)
      PROVE  Pages!RenderedInv' /\ Pages!Moves
  <2> DEFINE n == Pages!TotalPagesOf(m3, m2)
             clamped == Pages!ClampPage(p, m4.pages)
  <2>1. n \in Nat
    BY DEF Pages!RenderedInv, Pages!TotalPagesOf
  <2>2. m4 = IF n =< 1 THEN Pages!Hidden
             ELSE [page |-> Pages!ClampPage(m1, n), pages |-> n,
                   window |-> Pages!PageWindow(Pages!ClampPage(m1, n), n)]
    BY DEF Pages!RenderedInv, Pages!Render
  <2>3. p \in Pages!Targets(m4)
    BY <1>1 DEF Pages!HandleClick
  <2>4. n > 1
    BY <2>1, <2>2, <2>3 DEF Pages!Targets, Pages!Hidden
  <2> DEFINE cur == Pages!ClampPage(m1, n)
  <2>5. cur \in 1 .. n
    BY <2>1, <2>4, Clamped DEF Pages!RenderedInv
  <2>6. m4.page = cur /\ m4.pages = n /\ m4.window = Pages!PageWindow(cur, n)
    BY <2>1, <2>2, <2>4
  <2> HIDE DEF cur, n
  <2>7. Pages!PageWindow(cur, n) \subseteq 1 .. n
    BY <2>1, <2>4, <2>5 DEF Pages!PageWindow
  <2>8. p \in 1 .. n /\ p # cur
    BY <2>1, <2>3, <2>4, <2>5, <2>6, <2>7 DEF Pages!Targets
  <2>9. clamped = p
    BY <2>1, <2>4, <2>6, <2>8, Clamped
  <2>10. m1' = p /\ m5' = p /\ m2' = m2 /\ m3' = m3 /\ m4' = Pages!Render(p, m2, m3)
    BY <1>1, <2>9 DEF Pages!HandleClick
  <2>11. Pages!ClampPage(p, n) = p
    BY <2>1, <2>4, <2>8, Clamped
  <2>12. m4'.page = p
    BY <2>1, <2>4, <2>10, <2>11 DEF Pages!Render, n
  <2> QED
    BY <2>1, <2>6, <2>8, <2>10, <2>12 DEF Pages!RenderedInv, Pages!Moves
<1>2. ASSUME NEW t \in 0 .. MaxTotal, NEW s \in PageSizes, Pages!Update(m1, s, t) \/ Pages!Update(1, s, t)
      PROVE  Pages!RenderedInv' /\ Pages!Moves
  BY <1>2 DEF Pages!Update, Pages!PagerAssumption, Pages!RenderedInv, Pages!Moves
<1>3. CASE UNCHANGED Pages!vars
  BY <1>3 DEF Pages!vars, Pages!RenderedInv, Pages!Moves
<1> QED
  BY <1>1, <1>2, <1>3 DEF Pages!Next

-----------------------------------------------------------------------------
(* The grid is changed by answers only.                                    *)
LEMMA CellsInit ==
  RecCells!PageAssumption /\ RecCells!Init => DOMAIN m2 = RecCells!Cell
BY DEF RecCells!PageAssumption, RecCells!Init, RecCells!Ingested, RecCells!Filled, RecCells!Extra

LEMMA CellsStep ==
  ASSUME DOMAIN m2 = RecCells!Cell, [RecCells!Next]_(RecCells!vars)
  PROVE  DOMAIN m2' = RecCells!Cell /\ RecCells!ChangesItsCell
<1>1. ASSUME NEW r \in m11, RecCells!ReceiveAnswer(r)
      PROVE  DOMAIN m2' = RecCells!Cell /\ RecCells!ChangesItsCell
  BY <1>1 DEF RecCells!ReceiveAnswer, RecCells!Reflected, RecCells!ChangesItsCell
<1>2. ASSUME NEW r \in m11, RecCells!CancelAnswer(r)
      PROVE  DOMAIN m2' = RecCells!Cell /\ RecCells!ChangesItsCell
  <2>1. CASE r.state = "ok"
    <3> DEFINE q == RecCells!NewRequest("journal", r.cell, 0, "cancel")
    <3>1. r.kind = "cancel" /\ m11' = (m11 \ {r}) \cup {q} /\ m2' = [m2 EXCEPT ![r.cell] = r.val]
      BY <1>2, <2>1 DEF RecCells!CancelAnswer, RecCells!Reflected
    <3>2. q.kind = "journal"
      BY DEF RecCells!NewRequest
    <3> HIDE DEF q
    <3>3. r \in m11 \ m11'
      BY <3>1, <3>2
    <3> QED
      BY <2>1, <3>1, <3>3 DEF RecCells!ChangesItsCell
  <2>2. CASE r.state # "ok"
    BY <1>2, <2>2 DEF RecCells!CancelAnswer, RecCells!ChangesItsCell
  <2> QED
    BY <2>1, <2>2
<1>3. CASE UNCHANGED m2
  BY <1>3 DEF RecCells!ChangesItsCell
<1>4. CASE RecCells!User
  <2>1. UNCHANGED m2
    BY <1>4 DEF RecCells!User, RecCells!OpenModal, RecCells!Type, RecCells!QuickFill, RecCells!CloseModal,
       RecCells!ClickConfirm, RecCells!CtrlEnter, RecCells!ConfirmReceipt, RecCells!OpenDrawer,
       RecCells!DrawerFromModal, RecCells!RedrawDrawer, RecCells!CloseDrawer, RecCells!OpenCancelDialog,
       RecCells!CloseCancelDialog, RecCells!ConfirmCancel, RecCells!MarkStatus, RecCells!OpenSign,
       RecCells!Draw, RecCells!ClearSignature, RecCells!CloseSign, RecCells!ConfirmClose, RecCells!Reopen,
       RecCells!page
  <2> QED
    BY <1>3, <2>1
<1>5. ASSUME NEW r \in m11, RecCells!Serve(r) \/ RecCells!Lose(r) \/ RecCells!Answer(r),
             ~RecCells!ReceiveAnswer(r), ~RecCells!CancelAnswer(r)
      PROVE  UNCHANGED m2
  BY <1>5 DEF RecCells!Serve, RecCells!Lose, RecCells!Answer, RecCells!PreviewHead, RecCells!PreviewBody,
     RecCells!PreviewLost, RecCells!JournalAnswer, RecCells!CloseAnswer, RecCells!ReopenAnswer, RecCells!page
<1>6. CASE RecCells!RefreshPreview \/ RecCells!OtherUser \/ UNCHANGED RecCells!vars
  <2>1. UNCHANGED m2
    BY <1>6 DEF RecCells!RefreshPreview, RecCells!OtherUser, RecCells!vars, RecCells!page
  <2> QED
    BY <1>3, <2>1
<1> QED
  BY <1>1, <1>2, <1>3, <1>4, <1>5, <1>6 DEF RecCells!Next, RecCells!Answer

-----------------------------------------------------------------------------
(* The page is closed and reopened by answers only.                        *)
LEMMA SharedCloses ==
  ASSUME m4 \in BOOLEAN, [RecShared!Next]_(RecShared!vars)
  PROVE  m4' \in BOOLEAN /\ RecShared!ClosesByAnswer
<1>1. ASSUME NEW r \in m11, RecShared!CloseAnswer(r) \/ RecShared!ReopenAnswer(r)
      PROVE  m4' \in BOOLEAN /\ RecShared!ClosesByAnswer
  BY <1>1 DEF RecShared!CloseAnswer, RecShared!ClosedBy, RecShared!ReopenAnswer, RecShared!ClosesByAnswer
<1>2. CASE UNCHANGED m4
  BY <1>2 DEF RecShared!ClosesByAnswer
<1>3. CASE RecShared!User
  <2>1. UNCHANGED m4
    BY <1>3 DEF RecShared!User, RecShared!OpenModal, RecShared!Type, RecShared!QuickFill,
       RecShared!CloseModal, RecShared!ClickConfirm, RecShared!CtrlEnter, RecShared!ConfirmReceipt,
       RecShared!OpenDrawer, RecShared!DrawerFromModal, RecShared!RedrawDrawer, RecShared!CloseDrawer,
       RecShared!OpenCancelDialog, RecShared!CloseCancelDialog, RecShared!ConfirmCancel,
       RecShared!MarkStatus, RecShared!OpenSign, RecShared!Draw, RecShared!ClearSignature,
       RecShared!CloseSign, RecShared!ConfirmClose, RecShared!Reopen, RecShared!page
  <2> QED
    BY <1>2, <2>1
<1>4. ASSUME NEW r \in m11, RecShared!Serve(r) \/ RecShared!Lose(r) \/ RecShared!Answer(r),
             ~RecShared!CloseAnswer(r), ~RecShared!ReopenAnswer(r)
      PROVE  UNCHANGED m4
  BY <1>4 DEF RecShared!Serve, RecShared!Lose, RecShared!Answer, RecShared!PreviewHead,
     RecShared!PreviewBody, RecShared!PreviewLost, RecShared!ReceiveAnswer, RecShared!JournalAnswer,
     RecShared!CancelAnswer, RecShared!page
<1>5. CASE RecShared!RefreshPreview \/ RecShared!OtherUser \/ UNCHANGED RecShared!vars
  <2>1. UNCHANGED m4
    BY <1>5 DEF RecShared!RefreshPreview, RecShared!OtherUser, RecShared!vars, RecShared!page
  <2> QED
    BY <1>2, <2>1
<1> QED
  BY <1>1, <1>2, <1>3, <1>4, <1>5 DEF RecShared!Next, RecShared!Answer

(* What an answer that is under way says of its cell, given what the cells *)
(* have held.                                                              *)
Told(r, h) ==
  /\ {"kind", "cell", "state", "val", "rows", "latest"} \subseteq DOMAIN r
  /\ r.kind \in {"receive", "cancel"} /\ r.state = "ok" /\ r.cell \in RecShared!Cell
        => r.val \in h[r.cell]

(* What an answer says, and the grid shows, its cell has held.             *)
LEMMA GridInit == RecShared!PageAssumption /\ RecShared!Init => RecShared!GridInv
<1> SUFFICES ASSUME RecShared!PageAssumption, RecShared!Init PROVE RecShared!GridInv
  OBVIOUS
<1>1. m1.closed \in BOOLEAN /\ DOMAIN m1.received = RecShared!Cell
  <2>1. CASE m1 = [received |-> [c \in RecShared!Cell |-> 0], receipts |-> <<>>, closed |-> FALSE]
    BY <2>1
  <2>2. ASSUME NEW q \in {Plan} \cup RecShared!Extra, NEW b \in BOOLEAN, m1 = RecShared!Filled(q, b)
        PROVE  m1.closed \in BOOLEAN /\ DOMAIN m1.received = RecShared!Cell
    <3>1. DOMAIN q = RecShared!Cell
      BY <2>2 DEF RecShared!PageAssumption, RecShared!Extra
    <3> QED
      BY <2>2, <3>1 DEF RecShared!Filled
  <2> QED
    BY <2>1, <2>2 DEF RecShared!Init
<1> QED
  BY <1>1 DEF RecShared!Init, RecShared!Ingested, RecShared!GridInv, RecShared!GridFromServer

LEMMA GridAsked ==
  ASSUME NEW k, NEW c, NEW a, NEW t, NEW h
  PROVE  Told(RecShared!NewRequest(k, c, a, t), h)
BY DEF RecShared!NewRequest, Told

LEMMA GridKept ==
  ASSUME RecShared!GridInv, m4' \in BOOLEAN,
         DOMAIN m2' = RecShared!Cell,
         \A c \in RecShared!Cell : m15[c] \subseteq m15'[c],
         \A r \in m11' : r \in m11 \/ Told(r, m15'),
         \A c \in RecShared!Cell : m2'[c] = m2[c] \/ m2'[c] \in m15'[c]
  PROVE  RecShared!GridInv'
<1>1. \A r \in m11' : Told(r, m15')
  BY DEF RecShared!GridInv, Told
<1>2. \A c \in RecShared!Cell : m2'[c] \in m15'[c]
  BY DEF RecShared!GridInv, RecShared!GridFromServer
<1>3. RecShared!Cell' = RecShared!Cell
  BY DEF RecShared!Cell
<1> QED
  BY <1>1, <1>2, <1>3 DEF RecShared!GridInv, RecShared!GridFromServer, Told

LEMMA GridStill ==
  ASSUME RecShared!GridInv, m4' \in BOOLEAN, UNCHANGED <<m2, m15>>,
         \A r \in m11' : r \in m11 \/ Told(r, m15')
  PROVE  RecShared!GridInv'
BY GridKept DEF RecShared!GridInv

LEMMA SharedStep ==
  ASSUME RecShared!GridInv, [RecShared!Next]_(RecShared!vars)
  PROVE  RecShared!GridInv' /\ RecShared!ClosesByAnswer
<1>0. m4' \in BOOLEAN /\ RecShared!ClosesByAnswer
  BY SharedCloses DEF RecShared!GridInv
<1>a. \A r \in m11 : Told(r, m15) /\ {"kind", "cell", "state", "val", "rows", "latest"} \subseteq DOMAIN r
  BY DEF RecShared!GridInv, Told
<1>1. ASSUME RecShared!User \/ UNCHANGED RecShared!vars
      PROVE  RecShared!GridInv'
  <2>1. UNCHANGED <<m2, m15>>
    BY <1>1 DEF RecShared!User, RecShared!OpenModal, RecShared!Type, RecShared!QuickFill,
       RecShared!CloseModal, RecShared!ClickConfirm, RecShared!CtrlEnter, RecShared!ConfirmReceipt,
       RecShared!OpenDrawer, RecShared!DrawerFromModal, RecShared!RedrawDrawer, RecShared!CloseDrawer,
       RecShared!OpenCancelDialog, RecShared!CloseCancelDialog, RecShared!ConfirmCancel,
       RecShared!MarkStatus, RecShared!OpenSign, RecShared!Draw, RecShared!ClearSignature,
       RecShared!CloseSign, RecShared!ConfirmClose, RecShared!Reopen, RecShared!page, RecShared!vars
  <2>2. m11' = m11 \/ \E k, c, a, t : m11' = m11 \cup {RecShared!NewRequest(k, c, a, t)}
    BY <1>1 DEF RecShared!User, RecShared!OpenModal, RecShared!Type, RecShared!QuickFill,
       RecShared!CloseModal, RecShared!ClickConfirm, RecShared!CtrlEnter, RecShared!ConfirmReceipt,
       RecShared!OpenDrawer, RecShared!DrawerFromModal, RecShared!RedrawDrawer, RecShared!CloseDrawer,
       RecShared!OpenCancelDialog, RecShared!CloseCancelDialog, RecShared!ConfirmCancel,
       RecShared!MarkStatus, RecShared!OpenSign, RecShared!Draw, RecShared!ClearSignature,
       RecShared!CloseSign, RecShared!ConfirmClose, RecShared!Reopen, RecShared!vars,
       RecShared!Post, RecShared!Send, RecShared!NoSend, RecShared!EnsureLoaded
  <2> QED
    BY <1>0, <2>1, <2>2, GridAsked, GridStill
<1>2. CASE RecShared!RefreshPreview
  <2>1. UNCHANGED <<m2, m15>>
    BY <1>2 DEF RecShared!RefreshPreview
  <2>2. ASSUME NEW r \in m11'
        PROVE  r \in m11 \/ Told(r, m15')
    <3>1. CASE r \in m11
      BY <3>1
    <3>2. ASSUME NEW q \in m11, r = [q EXCEPT !.latest = q.kind # "preview"]
          PROVE  Told(r, m15')
      BY <1>a, <2>1, <3>2 DEF Told
    <3>3. ASSUME NEW k, NEW c, NEW a, NEW t, r = RecShared!NewRequest(k, c, a, t)
          PROVE  Told(r, m15')
      BY <3>3, GridAsked
    <3> QED
      BY <1>2, <2>2, <3>1, <3>2, <3>3 DEF RecShared!RefreshPreview, RecShared!NoSend
  <2> QED
    BY <1>0, <2>1, <2>2, GridStill
<1>3. ASSUME NEW r \in m11, RecShared!Serve(r)
      PROVE  RecShared!GridInv'
  <2> DEFINE a == IF RecShared!Accepts(r) THEN "ok" ELSE "refused"
             v == IF r.kind \in {"receive", "cancel"} /\ RecShared!Accepts(r)
                  THEN m1'.received[r.cell] ELSE 0
             w == IF r.kind = "journal" THEN m1.receipts ELSE <<>>
             q == [r EXCEPT !.state = a, !.val = v, !.rows = w]
  <2>1. /\ m11' = (m11 \ {r}) \cup {q} /\ UNCHANGED <<m2, m4>>
        /\ m15' = [c \in RecShared!Cell |-> m15[c] \cup {m1'.received[c]}]
    BY <1>3 DEF RecShared!Serve, RecShared!Remember, RecShared!page
  <2>2. q.state = a /\ q.val = v /\ q.kind = r.kind /\ q.cell = r.cell
    BY <1>a
  <2>3. {"kind", "cell", "state", "val", "rows", "latest"} \subseteq DOMAIN q
    BY <1>a
  <2>4. Told(q, m15')
    BY <2>1, <2>2, <2>3 DEF Told
  <2> HIDE DEF q
  <2>5. \A x \in m11' : x \in m11 \/ Told(x, m15')
    BY <2>1, <2>4
  <2>6. \A c \in RecShared!Cell : m15[c] \subseteq m15'[c]
    BY <2>1
  <2>7. DOMAIN m2' = RecShared!Cell /\ \A c \in RecShared!Cell : m2'[c] = m2[c]
    BY <2>1 DEF RecShared!GridInv
  <2> QED
    BY <1>0, <2>5, <2>6, <2>7, GridKept
<1>4. ASSUME NEW r \in m11, RecShared!Lose(r)
      PROVE  RecShared!GridInv'
  <2> DEFINE q == [r EXCEPT !.state = "lost"]
  <2>1. q.state = "lost" /\ {"kind", "cell", "state", "val", "rows", "latest"} \subseteq DOMAIN q
    BY <1>a
  <2>2. m11' = (m11 \ {r}) \cup {q} /\ UNCHANGED <<m2, m15>>
    BY <1>4 DEF RecShared!Lose, RecShared!page
  <2> HIDE DEF q
  <2>3. Told(q, m15')
    BY <2>1 DEF Told
  <2> QED
    BY <1>0, <2>2, <2>3, GridStill
<1>5. ASSUME NEW r \in m11, RecShared!PreviewHead(r)
      PROVE  RecShared!GridInv'
  <2>1. UNCHANGED <<m2, m15>>
    BY <1>5 DEF RecShared!PreviewHead, RecShared!page
  <2>2. PICK v \in {0, 1} :
          m11' = (m11 \ {r}) \cup (IF r.latest THEN {[r EXCEPT !.state = "reading", !.val = v]} ELSE {})
    BY <1>5 DEF RecShared!PreviewHead
  <2> DEFINE q == [r EXCEPT !.state = "reading", !.val = v]
  <2>3. q.state = "reading" /\ {"kind", "cell", "state", "val", "rows", "latest"} \subseteq DOMAIN q
    BY <1>a
  <2>4. \A x \in m11' : x \in m11 \/ x = q
    BY <2>2
  <2> HIDE DEF q
  <2>5. Told(q, m15')
    BY <2>3 DEF Told
  <2> QED
    BY <1>0, <2>1, <2>4, <2>5, GridStill
<1>6. ASSUME NEW r \in m11,
             \/ RecShared!PreviewBody(r) \/ RecShared!PreviewLost(r) \/ RecShared!JournalAnswer(r)
             \/ RecShared!CloseAnswer(r) \/ RecShared!ReopenAnswer(r)
      PROVE  RecShared!GridInv'
  <2>1. UNCHANGED <<m2, m15>> /\ m11' = m11 \ {r}
    BY <1>6 DEF RecShared!PreviewBody, RecShared!PreviewLost, RecShared!JournalAnswer,
       RecShared!CloseAnswer, RecShared!ReopenAnswer
  <2> QED
    BY <1>0, <2>1, GridStill
<1>7. ASSUME NEW r \in m11, RecShared!ReceiveAnswer(r)
      PROVE  RecShared!GridInv'
  <2>1. m15' = m15 /\ m11' = m11 \ {r}
    BY <1>7 DEF RecShared!ReceiveAnswer
  <2>2. m2' = m2 \/ (r.kind = "receive" /\ r.state = "ok" /\ m2' = [m2 EXCEPT ![r.cell] = r.val])
    BY <1>7 DEF RecShared!ReceiveAnswer, RecShared!Reflected
  <2>3. DOMAIN m2' = RecShared!Cell /\ \A c \in RecShared!Cell : m2'[c] = m2[c] \/ m2'[c] \in m15'[c]
    BY <1>a, <2>1, <2>2 DEF RecShared!GridInv, Told
  <2> QED
    BY <1>0, <2>1, <2>3, GridKept
<1>8. ASSUME NEW r \in m11, RecShared!CancelAnswer(r)
      PROVE  RecShared!GridInv'
  <2>1. m15' = m15
    BY <1>8 DEF RecShared!CancelAnswer
  <2>2. m2' = m2 \/ (r.kind = "cancel" /\ r.state = "ok" /\ m2' = [m2 EXCEPT ![r.cell] = r.val])
    BY <1>8 DEF RecShared!CancelAnswer, RecShared!Reflected
  <2>3. DOMAIN m2' = RecShared!Cell /\ \A c \in RecShared!Cell : m2'[c] = m2[c] \/ m2'[c] \in m15'[c]
    BY <1>a, <2>1, <2>2 DEF RecShared!GridInv, Told
  <2>4. \A x \in m11' : x \in m11 \/ x = RecShared!NewRequest("journal", r.cell, 0, "cancel")
    BY <1>8 DEF RecShared!CancelAnswer
  <2> QED
    BY <1>0, <2>1, <2>3, <2>4, GridAsked, GridKept
<1>9. CASE RecShared!OtherUser
  <2>1. /\ UNCHANGED <<m2, m11>>
        /\ m15' = [c \in RecShared!Cell |-> m15[c] \cup {m1'.received[c]}]
    BY <1>9 DEF RecShared!OtherUser, RecShared!Remember, RecShared!page
  <2>2. \A c \in RecShared!Cell : m15[c] \subseteq m15'[c]
    BY <2>1
  <2> QED
    BY <1>0, <2>1, <2>2, GridKept DEF RecShared!GridInv
<1> QED
  BY <1>0, <1>1, <1>2, <1>3, <1>4, <1>5, <1>6, <1>7, <1>8, <1>9 DEF RecShared!Next, RecShared!Answer

-----------------------------------------------------------------------------
LEMMA BothInit == RecLossy!Init => RecLossy!BothInv
BY DEF RecLossy!Init, RecLossy!Ingested, RecLossy!BothInv, RecLossy!ConfirmNeverStuck, RecLossy!Cancelling

(* What the modal, the drawer and the sheet do is neither a cancel nor the *)
(* end of a receipt.                                                       *)
BothApart(q) ==
    {"kind", "then", "state", "latest"} \subseteq DOMAIN q /\ q.kind # "cancel" /\ q.then # "cancel"

LEMMA BothAsked ==
  ASSUME NEW k, NEW c, NEW a, NEW t
  PROVE  LET q == RecLossy!NewRequest(k, c, a, t) IN
         q.kind = k /\ q.then = t /\ {"kind", "then", "state", "latest"} \subseteq DOMAIN q
BY DEF RecLossy!NewRequest

(* Requests are added and the panel shows what it may.                     *)
LEMMA BothMore ==
  ASSUME RecLossy!BothInv, NEW N, \A q \in N : BothApart(q), m11' = m11 \cup N,
         DOMAIN m6' = {"kind", "enabled", "due"}, m6'.enabled \in BOOLEAN,
         \/ m6'.enabled \/ (m6'.enabled = m6.enabled /\ m6'.kind = m6.kind)
         \/ \E q \in N : q.kind = "receive",
         m9'.enabled = m9.enabled, DOMAIN m9' = DOMAIN m9
  PROVE  RecLossy!BothInv'
BY DEF RecLossy!BothInv, RecLossy!ConfirmNeverStuck, RecLossy!InFlight, RecLossy!Cancelling, BothApart

(* One request is replaced by another for the same, ...                    *)
LEMMA BothMoved ==
  ASSUME RecLossy!BothInv, NEW r \in m11, NEW q, m11' = (m11 \ {r}) \cup {q}, UNCHANGED <<m6, m9>>,
         {"kind", "then", "state", "latest"} \subseteq DOMAIN q, q.kind = r.kind, q.then = r.then
  PROVE  RecLossy!BothInv'
BY DEF RecLossy!BothInv, RecLossy!ConfirmNeverStuck, RecLossy!InFlight, RecLossy!Cancelling

(* ... or goes.                                                            *)
LEMMA BothGone ==
  ASSUME RecLossy!BothInv, NEW r \in m11, m11' = m11 \ {r}, r.kind # "cancel", r.then # "cancel",
         DOMAIN m6' = {"kind", "enabled", "due"}, m6'.enabled \in BOOLEAN,
         m6'.enabled \/ m6'.kind = "warn" \/ (m6' = m6 /\ r.kind # "receive"),
         UNCHANGED m9
  PROVE  RecLossy!BothInv'
BY DEF RecLossy!BothInv, RecLossy!ConfirmNeverStuck, RecLossy!InFlight, RecLossy!Cancelling

LEMMA BothStep ==
  ASSUME RecLossy!BothInv, [RecLossy!Next]_(RecLossy!vars)
  PROVE  RecLossy!BothInv'
<1> DEFINE Record(q) == {"kind", "then", "state", "latest"} \subseteq DOMAIN q
<1>0. /\ \A r \in m11 : Record(r)
      /\ \A r \in m11 : r.kind \notin {"cancel", "journal"} => r.then # "cancel"
      /\ DOMAIN m6 = {"kind", "enabled", "due"} /\ DOMAIN m9 = {"target", "cell", "enabled"}
      /\ m6.enabled \in BOOLEAN
  BY DEF RecLossy!BothInv, RecLossy!Cancelling
(* The user opens, types, draws and closes.                                *)
<1>1. ASSUME m11' = m11, m6' = m6 \/ m6'.enabled, DOMAIN m6' = DOMAIN m6, m6'.enabled \in BOOLEAN,
             DOMAIN m9' = DOMAIN m9, m9'.enabled = m9.enabled
      PROVE  RecLossy!BothInv'
  BY <1>1 DEF RecLossy!BothInv, RecLossy!ConfirmNeverStuck, RecLossy!InFlight, RecLossy!Cancelling
<1>2. ASSUME NEW k, NEW c, NEW a, NEW t, k \notin {"cancel", "receive"}, t # "cancel",
             m11' = m11 \cup {RecLossy!NewRequest(k, c, a, t)} \/ m11' = m11,
             m6' = m6 \/ m6'.enabled, DOMAIN m6' = DOMAIN m6, m6'.enabled \in BOOLEAN,
             UNCHANGED m9
      PROVE  RecLossy!BothInv'
  <2> DEFINE q == RecLossy!NewRequest(k, c, a, t)
             N == {q}
  <2>1. q.kind = k /\ q.then = t /\ Record(q)
    BY BothAsked
  <2>2. m11' = m11 \cup N \/ m11' = m11
    BY <1>2
  <2> HIDE DEF q
  <2>3. \A x \in N : BothApart(x)
    BY <1>2, <2>1 DEF BothApart
  <2> HIDE DEF N
  <2> QED
    BY <1>0, <1>1, <1>2, <2>2, <2>3, BothMore
<1>3. ASSUME NEW c \in RecLossy!Cell, RecLossy!OpenModal(c)
      PROVE  RecLossy!BothInv'
  <2>1. m11' = m11 \cup {RecLossy!NewRequest("journal", c, 0, "modal")} \/ m11' = m11
    BY <1>3 DEF RecLossy!OpenModal, RecLossy!EnsureLoaded, RecLossy!NoSend, RecLossy!Send
  <2>2. m6' = [m6 EXCEPT !.kind = "none", !.enabled = TRUE, !.due = TRUE] /\ UNCHANGED m9
    BY <1>3 DEF RecLossy!OpenModal, RecLossy!Hidden
  <2>3. m6'.enabled /\ m6'.enabled \in BOOLEAN /\ DOMAIN m6' = DOMAIN m6
    BY <1>0, <2>2
  <2> QED
    BY <1>2, <2>1, <2>2, <2>3
<1>4. CASE RecLossy!OpenDrawer
  BY <1>0, <1>2, <1>4 DEF RecLossy!OpenDrawer, RecLossy!EnsureLoaded, RecLossy!NoSend, RecLossy!Send
<1>5. CASE RecLossy!ConfirmClose \/ RecLossy!Reopen
  BY <1>0, <1>2, <1>5 DEF RecLossy!ConfirmClose, RecLossy!Reopen, RecLossy!Post, RecLossy!Send, RecLossy!page
<1>6. CASE RecLossy!CloseModal \/ RecLossy!DrawerFromModal
  BY <1>0, <1>1, <1>6 DEF RecLossy!CloseModal, RecLossy!DrawerFromModal, RecLossy!Hidden
<1>7. ASSUME \/ RecLossy!QuickFill \/ RecLossy!RedrawDrawer \/ RecLossy!CloseDrawer
             \/ RecLossy!CloseCancelDialog \/ RecLossy!OpenSign \/ RecLossy!Draw
             \/ RecLossy!ClearSignature \/ RecLossy!CloseSign \/ RecLossy!OtherUser
             \/ UNCHANGED RecLossy!vars
             \/ \E x : RecLossy!Type(x) \/ RecLossy!MarkStatus(x) \/ RecLossy!OpenCancelDialog(x)
      PROVE  RecLossy!BothInv'
  <2>1. m11' = m11 /\ (m6' = m6 \/ m6' = [m6 EXCEPT !.due = TRUE])
    BY <1>7 DEF RecLossy!QuickFill, RecLossy!RedrawDrawer, RecLossy!CloseDrawer,
       RecLossy!CloseCancelDialog, RecLossy!OpenSign, RecLossy!Draw, RecLossy!ClearSignature,
       RecLossy!CloseSign, RecLossy!OtherUser, RecLossy!vars, RecLossy!page, RecLossy!Type,
       RecLossy!Look, RecLossy!MarkStatus, RecLossy!OpenCancelDialog
  <2>2. DOMAIN m9' = DOMAIN m9 /\ m9'.enabled = m9.enabled
    BY <1>0, <1>7 DEF RecLossy!QuickFill, RecLossy!RedrawDrawer, RecLossy!CloseDrawer,
       RecLossy!CloseCancelDialog, RecLossy!OpenSign, RecLossy!Draw, RecLossy!ClearSignature,
       RecLossy!CloseSign, RecLossy!OtherUser, RecLossy!vars, RecLossy!page, RecLossy!Type,
       RecLossy!MarkStatus, RecLossy!OpenCancelDialog, RecLossy!Untargeted
  <2> QED
    BY <1>0, <2>1, <2>2 DEF RecLossy!BothInv, RecLossy!ConfirmNeverStuck, RecLossy!InFlight,
       RecLossy!Cancelling
<1>8. CASE RecLossy!ConfirmReceipt
  <2> DEFINE q == RecLossy!NewRequest("receive", m5.cell, RecLossy!Posted, "none")
             N == {q}
  <2>1. q.kind = "receive" /\ q.then = "none" /\ Record(q)
    BY BothAsked
  <2>2. m11' = m11 \cup N /\ m6' = [m6 EXCEPT !.enabled = FALSE] /\ UNCHANGED m9
    BY <1>8 DEF RecLossy!ConfirmReceipt, RecLossy!Post, RecLossy!Send
  <2> HIDE DEF q
  <2>3. (\A x \in N : BothApart(x)) /\ \E x \in N : x.kind = "receive"
    BY <2>1 DEF BothApart
  <2> HIDE DEF N
  <2> QED
    BY <1>0, <2>2, <2>3, BothMore
<1>9. CASE RecLossy!ConfirmCancel
  <2> DEFINE q == RecLossy!NewRequest("cancel", m9.cell, m9.target, "none")
  <2>1. q.kind = "cancel" /\ q.then = "none" /\ Record(q)
    BY BothAsked
  <2>2. m9.enabled /\ m11' = m11 \cup {q} /\ m9' = [m9 EXCEPT !.enabled = FALSE] /\ UNCHANGED m6
    BY <1>9 DEF RecLossy!ConfirmCancel, RecLossy!Post, RecLossy!Send
  <2> HIDE DEF q
  <2>3. RecLossy!Cancelling = {}
    BY <2>2 DEF RecLossy!BothInv
  <2>4. RecLossy!Cancelling' = {q}
    BY <2>1, <2>2, <2>3 DEF RecLossy!Cancelling
  <2>5. RecLossy!ConfirmNeverStuck'
    BY <2>2 DEF RecLossy!BothInv, RecLossy!ConfirmNeverStuck, RecLossy!InFlight
  <2>6. \A r \in m11' : Record(r)
    BY <1>0, <2>1, <2>2
  <2>7. DOMAIN m9' = DOMAIN m9 /\ m9'.enabled = FALSE
    BY <1>0, <2>2
  <2> QED
    BY <1>0, <2>1, <2>2, <2>4, <2>5, <2>6, <2>7 DEF RecLossy!BothInv
(* The preview makes those under way obsolete.                             *)
<1>10. CASE RecLossy!RefreshPreview
  <2>1. UNCHANGED m9
    BY <1>10 DEF RecLossy!RefreshPreview
  <2>2. CASE m5.input = 0
    <3>1. m11' = m11 /\ m6' = [m6 EXCEPT !.kind = "none", !.enabled = TRUE, !.due = FALSE]
      BY <1>10, <2>2 DEF RecLossy!RefreshPreview, RecLossy!Hidden, RecLossy!NoSend
    <3> QED
      BY <1>0, <1>1, <2>1, <3>1
  <2>3. CASE m5.input # 0
    <3> DEFINE old(r) == [r EXCEPT !.latest = r.kind # "preview"]
               q == RecLossy!NewRequest("preview", m5.cell, m5.input, "none")
    <3>1. m11' = {old(r) : r \in m11} \cup {q} /\ m6' = [m6 EXCEPT !.due = FALSE]
      BY <1>10, <2>3 DEF RecLossy!RefreshPreview
    <3>2. \A r \in m11 : old(r).kind = r.kind /\ old(r).then = r.then /\ Record(old(r))
      BY <1>0
    <3>3. q.kind = "preview" /\ q.then = "none" /\ Record(q)
      BY BothAsked
    <3> HIDE DEF old, q
    <3>4. RecLossy!Cancelling' = {old(r) : r \in RecLossy!Cancelling}
      BY <3>1, <3>2, <3>3 DEF RecLossy!Cancelling
    <3>5. RecLossy!ConfirmNeverStuck'
      BY <1>0, <3>1, <3>2 DEF RecLossy!BothInv, RecLossy!ConfirmNeverStuck, RecLossy!InFlight
    <3>6. \A r \in m11' : Record(r)
      BY <3>1, <3>2, <3>3
    <3>7. /\ \A r \in RecLossy!Cancelling' :
                <<r.kind, r.then>> \in {<<"cancel", "none">>, <<"journal", "cancel">>}
          /\ \A r, p \in RecLossy!Cancelling' : r = p
          /\ m9.enabled <=> RecLossy!Cancelling' = {}
      BY <3>2, <3>4 DEF RecLossy!BothInv, RecLossy!Cancelling
    <3>8. DOMAIN m6' = DOMAIN m6 /\ m6'.enabled = m6.enabled
      BY <1>0, <3>1
    <3> QED
      BY <1>0, <2>1, <3>5, <3>6, <3>7, <3>8 DEF RecLossy!BothInv
  <2> QED
    BY <2>2, <2>3
<1>11. ASSUME NEW r \in m11, RecLossy!Serve(r) \/ RecLossy!Lose(r)
       PROVE  RecLossy!BothInv'
  <2>1. UNCHANGED <<m6, m9>>
    BY <1>11 DEF RecLossy!Serve, RecLossy!Lose, RecLossy!page
  <2>2. PICK q : m11' = (m11 \ {r}) \cup {q} /\ q.kind = r.kind /\ q.then = r.then /\ Record(q)
    <3>1. CASE RecLossy!Lose(r)
      <4> DEFINE q == [r EXCEPT !.state = "lost"]
      <4>1. q.kind = r.kind /\ q.then = r.then /\ Record(q)
        BY <1>0
      <4>2. m11' = (m11 \ {r}) \cup {q}
        BY <3>1 DEF RecLossy!Lose
      <4> HIDE DEF q
      <4> QED
        BY <4>1, <4>2
    <3>2. CASE RecLossy!Serve(r)
      <4> DEFINE s == IF RecLossy!Accepts(r) THEN "ok" ELSE "refused"
                 v == IF r.kind \in {"receive", "cancel"} /\ RecLossy!Accepts(r)
                      THEN m1'.received[r.cell] ELSE 0
                 x == IF r.kind = "journal" THEN m1.receipts ELSE <<>>
                 q == [r EXCEPT !.state = s, !.val = v, !.rows = x]
      <4>1. m11' = (m11 \ {r}) \cup {q}
        BY <3>2 DEF RecLossy!Serve
      <4> HIDE DEF s, v, x
      <4>2. q.kind = r.kind /\ q.then = r.then /\ Record(q)
        BY <1>0
      <4> HIDE DEF q
      <4> QED
        BY <4>1, <4>2
    <3> QED
      BY <1>11, <3>1, <3>2
  <2> QED
    BY <2>1, <2>2, BothMoved
<1>12. ASSUME NEW r \in m11, RecLossy!PreviewHead(r)
       PROVE  RecLossy!BothInv'
  <2>1. UNCHANGED <<m6, m9>> /\ r.kind = "preview"
    BY <1>12 DEF RecLossy!PreviewHead, RecLossy!page
  <2>2. CASE m11' = m11 \ {r}
    BY <1>0, <2>1, <2>2, BothGone
  <2>3. ASSUME NEW v, m11' = (m11 \ {r}) \cup {[r EXCEPT !.state = "reading", !.val = v]}
        PROVE  RecLossy!BothInv'
    <3> DEFINE q == [r EXCEPT !.state = "reading", !.val = v]
    <3>1. q.kind = r.kind /\ q.then = r.then /\ Record(q)
      BY <1>0
    <3>2. m11' = (m11 \ {r}) \cup {q}
      BY <2>3
    <3> HIDE DEF q
    <3> QED
      BY <2>1, <3>1, <3>2, BothMoved
  <2> QED
    BY <1>12, <2>2, <2>3 DEF RecLossy!PreviewHead
<1>13. ASSUME NEW r \in m11, RecLossy!PreviewBody(r) \/ RecLossy!PreviewLost(r) \/ RecLossy!ReceiveAnswer(r)
       PROVE  RecLossy!BothInv'
  <2>1. m11' = m11 \ {r} /\ r.kind \notin {"cancel", "journal"} /\ UNCHANGED m9
    BY <1>13 DEF RecLossy!PreviewBody, RecLossy!PreviewLost, RecLossy!ReceiveAnswer
  <2>2. /\ DOMAIN m6' = DOMAIN m6 /\ m6'.enabled \in BOOLEAN
        /\ m6'.enabled \/ m6'.kind = "warn"
    BY <1>0, <1>13 DEF RecLossy!PreviewBody, RecLossy!PreviewLost, RecLossy!ReceiveAnswer,
       RecLossy!PreviewShown, RecLossy!Hidden, RecLossy!Released
  <2> QED
    BY <1>0, <2>1, <2>2, BothGone
<1>14. ASSUME NEW r \in m11, RecLossy!CloseAnswer(r) \/ RecLossy!ReopenAnswer(r)
       PROVE  RecLossy!BothInv'
  <2>1. m11' = m11 \ {r} /\ r.kind \in {"close", "reopen"} /\ UNCHANGED <<m6, m9>>
    BY <1>14 DEF RecLossy!CloseAnswer, RecLossy!ReopenAnswer
  <2> QED
    BY <1>0, <2>1, BothGone
<1>15. ASSUME NEW r \in m11, RecLossy!JournalAnswer(r)
       PROVE  RecLossy!BothInv'
  <2>1. m11' = m11 \ {r} /\ r.kind = "journal" /\ UNCHANGED m6
    BY <1>15 DEF RecLossy!JournalAnswer
  <2>2. CASE r.then # "cancel"
    <3>1. UNCHANGED m9
      BY <1>15, <2>2 DEF RecLossy!JournalAnswer, RecLossy!ModalReloaded, RecLossy!DrawerLoaded,
         RecLossy!CancelRefreshed
    <3> QED
      BY <1>0, <2>1, <2>2, <3>1, BothGone
  <2>3. CASE r.then = "cancel"
    <3>1. m9' = [m9 EXCEPT !.target = 0, !.cell = RecLossy!AnyCell, !.enabled = TRUE]
      BY <1>15, <2>3 DEF RecLossy!JournalAnswer, RecLossy!ModalReloaded, RecLossy!DrawerLoaded,
         RecLossy!CancelRefreshed, RecLossy!Untargeted
    <3>2. RecLossy!Cancelling' = {}
      BY <2>1, <2>3 DEF RecLossy!BothInv, RecLossy!Cancelling
    <3>3. m9'.enabled = TRUE /\ DOMAIN m9' = DOMAIN m9
      BY <1>0, <3>1
    <3>4. RecLossy!ConfirmNeverStuck'
      BY <2>1 DEF RecLossy!BothInv, RecLossy!ConfirmNeverStuck, RecLossy!InFlight
    <3> QED
      BY <1>0, <2>1, <3>2, <3>3, <3>4 DEF RecLossy!BothInv
  <2> QED
    BY <2>2, <2>3
<1>16. ASSUME NEW r \in m11, RecLossy!CancelAnswer(r)
       PROVE  RecLossy!BothInv'
  <2>1. r.kind = "cancel" /\ UNCHANGED m6
    BY <1>16 DEF RecLossy!CancelAnswer
  <2>2. RecLossy!Cancelling = {r} /\ ~m9.enabled
    BY <2>1 DEF RecLossy!BothInv, RecLossy!Cancelling
  <2>3. CASE r.state = "ok"
    <3> DEFINE q == RecLossy!NewRequest("journal", r.cell, 0, "cancel")
    <3>1. m11' = (m11 \ {r}) \cup {q} /\ UNCHANGED m9
      BY <1>16, <2>3 DEF RecLossy!CancelAnswer, RecLossy!CancelReleased
    <3>2. q.kind = "journal" /\ q.then = "cancel" /\ Record(q)
      BY BothAsked
    <3> HIDE DEF q
    <3>3. RecLossy!Cancelling' = {q}
      BY <2>2, <3>1, <3>2 DEF RecLossy!Cancelling
    <3>4. RecLossy!ConfirmNeverStuck'
      BY <2>1, <3>1 DEF RecLossy!BothInv, RecLossy!ConfirmNeverStuck, RecLossy!InFlight
    <3>5. \A p \in m11' : Record(p)
      BY <1>0, <3>1, <3>2
    <3> QED
      BY <1>0, <2>1, <2>2, <3>1, <3>2, <3>3, <3>4, <3>5 DEF RecLossy!BothInv
  <2>4. CASE r.state # "ok"
    <3>1. m11' = m11 \ {r} /\ m9' = [m9 EXCEPT !.enabled = TRUE]
      BY <1>16, <2>4 DEF RecLossy!CancelAnswer, RecLossy!CancelReleased
    <3>2. RecLossy!Cancelling' = {}
      BY <2>2, <3>1 DEF RecLossy!Cancelling
    <3>3. m9'.enabled = TRUE /\ DOMAIN m9' = DOMAIN m9
      BY <1>0, <3>1
    <3>4. RecLossy!ConfirmNeverStuck'
      BY <2>1, <3>1 DEF RecLossy!BothInv, RecLossy!ConfirmNeverStuck, RecLossy!InFlight
    <3> QED
      BY <1>0, <2>1, <3>1, <3>2, <3>3, <3>4 DEF RecLossy!BothInv
  <2> QED
    BY <2>3, <2>4
<1> QED
  BY <1>3, <1>4, <1>5, <1>6, <1>7, <1>8, <1>9, <1>10, <1>11, <1>12, <1>13, <1>14, <1>15, <1>16
  DEF RecLossy!Next, RecLossy!User, RecLossy!Answer, RecLossy!ClickConfirm, RecLossy!CtrlEnter

-----------------------------------------------------------------------------
LEMMA HeldInit == DrawerSaves!Init => DrawerSaves!HeldInv
BY DEF DrawerSaves!Init, DrawerSaves!HeldInv, DrawerSaves!Held, DrawerSaves!Saves

LEMMA HeldAsked ==
  ASSUME NEW k, NEW p, NEW i, NEW t
  PROVE  LET q == DrawerSaves!Request(k, p, i, t) IN
         q.kind = k /\ q.then = t /\ {"kind", "then", "state"} \subseteq DOMAIN q
BY DEF DrawerSaves!Request

(* Requests that are of no save: not an answer's business.                 *)
Aside(q) ==
    {"kind", "then", "state"} \subseteq DOMAIN q /\ q.kind \notin DrawerSaves!Saves /\ q.then = "none"

LEMMA HeldMore ==
  ASSUME DrawerSaves!HeldInv, NEW N, \A q \in N : Aside(q), m10' = m10 \cup N, UNCHANGED m9
  PROVE  DrawerSaves!HeldInv'
BY DEF DrawerSaves!HeldInv, DrawerSaves!Held, DrawerSaves!Saves, Aside

(* A request goes, and its button with it.                                 *)
LEMMA HeldGone ==
  ASSUME DrawerSaves!HeldInv, NEW r \in m10, NEW N, \A q \in N : Aside(q),
         m10' = (m10 \ {r}) \cup N, m9' = m9 \ {r.kind, r.then}
  PROVE  DrawerSaves!HeldInv'
<1>1. ASSUME NEW k \in DrawerSaves!Saves
      PROVE  DrawerSaves!Held(k)' = DrawerSaves!Held(k) \ {r}
  BY <1>1 DEF DrawerSaves!Held, DrawerSaves!Saves, Aside
<1>2. ASSUME NEW k \in DrawerSaves!Saves
      PROVE  (r \in DrawerSaves!Held(k)) <=> k \in {r.kind, r.then}
  BY <1>2 DEF DrawerSaves!Held
<1>3. \A k \in DrawerSaves!Saves : (k \in m9' <=> DrawerSaves!Held(k)' # {})
                                   /\ \A p, q \in DrawerSaves!Held(k)' : p = q
  BY <1>1, <1>2 DEF DrawerSaves!HeldInv
<1>4. /\ m9' \subseteq DrawerSaves!Saves
      /\ \A q \in m10' : /\ {"kind", "then", "state"} \subseteq DOMAIN q
                         /\ q.kind \notin {"items", "detail"} => q.then = "none"
  BY DEF DrawerSaves!HeldInv, Aside
<1> QED
  BY <1>3, <1>4 DEF DrawerSaves!HeldInv

LEMMA HeldGoneAlone ==
  ASSUME DrawerSaves!HeldInv, NEW r \in m10, m10' = m10 \ {r}, m9' = m9 \ {r.kind, r.then}
  PROVE  DrawerSaves!HeldInv'
<1> DEFINE N == {}
<1>1. m10' = (m10 \ {r}) \cup N /\ \A q \in N : Aside(q)
  OBVIOUS
<1> HIDE DEF N
<1> QED
  BY <1>1, HeldGone

(* A request is taken over by one for the same save.                       *)
LEMMA HeldMoved ==
  ASSUME DrawerSaves!HeldInv, NEW r \in m10, NEW q, m10' = (m10 \ {r}) \cup {q}, UNCHANGED m9,
         {"kind", "then", "state"} \subseteq DOMAIN q,
         q.kind \notin {"items", "detail"} => q.then = "none",
         \A k \in DrawerSaves!Saves : k \in {q.kind, q.then} <=> k \in {r.kind, r.then}
  PROVE  DrawerSaves!HeldInv'
<1>1. ASSUME NEW k \in DrawerSaves!Saves
      PROVE  DrawerSaves!Held(k)' = IF r \in DrawerSaves!Held(k)
                                    THEN (DrawerSaves!Held(k) \ {r}) \cup {q}
                                    ELSE DrawerSaves!Held(k) \ {r}
  BY <1>1 DEF DrawerSaves!Held
<1>2. \A k \in DrawerSaves!Saves : (k \in m9' <=> DrawerSaves!Held(k)' # {})
                                   /\ \A x, y \in DrawerSaves!Held(k)' : x = y
  BY <1>1 DEF DrawerSaves!HeldInv
<1>3. /\ m9' \subseteq DrawerSaves!Saves
      /\ \A x \in m10' : /\ {"kind", "then", "state"} \subseteq DOMAIN x
                         /\ x.kind \notin {"items", "detail"} => x.then = "none"
  BY DEF DrawerSaves!HeldInv
<1> QED
  BY <1>2, <1>3 DEF DrawerSaves!HeldInv

LEMMA HeldStep ==
  ASSUME DrawerSaves!HeldInv, [DrawerSaves!Next]_(DrawerSaves!vars)
  PROVE  DrawerSaves!HeldInv'
<1> DEFINE Record(q) == {"kind", "then", "state"} \subseteq DOMAIN q
(* A save is sent when none of its kind is under way.                      *)
<1>1. ASSUME NEW k \in DrawerSaves!Saves, k \notin m9, NEW q, Record(q), q.kind = k, q.then = "none",
             m10' = m10 \cup {q}, m9' = m9 \cup {k}
      PROVE  DrawerSaves!HeldInv'
  BY <1>1 DEF DrawerSaves!HeldInv, DrawerSaves!Held, DrawerSaves!Saves
<1>2. CASE DrawerSaves!SaveAddItem
  <2>1. PICK q : Record(q) /\ q.kind = "add" /\ q.then = "none" /\ m10' = m10 \cup {q}
    <3>1. PICK i \in Line, f \in DrawerSaves!Form :
               m10' = m10 \cup {[DrawerSaves!Request("add", m6, i, "none") EXCEPT !.plan = f]}
      BY <1>2 DEF DrawerSaves!SaveAddItem, DrawerSaves!SendChange
    <3> DEFINE q0 == DrawerSaves!Request("add", m6, i, "none")
    <3>2. q0.kind = "add" /\ q0.then = "none" /\ Record(q0)
      BY HeldAsked
    <3> HIDE DEF q0
    <3> QED
      BY <3>1, <3>2 DEF q0
  <2> QED
    BY <1>1, <1>2, <2>1 DEF DrawerSaves!SaveAddItem, DrawerSaves!Saves
<1>3. CASE DrawerSaves!SaveEditItem
  BY <1>1, <1>3, HeldAsked DEF DrawerSaves!SaveEditItem, DrawerSaves!SendChange, DrawerSaves!Saves
<1>4. CASE DrawerSaves!SaveExtendedFields
  BY <1>1, <1>4, HeldAsked DEF DrawerSaves!SaveExtendedFields, DrawerSaves!SendChange, DrawerSaves!Saves
<1>5. CASE DrawerSaves!DeleteItem
  <2> DEFINE N == {DrawerSaves!Request("delete", m6, m8.item, "none")}
  <2>1. m10' = m10 \cup N /\ UNCHANGED m9
    BY <1>5 DEF DrawerSaves!DeleteItem, DrawerSaves!SendChange
  <2>2. \A q \in N : Aside(q)
    BY HeldAsked DEF Aside, DrawerSaves!Saves
  <2> HIDE DEF N
  <2> QED
    BY <2>1, <2>2, HeldMore
<1>6. CASE DrawerSaves!ChangeWindow
  <2>1. PICK h \in Hours, x \in Qty \cup {0} :
          m10' = m10 \cup {[DrawerSaves!Request("window", m6, m7, "none")
                             EXCEPT !.plan = [y \in {h} |-> x], !.added = (m8.rows[h] = 0)]}
    BY <1>6 DEF DrawerSaves!ChangeWindow, DrawerSaves!SendChange
  <2> DEFINE q0 == DrawerSaves!Request("window", m6, m7, "none")
             N == {[q0 EXCEPT !.plan = [y \in {h} |-> x], !.added = (m8.rows[h] = 0)]}
  <2>2. q0.kind = "window" /\ q0.then = "none" /\ Record(q0)
    BY HeldAsked
  <2>3. m10' = m10 \cup N /\ UNCHANGED m9
    BY <1>6, <2>1 DEF DrawerSaves!ChangeWindow
  <2> HIDE DEF q0
  <2>4. \A q \in N : Aside(q)
    BY <2>2 DEF Aside, DrawerSaves!Saves
  <2> HIDE DEF N
  <2> QED
    BY <2>3, <2>4, HeldMore
<1>7. ASSUME NEW p, DrawerSaves!OpenDrawer(p)
      PROVE  DrawerSaves!HeldInv'
  <2> DEFINE L == DrawerSaves!CountLinks(p)
             I == DrawerSaves!AlsoItems(p, L)
  <2>1. m10' = m10 \cup (L \cup I) /\ UNCHANGED m9
    BY <1>7 DEF DrawerSaves!OpenDrawer
  <2>2. \A q \in L : Aside(q)
    BY HeldAsked DEF DrawerSaves!CountLinks, Aside, DrawerSaves!Saves
  <2>3. \A q \in I : Aside(q)
    <3> DEFINE q0 == DrawerSaves!Request("items", p, None, "none")
    <3>1. q0.kind = "items" /\ q0.then = "none" /\ Record(q0)
      BY HeldAsked
    <3>2. \A q \in I : \E n : q = [q0 EXCEPT !.id = n]
      BY DEF DrawerSaves!AlsoItems
    <3> HIDE DEF q0, I
    <3> QED
      BY <3>1, <3>2 DEF Aside, DrawerSaves!Saves
  <2> HIDE DEF L, I
  <2>4. \A q \in L \cup I : Aside(q)
    BY <2>2, <2>3
  <2> QED
    BY <2>1, <2>4, HeldMore
<1>8. ASSUME NEW r \in m10, DrawerSaves!Serve(r) \/ DrawerSaves!Lose(r)
      PROVE  DrawerSaves!HeldInv'
  <2>1. PICK s, x : m10' = (m10 \ {r}) \cup {[r EXCEPT !.state = s, !.rows = x]}
                    \/ m10' = (m10 \ {r}) \cup {[r EXCEPT !.state = s]}
    BY <1>8 DEF DrawerSaves!Serve, DrawerSaves!Lose
  <2> DEFINE q1 == [r EXCEPT !.state = s, !.rows = x]
             q2 == [r EXCEPT !.state = s]
  <2>2. Record(r) /\ (r.kind \notin {"items", "detail"} => r.then = "none")
    BY DEF DrawerSaves!HeldInv
  <2>3. q1.kind = r.kind /\ q1.then = r.then /\ Record(q1) /\ q2.kind = r.kind /\ q2.then = r.then /\ Record(q2)
    BY <2>2
  <2>4. PICK q \in {q1, q2} : m10' = (m10 \ {r}) \cup {q}
    BY <2>1
  <2>5. UNCHANGED m9
    BY <1>8 DEF DrawerSaves!Serve, DrawerSaves!Lose
  <2>6. q.kind = r.kind /\ q.then = r.then /\ Record(q)
    BY <2>3, <2>4
  <2> HIDE DEF q1, q2
  <2> QED
    BY <2>2, <2>4, <2>5, <2>6, HeldMoved
<1>9. ASSUME NEW r \in m10, DrawerSaves!LinkedAnswer(r)
      PROVE  DrawerSaves!HeldInv'
  <2>1. m10' = m10 \ {r} /\ m9' = m9 \ {r.kind, r.then}
    BY <1>9 DEF DrawerSaves!LinkedAnswer, DrawerSaves!HeldInv, DrawerSaves!Saves
  <2> QED
    BY <2>1, HeldGoneAlone
<1>10. ASSUME NEW r \in m10, DrawerSaves!ItemsAnswer(r)
       PROVE  DrawerSaves!HeldInv'
  <2>1. m10' = m10 \ {r} /\ m9' = m9 \ {r.kind, r.then}
    BY <1>10 DEF DrawerSaves!ItemsAnswer, DrawerSaves!Continue, DrawerSaves!FreedBy, DrawerSaves!HeldInv,
       DrawerSaves!Saves
  <2> QED
    BY <2>1, HeldGoneAlone
<1>11. ASSUME NEW r \in m10, DrawerSaves!DetailAnswer(r)
       PROVE  DrawerSaves!HeldInv'
  <2>1. CASE r.state = "ok"
    <3> DEFINE N == DrawerSaves!CountLinks(r.pull)
    <3>1. m10' = (m10 \ {r}) \cup N /\ m9' = m9 \ {r.kind, r.then}
      BY <1>11, <2>1 DEF DrawerSaves!DetailAnswer, DrawerSaves!Continue, DrawerSaves!FreedBy,
         DrawerSaves!HeldInv, DrawerSaves!Saves
    <3>2. \A q \in N : Aside(q)
      BY HeldAsked DEF DrawerSaves!CountLinks, Aside, DrawerSaves!Saves
    <3> HIDE DEF N
    <3> QED
      BY <3>1, <3>2, HeldGone
  <2>2. CASE r.state # "ok"
    <3> DEFINE q == DrawerSaves!Request("items", r.pull, r.item, r.then)
    <3>1. m10' = (m10 \ {r}) \cup {q} /\ UNCHANGED m9 /\ r.kind = "detail"
      BY <1>11, <2>2 DEF DrawerSaves!DetailAnswer
    <3>2. q.kind = "items" /\ q.then = r.then /\ Record(q)
      BY HeldAsked
    <3> HIDE DEF q
    <3>3. \A k \in DrawerSaves!Saves : k \in {q.kind, q.then} <=> k \in {r.kind, r.then}
      BY <3>1, <3>2 DEF DrawerSaves!Saves
    <3> QED
      BY <3>1, <3>2, <3>3, HeldMoved
  <2> QED
    BY <2>1, <2>2
<1>12. ASSUME NEW r \in m10, DrawerSaves!ChangeAnswer(r)
       PROVE  DrawerSaves!HeldInv'
  <2>1. r.kind \in DrawerSaves!Changes /\ r.then = "none" /\ m9 \subseteq DrawerSaves!Saves
    BY <1>12 DEF DrawerSaves!ChangeAnswer, DrawerSaves!Changes, DrawerSaves!Saves, DrawerSaves!HeldInv
  <2>2. CASE r.state = "ok"
    <3> DEFINE t == IF r.kind = "delete" THEN "none" ELSE r.kind
               q == DrawerSaves!Request("detail", m6, r.item, t)
    <3>1. m10' = (m10 \ {r}) \cup {q} /\ UNCHANGED m9
      BY <1>12, <2>2 DEF DrawerSaves!ChangeAnswer, DrawerSaves!FreedByFailure
    <3>2. q.kind = "detail" /\ q.then = t /\ Record(q)
      BY HeldAsked
    <3> HIDE DEF q
    <3>3. \A k \in DrawerSaves!Saves : k \in {q.kind, q.then} <=> k \in {r.kind, r.then}
      BY <2>1, <3>2 DEF DrawerSaves!Saves
    <3> QED
      BY <3>1, <3>2, <3>3, HeldMoved
  <2>3. CASE r.state # "ok"
    <3>1. m10' = m10 \ {r} /\ m9' = m9 \ {r.kind, r.then}
      BY <1>12, <2>1, <2>3 DEF DrawerSaves!ChangeAnswer, DrawerSaves!FreedByFailure, DrawerSaves!Saves
    <3> QED
      BY <3>1, HeldGoneAlone
  <2> QED
    BY <2>2, <2>3
<1>13. ASSUME \/ DrawerSaves!CloseDrawer \/ DrawerSaves!CloseModal \/ DrawerSaves!OpenAddItem
              \/ UNCHANGED DrawerSaves!vars
              \/ \E i \in Line : \/ DrawerSaves!OpenEditItem(i) \/ DrawerSaves!OpenExtendedFields(i)
                                 \/ DrawerSaves!OpenWindows(i) \/ DrawerSaves!AskDelete(i)
       PROVE  DrawerSaves!HeldInv'
  <2>1. UNCHANGED <<m9, m10>>
    BY <1>13 DEF DrawerSaves!CloseDrawer, DrawerSaves!CloseModal, DrawerSaves!OpenAddItem, DrawerSaves!vars,
       DrawerSaves!OpenEditItem, DrawerSaves!OpenExtendedFields, DrawerSaves!OpenWindows,
       DrawerSaves!AskDelete
  <2> QED
    BY <2>1 DEF DrawerSaves!HeldInv, DrawerSaves!Held
<1> QED
  BY <1>2, <1>3, <1>4, <1>5, <1>6, <1>7, <1>8, <1>9, <1>10, <1>11, <1>12, <1>13 DEF DrawerSaves!Next,
     DrawerSaves!User, DrawerSaves!Answer

-----------------------------------------------------------------------------
LEMMA SyncSets ==
  ASSUME NEW S
  PROVE  (Sync!IsFiniteSet(S) <=> IsFiniteSet(S)) /\ Sync!Cardinality(S) = Cardinality(S)
<1>1. Sync!IsFiniteSet(S) <=> IsFiniteSet(S)
  BY DEF Sync!IsFiniteSet, IsFiniteSet
<1>2. Sync!Cardinality(S) = Cardinality(S)
  BY DEF Sync!Cardinality, Cardinality
<1> QED
  BY <1>1, <1>2

LEMMA PendingInit == Sync!DialogAssumption /\ Sync!Init => Sync!PendingInv
<1> SUFFICES ASSUME Sync!DialogAssumption, Sync!Init PROVE Sync!PendingInv
  OBVIOUS
<1>1. Sync!Unanswered = {}
  BY DEF Sync!Init, Sync!Unanswered
<1>2. Sync!FreeJobs \in SUBSET Job
  BY DEF Sync!FreeJobs
<1>3. IsFiniteSet(Sync!FreeJobs)
  BY <1>2, FS_Subset, SyncSets DEF Sync!DialogAssumption
<1>4. Cardinality(Sync!FreeJobs) \in Nat /\ Cardinality(Sync!Unanswered) = 0
  BY <1>1, <1>3, FS_CardinalityType, FS_EmptySet
<1>5. IsFiniteSet(m10)
  BY FS_EmptySet DEF Sync!Init
<1>6. /\ Sync!BusyMeansPending /\ m7 \subseteq Job /\ m10 = {} /\ DOMAIN m1 = Job
      /\ \A j \in Job : {"state", "tries"} \subseteq DOMAIN m1[j] /\ (m2 = j => m1[j].state # "none")
  BY DEF Sync!DialogAssumption, Sync!Init, Sync!BusyMeansPending
<1> QED
  BY <1>4, <1>5, <1>6, SyncSets DEF Sync!PendingInv

LEMMA PendingRoom ==
  ASSUME Sync!DialogAssumption, Sync!PendingInv
  PROVE  IsFiniteSet(Sync!Unanswered) /\ IsFiniteSet(Sync!FreeJobs)
<1>1. Sync!Unanswered \in SUBSET m10 /\ Sync!FreeJobs \in SUBSET Job
  BY DEF Sync!Unanswered, Sync!FreeJobs
<1>2. IsFiniteSet(m10) /\ IsFiniteSet(Job)
  BY SyncSets DEF Sync!DialogAssumption, Sync!PendingInv
<1> QED
  BY <1>1, <1>2, FS_Subset

(* There is still room for the triggers when none is added.                *)
LEMMA PendingFewer ==
  ASSUME Sync!DialogAssumption, Sync!PendingInv,
         Sync!Unanswered' \subseteq Sync!Unanswered, Sync!FreeJobs' = Sync!FreeJobs
  PROVE  Cardinality(Sync!Unanswered') =< Cardinality(Sync!FreeJobs')
<1>1. Cardinality(Sync!Unanswered) =< Cardinality(Sync!FreeJobs)
  BY SyncSets DEF Sync!PendingInv
<1>2. Sync!Unanswered' \in SUBSET Sync!Unanswered
  OBVIOUS
<1>3. Cardinality(Sync!Unanswered') =< Cardinality(Sync!FreeJobs)
  BY <1>1, <1>2, PendingRoom, Room
<1> QED
  BY <1>3

(* A request is replaced by one of the same kind, for a job if it is a poll.*)
LEMMA PendingReplaced ==
  ASSUME Sync!DialogAssumption, Sync!PendingInv, NEW r \in m10, NEW q,
         m10' = (m10 \ {r}) \cup {q}, {"kind", "job", "answer"} \subseteq DOMAIN q,
         q.kind = r.kind, r.kind = "poll" => q.job = r.job,
         q.kind = "trigger" => q.answer # "none",
         q.kind = "trigger" /\ q.answer = "accepted" => q.job \in Job,
         UNCHANGED <<m5, m7>>, DOMAIN m1' = Job,
         \A j \in Job : {"state", "tries"} \subseteq DOMAIN m1'[j]
                        /\ (m2' = j => m1'[j].state # "none"),
         Cardinality(Sync!Unanswered') =< Cardinality(Sync!FreeJobs')
  PROVE  Sync!PendingInv'
<1>1. IsFiniteSet(m10 \ {r})
  BY SyncSets, FS_RemoveElement DEF Sync!PendingInv
<1>2. IsFiniteSet(m10')
  BY <1>1, FS_AddElement
<1>3. Sync!BusyMeansPending'
  BY DEF Sync!PendingInv, Sync!BusyMeansPending, Sync!Pending, Sync!Polled
<1>4. \A p \in m10' : {"kind", "job", "answer"} \subseteq DOMAIN p
  BY DEF Sync!PendingInv
<1>5. \A p \in m10' : p.kind = "poll" \/ (p.kind = "trigger" /\ p.answer = "accepted") => p.job \in Job
  BY DEF Sync!PendingInv
<1> QED
  BY <1>2, <1>3, <1>4, <1>5, SyncSets DEF Sync!PendingInv

LEMMA PendingStep ==
  ASSUME Sync!DialogAssumption, Sync!PendingInv, [Sync!Next]_(Sync!vars)
  PROVE  Sync!PendingInv'
<1>1. ASSUME NEW r \in m10, Sync!ServeTrigger(r)
      PROVE  Sync!PendingInv'
  <2> DEFINE A == Sync!Unanswered
             B == Sync!FreeJobs
             j == CHOOSE i \in B : TRUE
  <2>1. r \in A
    BY <1>1 DEF Sync!ServeTrigger, Sync!Unanswered
  <2>2. IsFiniteSet(A) /\ IsFiniteSet(B) /\ Cardinality(A) =< Cardinality(B)
    BY PendingRoom, SyncSets DEF Sync!PendingInv
  <2> HIDE DEF A, B
  <2>3. j \in B /\ Cardinality(A \ {r}) =< Cardinality(B \ {j}) /\ Cardinality(A \ {r}) =< Cardinality(B)
    BY <2>1, <2>2, Room
  <2> HIDE DEF j
  <2>4. PICK i, a : m10' = (m10 \ {r}) \cup {[r EXCEPT !.job = i, !.answer = a]}
                    /\ \/ a = "conflict" /\ UNCHANGED m1
                       \/ a = "accepted" /\ i = j /\ m1' = [m1 EXCEPT ![j].state = "Enqueued"]
    BY <1>1 DEF Sync!ServeTrigger, Sync!Answered, j, B
  <2> DEFINE q == [r EXCEPT !.job = i, !.answer = a]
  <2>5. /\ q.kind = "trigger" /\ q.job = i /\ q.answer = a
        /\ {"kind", "job", "answer"} \subseteq DOMAIN q
    BY <1>1 DEF Sync!PendingInv, Sync!ServeTrigger
  <2>6. m10' = (m10 \ {r}) \cup {q} /\ r.kind = "trigger" /\ UNCHANGED <<m2, m5, m7>>
    BY <1>1, <2>4 DEF Sync!ServeTrigger, Sync!page
  <2> HIDE DEF q
  <2>7. A' = A \ {r}
    BY <2>4, <2>5, <2>6 DEF A, Sync!Unanswered
  <2>8. j \in Job
    BY <2>3 DEF B, Sync!FreeJobs
  <2>9. B' = IF a = "accepted" THEN B \ {j} ELSE B
    BY <2>4, <2>8 DEF B, Sync!FreeJobs, Sync!PendingInv
  <2>10. Cardinality(A') =< Cardinality(B')
    BY <2>3, <2>7, <2>9
  <2>11. DOMAIN m1' = Job /\ \A k \in Job : {"state", "tries"} \subseteq DOMAIN m1'[k]
                                     /\ (m2' = k => m1'[k].state # "none")
    BY <2>4, <2>6, <2>8 DEF Sync!PendingInv
  <2> QED
    BY <2>4, <2>5, <2>6, <2>8, <2>10, <2>11, PendingReplaced DEF A, B
<1>2. ASSUME NEW r \in m10, Sync!ServeRead(r) \/ Sync!Lose(r)
      PROVE  Sync!PendingInv'
  <2>1. PICK a : m10' = (m10 \ {r}) \cup {[r EXCEPT !.job = r.job, !.answer = a]}
                 /\ (r.kind = "trigger" => a = "lost")
    BY <1>2 DEF Sync!ServeRead, Sync!Lose, Sync!Answered
  <2> DEFINE q == [r EXCEPT !.job = r.job, !.answer = a]
  <2>2. /\ q.kind = r.kind /\ q.job = r.job /\ q.answer = a
        /\ {"kind", "job", "answer"} \subseteq DOMAIN q
    BY DEF Sync!PendingInv
  <2>3. m10' = (m10 \ {r}) \cup {q} /\ UNCHANGED <<m1, m2, m5, m7>>
    BY <1>2, <2>1 DEF Sync!ServeRead, Sync!Lose, Sync!server, Sync!page
  <2> HIDE DEF q
  <2>4. Sync!Unanswered' \subseteq Sync!Unanswered /\ Sync!FreeJobs' = Sync!FreeJobs
    BY <2>1, <2>2, <2>3 DEF Sync!Unanswered, Sync!FreeJobs
  <2>5. Cardinality(Sync!Unanswered') =< Cardinality(Sync!FreeJobs')
    BY <2>4, PendingFewer
  <2>6. DOMAIN m1' = Job /\ \A k \in Job : {"state", "tries"} \subseteq DOMAIN m1'[k]
                                     /\ (m2' = k => m1'[k].state # "none")
    BY <2>3 DEF Sync!PendingInv
  <2> QED
    BY <2>1, <2>2, <2>3, <2>5, <2>6, PendingReplaced
<1>3. ASSUME NEW j \in Job, Sync!Worker(j)
      PROVE  Sync!PendingInv'
  <2>1. UNCHANGED <<m5, m7, m10>>
    BY <1>3 DEF Sync!Worker, Sync!Start, Sync!End, Sync!Retry, Sync!page
  <2>2. /\ DOMAIN m1' = Job /\ m1[j].state # "none"
        /\ \A k \in Job : /\ {"state", "tries"} \subseteq DOMAIN m1'[k] /\ (m2' = k => m1'[k].state # "none")
                          /\ m1'[k].state = "none" <=> m1[k].state = "none"
    <3> USE DEF Sync!PendingInv, Sync!DialogAssumption
    <3>1. CASE Sync!Start(j)
      BY <3>1 DEF Sync!Start
    <3>2. CASE Sync!End(j)
      BY <3>2 DEF Sync!End
    <3>3. CASE Sync!Retry(j)
      BY <3>3 DEF Sync!Retry
    <3> QED
      BY <1>3, <3>1, <3>2, <3>3 DEF Sync!Worker
  <2>3. Sync!Unanswered' \subseteq Sync!Unanswered /\ Sync!FreeJobs' = Sync!FreeJobs
    BY <2>1, <2>2 DEF Sync!Unanswered, Sync!FreeJobs
  <2>4. Cardinality(Sync!Unanswered') =< Cardinality(Sync!FreeJobs')
    BY <2>3, PendingFewer
  <2> QED
    BY <2>1, <2>2, <2>4, SyncSets DEF Sync!PendingInv, Sync!BusyMeansPending, Sync!Pending, Sync!Polled
<1>4. ASSUME NEW r \in m10, Sync!Answer(r)
      PROVE  Sync!PendingInv'
  <2> DEFINE q == [r EXCEPT !.kind = "poll", !.answer = "none"]
  <2>1. q.kind = "poll" /\ q.job = r.job /\ {"kind", "job", "answer"} \subseteq DOMAIN q
    BY DEF Sync!PendingInv
  <2>2. \/ m10' = m10 \ {r}
        \/ r.kind = "trigger" /\ r.answer = "accepted" /\ m10' = (m10 \ {r}) \cup {q}
    BY <1>4 DEF Sync!Answer, Sync!SourcesAnswer, Sync!TriggerAnswer, Sync!PollAgain, Sync!PollComplete,
       Sync!PollFailed
  <2> HIDE DEF q
  <2>3. UNCHANGED <<m1, m2>>
    BY <1>4 DEF Sync!Answer, Sync!SourcesAnswer, Sync!TriggerAnswer, Sync!PollAgain, Sync!PollComplete,
       Sync!PollFailed, Sync!server
  <2>4. Sync!Unanswered' \subseteq Sync!Unanswered /\ Sync!FreeJobs' = Sync!FreeJobs
    BY <2>1, <2>2, <2>3 DEF Sync!Unanswered, Sync!FreeJobs
  <2>5. Cardinality(Sync!Unanswered') =< Cardinality(Sync!FreeJobs')
    BY <2>4, PendingFewer
  <2>6. IsFiniteSet(m10')
    <3>1. IsFiniteSet(m10 \ {r})
      BY SyncSets, FS_RemoveElement DEF Sync!PendingInv
    <3>2. IsFiniteSet((m10 \ {r}) \cup {q})
      BY <3>1, FS_AddElement
    <3> QED
      BY <2>2, <3>1, <3>2
  <2>7. Sync!BusyMeansPending' /\ m7' \subseteq Job
    <3> USE DEF Sync!PendingInv, Sync!BusyMeansPending, Sync!Pending, Sync!Polled
    <3>1. CASE Sync!SourcesAnswer(r)
      BY <3>1 DEF Sync!SourcesAnswer
    <3>2. CASE Sync!TriggerAnswer(r)
      BY <3>2, <2>1 DEF Sync!TriggerAnswer, Sync!ArmedFor, q
    <3>3. CASE Sync!PollAgain(r)
      BY <3>3 DEF Sync!PollAgain
    <3>4. CASE Sync!PollComplete(r)
      BY <3>4 DEF Sync!PollComplete, Sync!Hidden
    <3>5. CASE Sync!PollFailed(r)
      BY <3>5 DEF Sync!PollFailed, Sync!ResetBusy
    <3> QED
      BY <1>4, <3>1, <3>2, <3>3, <3>4, <3>5 DEF Sync!Answer
  <2>8. \A p \in m10' : /\ {"kind", "job", "answer"} \subseteq DOMAIN p
                        /\ p.kind = "poll" \/ (p.kind = "trigger" /\ p.answer = "accepted") => p.job \in Job
    BY <2>1, <2>2 DEF Sync!PendingInv
  <2> QED
    BY <2>3, <2>5, <2>6, <2>7, <2>8, SyncSets DEF Sync!PendingInv
<1>5. ASSUME NEW k, NEW j, k = "poll" => j \in Job /\ j \in m7,
             m10' = m10 \cup {Sync!Request(k, j)}, UNCHANGED <<m1, m2>>,
             \/ Sync!Click /\ k = "sources"
             \/ Sync!Trigger /\ k = "trigger"
             \/ Sync!PollTimer(j) /\ k = "poll"
      PROVE  Sync!PendingInv'
  <2> DEFINE q == Sync!Request(k, j)
  <2>1. q.kind = k /\ q.job = j /\ q.answer = "none" /\ {"kind", "job", "answer"} \subseteq DOMAIN q
    BY DEF Sync!Request
  <2> HIDE DEF q
  <2>2. m10' = m10 \cup {q}
    BY <1>5 DEF q
  <2>3. Cardinality(Sync!Unanswered') =< Cardinality(Sync!FreeJobs')
    <3>1. CASE k = "trigger"
      <4>1. Sync!Unanswered' = Sync!Unanswered \cup {q} /\ Sync!FreeJobs' = Sync!FreeJobs
        BY <3>1, <2>1, <2>2, <1>5 DEF Sync!Unanswered, Sync!FreeJobs
      <4>2. Cardinality(Sync!Unanswered) < Cardinality(Sync!FreeJobs)
        BY <1>5, <3>1, SyncSets DEF Sync!Trigger
      <4> QED
        BY <4>1, <4>2, PendingRoom, RoomForOne
    <3>2. CASE k # "trigger"
      <4>1. Sync!Unanswered' \subseteq Sync!Unanswered /\ Sync!FreeJobs' = Sync!FreeJobs
        BY <3>2, <2>1, <2>2, <1>5 DEF Sync!Unanswered, Sync!FreeJobs
      <4> QED
        BY <4>1, PendingFewer
    <3> QED
      BY <3>1, <3>2
  <2>4. IsFiniteSet(m10')
    BY <2>2, SyncSets, FS_AddElement DEF Sync!PendingInv
  <2>5. Sync!BusyMeansPending' /\ m7' \subseteq Job
    BY <1>5, <2>1, <2>2 DEF Sync!PendingInv, Sync!BusyMeansPending, Sync!Pending, Sync!Polled, Sync!Click,
       Sync!Trigger, Sync!PollTimer
  <2>6. \A p \in m10' : /\ {"kind", "job", "answer"} \subseteq DOMAIN p
                        /\ p.kind = "poll" \/ (p.kind = "trigger" /\ p.answer = "accepted") => p.job \in Job
    BY <1>5, <2>1, <2>2 DEF Sync!PendingInv
  <2> QED
    BY <1>5, <2>3, <2>4, <2>5, <2>6, SyncSets DEF Sync!PendingInv
<1>6. CASE Sync!Click
  BY <1>5, <1>6 DEF Sync!Click, Sync!server
<1>7. CASE Sync!Trigger
  BY <1>5, <1>7 DEF Sync!Trigger, Sync!server
<1>8. ASSUME NEW j \in Job, Sync!PollTimer(j)
      PROVE  Sync!PendingInv'
  BY <1>5, <1>8 DEF Sync!PollTimer, Sync!server
<1>9. ASSUME Sync!Dismiss \/ Sync!StartRecurring \/ Sync!EndRecurring \/ UNCHANGED Sync!vars
      PROVE  Sync!PendingInv'
  <2>1. UNCHANGED <<m1, m10>> /\ m7' \subseteq m7 /\ (m2' \in Job => m2' = m2)
        /\ (m5' = FALSE \/ (m5' = m5 /\ m7' = m7))
    BY <1>9 DEF Sync!Dismiss, Sync!StartRecurring, Sync!EndRecurring, Sync!vars, Sync!Hidden, Sync!server,
       Sync!page, Sync!DialogAssumption
  <2>2. Sync!Unanswered' \subseteq Sync!Unanswered /\ Sync!FreeJobs' = Sync!FreeJobs
    BY <2>1 DEF Sync!Unanswered, Sync!FreeJobs
  <2>3. Cardinality(Sync!Unanswered') =< Cardinality(Sync!FreeJobs')
    BY <2>2, PendingFewer
  <2> QED
    BY <2>1, <2>3, SyncSets DEF Sync!PendingInv, Sync!BusyMeansPending, Sync!Pending, Sync!Polled
<1> QED
  BY <1>1, <1>2, <1>3, <1>4, <1>6, <1>7, <1>8, <1>9 DEF Sync!Next, Sync!Serve

(* A job nobody runs is left for every trigger the server has to answer.   *)
LEMMA ReportRoom ==
  ASSUME Sync!DialogAssumption, Sync!PendingInv, NEW r \in m10,
         r.kind = "trigger", r.answer = "none"
  PROVE  (CHOOSE i \in Sync!FreeJobs : TRUE) \in Sync!FreeJobs
<1> DEFINE A == Sync!Unanswered
           B == Sync!FreeJobs
<1>1. r \in A
  BY DEF Sync!Unanswered
<1>2. IsFiniteSet(A) /\ IsFiniteSet(B) /\ Cardinality(A) =< Cardinality(B)
  BY PendingRoom, SyncSets DEF Sync!PendingInv
<1> HIDE DEF A, B
<1>3. (CHOOSE i \in B : TRUE) \in B
  BY <1>1, <1>2, Room
<1> QED
  BY <1>3 DEF B

LEMMA ReportHas ==
  ASSUME Sync!ReportInv
  PROVE  /\ \A r, q \in Sync!Following : r.job = q.job => r = q
         /\ \A r \in Sync!Following :
              /\ r.job \notin m7 /\ r.job \notin m9 /\ m1[r.job].state # "none"
              /\ r.answer = "Succeeded" => m1[r.job].state = "Succeeded"
         /\ \A j \in m7 : j \notin m9 /\ m1[j].state # "none"
         /\ m9 \subseteq Job /\ \A j \in m9 : m1[j].state = "Succeeded"
         /\ \A j \in Job : m2 = j => m1[j].state = "Processing"
BY DEF Sync!ReportInv

LEMMA ReportNext ==
  ASSUME \A r, q \in Sync!Following' : r.job = q.job => r = q,
         \A r \in Sync!Following' :
              /\ r.job \notin m7' /\ r.job \notin m9' /\ m1'[r.job].state # "none"
              /\ r.answer = "Succeeded" => m1'[r.job].state = "Succeeded",
         \A j \in m7' : j \notin m9' /\ m1'[j].state # "none",
         m9' \subseteq Job, \A j \in m9' : m1'[j].state = "Succeeded",
         \A j \in Job : m2' = j => m1'[j].state = "Processing"
  PROVE  Sync!ReportInv'
BY DEF Sync!ReportInv

(* A job is followed by one thing at a time, and by nothing once it is     *)
(* reported.                                                               *)
LEMMA ReportInit == Sync!DialogAssumption /\ Sync!Init => Sync!ReportInv
<1> SUFFICES ASSUME Sync!DialogAssumption, Sync!Init PROVE Sync!ReportInv
  OBVIOUS
<1>1. Sync!Following = {} /\ m7 = {} /\ m9 = {} /\ m2 = None
  BY DEF Sync!Init, Sync!Following
<1>2. \A j \in Job : m2 # j
  BY <1>1 DEF Sync!DialogAssumption
<1> QED
  BY <1>1, <1>2 DEF Sync!ReportInv

(* A job is followed by what followed it before, and no other.             *)
LEMMA ReportFollowed ==
  ASSUME Sync!ReportInv, NEW r \in Sync!Following, NEW x, x.job = r.job,
         x.answer = "Succeeded" => m1[r.job].state = "Succeeded",
         Sync!Following' \subseteq (Sync!Following \ {r}) \cup {x},
         UNCHANGED <<m1, m2, m7, m9>>
  PROVE  Sync!ReportInv'
BY ReportHas, ReportNext

LEMMA ReportFewer ==
  ASSUME Sync!ReportInv, Sync!Following' \subseteq Sync!Following, UNCHANGED <<m1, m2, m9>>,
         m7' \subseteq m7
  PROVE  Sync!ReportInv'
BY ReportHas, ReportNext

LEMMA ReportStep ==
  ASSUME Sync!DialogAssumption, Sync!PendingInv, Sync!ReportInv, [Sync!Next]_(Sync!vars)
  PROVE  Sync!ReportInv'
<1>0. /\ \A r \in m10 : {"kind", "job", "answer"} \subseteq DOMAIN r
      /\ \A r \in Sync!Following : r \in m10 /\ r.job \in Job
      /\ m7 \subseteq Job /\ DOMAIN m1 = Job
      /\ \A j \in Job : {"state", "tries"} \subseteq DOMAIN m1[j]
  BY DEF Sync!PendingInv, Sync!Following
<1>1. ASSUME NEW r \in m10, Sync!ServeTrigger(r)
      PROVE  Sync!ReportInv'
  <2> DEFINE j == CHOOSE i \in Sync!FreeJobs : TRUE
             x == [r EXCEPT !.job = j, !.answer = "accepted"]
             y == [r EXCEPT !.job = None, !.answer = "conflict"]
  <2>1. j \in Job /\ m1[j].state = "none"
    <3>1. j \in Sync!FreeJobs
      BY <1>1, ReportRoom DEF Sync!ServeTrigger
    <3> QED
      BY <3>1 DEF Sync!FreeJobs
  <2>2. /\ UNCHANGED <<m2, m7, m9>>
        /\ \/ m10' = (m10 \ {r}) \cup {y} /\ UNCHANGED m1
           \/ m10' = (m10 \ {r}) \cup {x} /\ m1' = [m1 EXCEPT ![j].state = "Enqueued"] /\ m2 = None
    BY <1>1 DEF Sync!ServeTrigger, Sync!Answered, Sync!page
  <2>3. /\ x.kind = "trigger" /\ x.job = j /\ x.answer = "accepted"
        /\ y.kind = "trigger" /\ y.answer = "conflict"
    BY <1>0, <1>1 DEF Sync!ServeTrigger
  <2> HIDE DEF j, x, y
  <2>4. CASE m10' = (m10 \ {r}) \cup {y} /\ UNCHANGED m1
    <3>1. Sync!Following' \subseteq Sync!Following
      BY <2>3, <2>4 DEF Sync!Following
    <3> QED
      BY <2>2, <2>4, <3>1, ReportFewer
  <2>5. CASE m10' = (m10 \ {r}) \cup {x} /\ m1' = [m1 EXCEPT ![j].state = "Enqueued"] /\ m2 = None
    <3>1. Sync!Following' \subseteq Sync!Following \cup {x}
      BY <2>3, <2>5 DEF Sync!Following
    <3>2. /\ m1'[j].state = "Enqueued" /\ \A k \in Job : k # j => m1'[k] = m1[k]
          /\ \A k \in Job : m2' # k
      BY <1>0, <2>1, <2>2, <2>5 DEF Sync!DialogAssumption
    <3>3. \A q \in Sync!Following : q.job # j
      BY <2>1, ReportHas
    <3>4. j \notin m7 /\ j \notin m9
      BY <2>1, ReportHas
    <3>5. \A p, q \in Sync!Following' : p.job = q.job => p = q
      BY <2>3, <3>1, <3>3, ReportHas
    <3>6. \A q \in Sync!Following' :
             /\ q.job \notin m7' /\ q.job \notin m9' /\ m1'[q.job].state # "none"
             /\ q.answer = "Succeeded" => m1'[q.job].state = "Succeeded"
      BY <1>0, <2>2, <2>3, <3>1, <3>2, <3>3, <3>4, ReportHas
    <3>7. /\ \A k \in m7' : k \notin m9' /\ m1'[k].state # "none"
          /\ m9' \subseteq Job /\ \A k \in m9' : m1'[k].state = "Succeeded"
      BY <1>0, <2>2, <3>2, <3>4, ReportHas
    <3> QED
      BY <3>2, <3>5, <3>6, <3>7, ReportNext
  <2> QED
    BY <2>2, <2>4, <2>5
<1>2. ASSUME NEW r \in m10, Sync!ServeRead(r) \/ Sync!Lose(r)
      PROVE  Sync!ReportInv'
  <2>1. PICK a : /\ m10' = (m10 \ {r}) \cup {[r EXCEPT !.job = r.job, !.answer = a]}
                 /\ r.kind = "trigger" => a = "lost"
                 /\ r.kind = "poll" /\ a = "Succeeded" => m1[r.job].state = "Succeeded"
    BY <1>2 DEF Sync!ServeRead, Sync!Lose, Sync!Answered
  <2> DEFINE x == [r EXCEPT !.job = r.job, !.answer = a]
  <2>2. x.kind = r.kind /\ x.job = r.job /\ x.answer = a
    BY <1>0
  <2>3. m10' = (m10 \ {r}) \cup {x} /\ UNCHANGED <<m1, m2, m7, m9>>
    BY <1>2, <2>1 DEF Sync!ServeRead, Sync!Lose, Sync!server, Sync!page
  <2> HIDE DEF x
  <2>4. CASE r.kind = "poll"
    <3>1. r \in Sync!Following /\ Sync!Following' \subseteq (Sync!Following \ {r}) \cup {x}
      BY <2>3, <2>4 DEF Sync!Following
    <3> QED
      BY <2>1, <2>2, <2>3, <2>4, <3>1, ReportFollowed
  <2>5. CASE r.kind # "poll"
    <3>1. Sync!Following' \subseteq Sync!Following
      BY <2>1, <2>2, <2>3, <2>5 DEF Sync!Following
    <3> QED
      BY <2>3, <3>1, ReportFewer
  <2> QED
    BY <2>4, <2>5
<1>3. ASSUME NEW j \in Job, Sync!Worker(j)
      PROVE  Sync!ReportInv'
  <2>1. UNCHANGED <<m7, m9, m10>>
    BY <1>3 DEF Sync!Worker, Sync!Start, Sync!End, Sync!Retry, Sync!page
  <2>2. Sync!Following' = Sync!Following
    BY <2>1 DEF Sync!Following
  <2>3. m1'[j].state # "none" /\ \A k \in Job : k # j => m1'[k] = m1[k]
    <3>1. CASE Sync!Start(j)
      BY <1>0, <3>1 DEF Sync!Start
    <3>2. CASE Sync!End(j)
      BY <1>0, <3>2 DEF Sync!End
    <3>3. CASE Sync!Retry(j)
      BY <1>0, <3>3 DEF Sync!Retry
    <3> QED
      BY <1>3, <3>1, <3>2, <3>3 DEF Sync!Worker
  <2>4. m1[j].state \notin {"none", "Succeeded"}
    BY <1>3, ReportHas DEF Sync!Worker, Sync!Start, Sync!End, Sync!Retry
  <2>5. \A k \in Job : m2' = k => m1'[k].state = "Processing"
    <3>1. CASE Sync!Start(j)
      BY <1>0, <3>1, ReportHas DEF Sync!Start, Sync!DialogAssumption
    <3>2. CASE Sync!End(j)
      BY <3>2 DEF Sync!End, Sync!DialogAssumption
    <3>3. CASE Sync!Retry(j)
      BY <2>3, <3>3, ReportHas DEF Sync!Retry
    <3> QED
      BY <1>3, <3>1, <3>2, <3>3 DEF Sync!Worker
  <2>6. \A q \in Sync!Following' :
             /\ q.job \notin m7' /\ q.job \notin m9' /\ m1'[q.job].state # "none"
             /\ q.answer = "Succeeded" => m1'[q.job].state = "Succeeded"
    BY <1>0, <2>1, <2>2, <2>3, <2>4, ReportHas
  <2>7. /\ \A k \in m7' : k \notin m9' /\ m1'[k].state # "none"
        /\ m9' \subseteq Job /\ \A k \in m9' : m1'[k].state = "Succeeded"
    BY <1>0, <2>1, <2>3, <2>4, ReportHas
  <2> QED
    BY <2>2, <2>5, <2>6, <2>7, ReportHas, ReportNext
<1>4. ASSUME NEW r \in m10, Sync!TriggerAnswer(r)
      PROVE  Sync!ReportInv'
  <2> DEFINE x == [r EXCEPT !.kind = "poll", !.answer = "none"]
  <2>1. UNCHANGED <<m1, m2, m7, m9>>
    BY <1>4 DEF Sync!TriggerAnswer, Sync!ArmedFor, Sync!server
  <2>2. x.kind = "poll" /\ x.job = r.job /\ x.answer = "none"
    BY <1>0
  <2>3. \/ m10' = m10 \ {r}
        \/ r \in Sync!Following /\ m10' = (m10 \ {r}) \cup {x}
    BY <1>4 DEF Sync!TriggerAnswer, Sync!Following
  <2> HIDE DEF x
  <2>4. CASE m10' = m10 \ {r}
    <3>1. Sync!Following' \subseteq Sync!Following
      BY <2>4 DEF Sync!Following
    <3> QED
      BY <2>1, <3>1, ReportFewer
  <2>5. CASE r \in Sync!Following /\ m10' = (m10 \ {r}) \cup {x}
    <3>1. Sync!Following' \subseteq (Sync!Following \ {r}) \cup {x}
      BY <2>5 DEF Sync!Following
    <3> QED
      BY <2>1, <2>2, <2>5, <3>1, ReportFollowed
  <2> QED
    BY <2>3, <2>4, <2>5
<1>5. ASSUME NEW r \in m10, Sync!SourcesAnswer(r) \/ Sync!PollFailed(r)
      PROVE  Sync!ReportInv'
  <2>1. m10' = m10 \ {r} /\ UNCHANGED <<m1, m2, m7, m9>>
    BY <1>5 DEF Sync!SourcesAnswer, Sync!PollFailed, Sync!server
  <2>2. Sync!Following' \subseteq Sync!Following
    BY <2>1 DEF Sync!Following
  <2> QED
    BY <2>1, <2>2, ReportFewer
<1>6. ASSUME NEW r \in m10, Sync!PollAgain(r) \/ Sync!PollComplete(r)
      PROVE  Sync!ReportInv'
  <2>1. r \in Sync!Following /\ m10' = m10 \ {r} /\ UNCHANGED <<m1, m2>>
    BY <1>6 DEF Sync!PollAgain, Sync!PollComplete, Sync!server, Sync!Following
  <2>2. Sync!Following' \subseteq Sync!Following \ {r}
    BY <2>1 DEF Sync!Following
  <2>3. \/ m7' = m7 \cup {r.job} /\ m9' = m9
        \/ m7' \subseteq m7 /\ m9' = m9 \cup {r.job} /\ m1[r.job].state = "Succeeded"
    <3>1. CASE Sync!PollAgain(r)
      BY <3>1 DEF Sync!PollAgain
    <3>2. CASE Sync!PollComplete(r)
      BY <2>1, <3>2, ReportHas DEF Sync!PollComplete, Sync!Complete, Sync!Hidden
    <3> QED
      BY <1>6, <3>1, <3>2
  <2>4. \A q \in Sync!Following' : q \in Sync!Following /\ q.job # r.job
    BY <2>1, <2>2, ReportHas
  <2> QED
    BY <1>0, <2>1, <2>3, <2>4, ReportHas, ReportNext
<1>7. ASSUME NEW j \in Job, Sync!PollTimer(j)
      PROVE  Sync!ReportInv'
  <2> DEFINE x == Sync!Request("poll", j)
  <2>1. m10' = m10 \cup {x} /\ m7' = m7 \ {j} /\ j \in m7 /\ UNCHANGED <<m1, m2, m9>>
    BY <1>7 DEF Sync!PollTimer, Sync!server
  <2>2. x.kind = "poll" /\ x.job = j /\ x.answer = "none"
    BY DEF Sync!Request
  <2> HIDE DEF x
  <2>3. Sync!Following' \subseteq Sync!Following \cup {x}
    BY <2>1 DEF Sync!Following
  <2> QED
    BY <2>1, <2>2, <2>3, ReportHas, ReportNext
<1>8. ASSUME Sync!Click \/ Sync!Trigger
      PROVE  Sync!ReportInv'
  <2>1. /\ m10' = m10 \cup {Sync!Request("sources", None)} \/ m10' = m10 \cup {Sync!Request("trigger", None)}
        /\ UNCHANGED <<m1, m2, m7, m9>>
    BY <1>8 DEF Sync!Click, Sync!Trigger, Sync!server
  <2>2. Sync!Following' \subseteq Sync!Following
    BY <2>1 DEF Sync!Following, Sync!Request
  <2> QED
    BY <2>1, <2>2, ReportFewer
<1>9. ASSUME Sync!Dismiss \/ Sync!StartRecurring \/ Sync!EndRecurring \/ UNCHANGED Sync!vars
      PROVE  Sync!ReportInv'
  <2>1. UNCHANGED <<m1, m9, m10>> /\ m7' \subseteq m7 /\ m2' \in {m2, None, Recurring}
    BY <1>9 DEF Sync!Dismiss, Sync!Hidden, Sync!StartRecurring, Sync!EndRecurring, Sync!vars,
       Sync!server, Sync!page
  <2>2. Sync!Following' = Sync!Following
    BY <2>1 DEF Sync!Following
  <2>3. \A j \in Job : m2' = j => m1'[j].state = "Processing"
    BY <2>1, ReportHas DEF Sync!DialogAssumption
  <2> QED
    BY <2>1, <2>2, <2>3, ReportHas, ReportNext
<1> QED
  BY <1>1, <1>2, <1>3, <1>4, <1>5, <1>6, <1>7, <1>8, <1>9 DEF Sync!Next, Sync!Serve, Sync!Answer, Sync!Worker

-----------------------------------------------------------------------------
LEMMA ImportsSets ==
  ASSUME NEW S
  PROVE  (Imports!IsFiniteSet(S) <=> IsFiniteSet(S)) /\ Imports!Cardinality(S) = Cardinality(S)
<1>1. Imports!IsFiniteSet(S) <=> IsFiniteSet(S)
  BY DEF Imports!IsFiniteSet, IsFiniteSet
<1>2. Imports!Cardinality(S) = Cardinality(S)
  BY DEF Imports!Cardinality, Cardinality
<1> QED
  BY <1>1, <1>2

LEMMA ConfirmInit == Imports!ImportsAssumption /\ Imports!Init => Imports!ConfirmInv
<1> SUFFICES ASSUME Imports!ImportsAssumption, Imports!Init PROVE Imports!ConfirmInv
  OBVIOUS
<1>1. m7 = {} /\ Imports!Uploading = {} /\ Imports!Confirming = {} /\ Imports!Validated = {}
  BY DEF Imports!Init, Imports!Uploading, Imports!Confirming, Imports!Validated
<1>2. Imports!Unread \in SUBSET Workbook
  BY DEF Imports!Unread
<1>3. IsFiniteSet(Imports!Unread) /\ IsFiniteSet(m7)
  BY <1>1, <1>2, FS_EmptySet, FS_Subset, ImportsSets DEF Imports!ImportsAssumption
<1>4. Cardinality(Imports!Unread) \in Nat /\ Cardinality(Imports!Uploading) = 0
  BY <1>1, <1>3, FS_CardinalityType, FS_EmptySet
<1>5. /\ Imports!ConfirmedOnce /\ m5 = None /\ m8 = {} /\ DOMAIN m1 = Workbook
      /\ DOMAIN m2 = {"dropzone", "preview", "status", "actions"} /\ DOMAIN m3 = {"hidden", "disabled"}
  BY DEF Imports!Init, Imports!ConfirmedOnce
<1> QED
  BY <1>1, <1>3, <1>4, <1>5, ImportsSets DEF Imports!ConfirmInv

LEMMA ConfirmRoom ==
  ASSUME Imports!ImportsAssumption, Imports!ConfirmInv
  PROVE  /\ IsFiniteSet(Imports!Uploading) /\ IsFiniteSet(Imports!Unread)
         /\ Cardinality(Imports!Uploading) =< Cardinality(Imports!Unread)
<1>1. Imports!Uploading \in SUBSET m7 /\ Imports!Unread \in SUBSET Workbook
  BY DEF Imports!Uploading, Imports!Unread
<1>2. /\ IsFiniteSet(m7) /\ IsFiniteSet(Workbook)
      /\ Cardinality(Imports!Uploading) =< Cardinality(Imports!Unread)
  BY ImportsSets DEF Imports!ImportsAssumption, Imports!ConfirmInv
<1> QED
  BY <1>1, <1>2, FS_Subset

(* The records among the variables.                                        *)
Shaped ==
    /\ DOMAIN m2 = {"dropzone", "preview", "status", "actions"} /\ DOMAIN m3 = {"hidden", "disabled"}
    /\ \A r \in m7 \cup m8 : {"kind", "run", "answer", "attempt"} \subseteq DOMAIN r
    /\ \A r \in m8 : r.kind = "poll"
    /\ DOMAIN m1 = Workbook

(* Nothing is uploaded, validated or confirmed anew.                       *)
LEMMA ConfirmKept ==
  ASSUME Imports!ImportsAssumption, Imports!ConfirmInv, Shaped', Imports!ConfirmedOnce', IsFiniteSet(m7'),
         \A r \in Imports!Confirming' : \E q \in Imports!Confirming : q.run = r.run,
         Imports!Validated' \subseteq Imports!Validated, Imports!Uploading' \subseteq Imports!Uploading,
         \A r \in Workbook : m1'[r] = "none" <=> m1[r] = "none", m5' \in {m5, None}
  PROVE  Imports!ConfirmInv'
<1>1. Imports!Unread' = Imports!Unread /\ Imports!Uploading' \in SUBSET Imports!Uploading
  BY DEF Imports!Unread
<1>2. Cardinality(Imports!Uploading') =< Cardinality(Imports!Unread')
  <2>1. Cardinality(Imports!Uploading') =< Cardinality(Imports!Unread)
    BY <1>1, ConfirmRoom, Room
  <2> QED
    BY <1>1, <2>1
<1>3. \A r \in Imports!Confirming' : r.run \in Workbook /\ m1'[r.run] # "none"
  BY DEF Imports!ConfirmInv
<1>4. m5' # None => m5' \in Workbook /\ m1'[m5'] # "none"
  BY DEF Imports!ConfirmInv
<1>5. \A r \in Imports!Validated' :
        /\ r.run \in Workbook /\ m1'[r.run] # "none" /\ r.run # m5'
        /\ \A q \in Imports!Confirming' : q.run # r.run
        /\ \A q \in Imports!Validated' : q.run = r.run => q = r
  BY DEF Imports!ConfirmInv, Imports!ImportsAssumption
<1> QED
  BY <1>2, <1>3, <1>4, <1>5, ImportsSets DEF Imports!ConfirmInv, Shaped

LEMMA ConfirmStep ==
  ASSUME Imports!ImportsAssumption, Imports!ConfirmInv, [Imports!Next]_(Imports!vars)
  PROVE  Imports!ConfirmInv'
<1> DEFINE Record(q) == {"kind", "run", "answer", "attempt"} \subseteq DOMAIN q
<1>0. Shaped /\ IsFiniteSet(m7) /\ Imports!ConfirmedOnce
  BY ImportsSets DEF Imports!ConfirmInv, Shaped
<1>a. ASSUME NEW r, NEW q
      PROVE  IsFiniteSet(m7 \ {r}) /\ IsFiniteSet(m7 \cup {q}) /\ IsFiniteSet((m7 \ {r}) \cup {q})
  <2>1. IsFiniteSet(m7 \ {r})
    BY <1>0, FS_RemoveElement
  <2> QED
    BY <1>0, <2>1, FS_AddElement
(* The server answers, or the network loses, a request.                    *)
<1>1. ASSUME NEW r \in m7, NEW q, Record(q), q.kind = r.kind, q.run = r.run, m7' = (m7 \ {r}) \cup {q},
             q.kind = "upload" => q.answer \notin {"none", "validated", "validation_failed"},
             DOMAIN m1' = Workbook, \A x \in Workbook : m1'[x] = "none" <=> m1[x] = "none",
             UNCHANGED <<m2, m3, m4, m5, m8>>
      PROVE  Imports!ConfirmInv'
  <2>1. Shaped'
    BY <1>0, <1>1 DEF Shaped
  <2>2. Imports!ConfirmedOnce'
    BY <1>0, <1>1 DEF Imports!ConfirmedOnce
  <2>3. \A x \in Imports!Confirming' : \E y \in Imports!Confirming : y.run = x.run
    BY <1>1 DEF Imports!Confirming
  <2>4. Imports!Validated' \subseteq Imports!Validated /\ Imports!Uploading' \subseteq Imports!Uploading
    BY <1>1 DEF Imports!Validated, Imports!Uploading
  <2>5. IsFiniteSet(m7')
    BY <1>1, <1>a
  <2> QED
    BY <1>1, <2>1, <2>2, <2>3, <2>4, <2>5, ConfirmKept
<1>2. ASSUME NEW r \in m7, Imports!ServeConfirm(r) \/ Imports!ServePoll(r) \/ Imports!Lose(r)
      PROVE  Imports!ConfirmInv'
  <2>1. PICK a : m7' = (m7 \ {r}) \cup {[r EXCEPT !.answer = a]} /\ (r.kind = "upload" => a = "lost")
    BY <1>2 DEF Imports!ServeConfirm, Imports!ServePoll, Imports!Lose
  <2> DEFINE q == [r EXCEPT !.answer = a]
  <2>2. Record(q) /\ q.kind = r.kind /\ q.run = r.run /\ q.answer = a
    BY <1>0 DEF Shaped
  <2>3. m7' = (m7 \ {r}) \cup {q} /\ UNCHANGED <<m2, m3, m4, m5, m8>>
    BY <1>2, <2>1 DEF Imports!ServeConfirm, Imports!ServePoll, Imports!Lose
  <2> HIDE DEF q
  <2>4. DOMAIN m1' = Workbook /\ \A x \in Workbook : m1'[x] = "none" <=> m1[x] = "none"
    BY <1>0, <1>2 DEF Imports!ServeConfirm, Imports!ServePoll, Imports!Lose, Shaped
  <2> QED
    BY <1>1, <2>1, <2>2, <2>3, <2>4
(* A workbook is refused, or it is read and has a run of its own.          *)
<1>3. ASSUME NEW r \in m7, Imports!ServeUpload(r)
      PROVE  Imports!ConfirmInv'
  <2>1. r.kind = "upload" /\ r.answer = "none" /\ UNCHANGED <<m2, m3, m4, m5, m8>>
    BY <1>3 DEF Imports!ServeUpload
  <2>2. CASE UNCHANGED m1 /\ m7' = (m7 \ {r}) \cup {[r EXCEPT !.answer = "refused"]}
    <3> DEFINE q == [r EXCEPT !.answer = "refused"]
    <3>1. Record(q) /\ q.kind = r.kind /\ q.run = r.run /\ q.answer = "refused"
      BY <1>0 DEF Shaped
    <3>2. m7' = (m7 \ {r}) \cup {q} /\ DOMAIN m1' = Workbook
      BY <1>0, <2>2 DEF Shaped
    <3> HIDE DEF q
    <3> QED
      BY <1>1, <2>1, <2>2, <3>1, <3>2
  <2>3. ASSUME NEW s \in {"validated", "validation_failed"}, m1' = [m1 EXCEPT ![Imports!Fresh] = s],
               m7' = (m7 \ {r}) \cup {[r EXCEPT !.run = Imports!Fresh, !.answer = s]}
        PROVE  Imports!ConfirmInv'
    <3> DEFINE A == Imports!Uploading
               B == Imports!Unread
               f == Imports!Fresh
               q == [r EXCEPT !.run = f, !.answer = s]
    <3>1. r \in A
      BY <2>1 DEF Imports!Uploading
    <3>2. IsFiniteSet(A) /\ IsFiniteSet(B) /\ Cardinality(A) =< Cardinality(B)
      BY ConfirmRoom
    <3> HIDE DEF A, B
    <3>3. f \in B /\ Cardinality(A \ {r}) =< Cardinality(B \ {f})
      BY <3>1, <3>2, Room DEF Imports!Fresh, B
    <3> HIDE DEF f
    <3>4. f \in Workbook /\ m1[f] = "none"
      BY <3>3 DEF B, Imports!Unread
    <3>5. Record(q) /\ q.kind = "upload" /\ q.run = f /\ q.answer = s
      BY <1>0, <2>1 DEF Shaped
    <3>6. m7' = (m7 \ {r}) \cup {q} /\ m1' = [m1 EXCEPT ![f] = s]
      BY <2>3 DEF f
    <3> HIDE DEF q
    <3>7. /\ Imports!Validated' = Imports!Validated \cup {q}
          /\ Imports!Confirming' = Imports!Confirming
          /\ A' = A \ {r}
      BY <2>1, <3>5, <3>6 DEF Imports!Validated, Imports!Confirming, A, Imports!Uploading
    <3>8. DOMAIN m1' = Workbook /\ \A x \in Workbook : m1'[x] = IF x = f THEN s ELSE m1[x]
      BY <1>0, <3>4, <3>6 DEF Shaped
    <3>9. B' = B \ {f}
      BY <3>8, <3>4 DEF B, Imports!Unread
    <3>10. Shaped' /\ IsFiniteSet(m7')
      BY <1>0, <1>a, <2>1, <3>5, <3>6, <3>8 DEF Shaped
    <3>11. Imports!ConfirmedOnce'
      BY <1>0, <2>1, <3>5, <3>6 DEF Imports!ConfirmedOnce
    <3>12. \A x \in Imports!Confirming' : x.run \in Workbook /\ m1'[x.run] # "none"
      BY <3>7, <3>8 DEF Imports!ConfirmInv
    <3>13. m5' # None => m5' \in Workbook /\ m1'[m5'] # "none"
      BY <2>1, <3>8 DEF Imports!ConfirmInv
    <3>14. \A x \in Imports!Validated' :
             /\ x.run \in Workbook /\ m1'[x.run] # "none" /\ x.run # m5'
             /\ \A y \in Imports!Confirming' : y.run # x.run
             /\ \A y \in Imports!Validated' : y.run = x.run => y = x
      BY <2>1, <3>4, <3>5, <3>7, <3>8 DEF Imports!ConfirmInv, Imports!ImportsAssumption
    <3>15. Cardinality(A') =< Cardinality(B')
      BY <3>3, <3>7, <3>9
    <3> QED
      BY <3>10, <3>11, <3>12, <3>13, <3>14, <3>15, ImportsSets DEF Imports!ConfirmInv, Shaped, A, B
  <2> QED
    BY <1>3, <2>2, <2>3 DEF Imports!ServeUpload
<1>4. ASSUME NEW r \in Workbook, Imports!Work(r)
      PROVE  Imports!ConfirmInv'
  <2>1. /\ UNCHANGED <<m2, m3, m4, m5, m7, m8>> /\ DOMAIN m1' = Workbook
        /\ \A x \in Workbook : m1'[x] = "none" <=> m1[x] = "none"
    BY <1>0, <1>4 DEF Imports!Work, Shaped
  <2>2. Shaped' /\ Imports!ConfirmedOnce' /\ IsFiniteSet(m7')
    BY <1>0, <2>1 DEF Shaped, Imports!ConfirmedOnce
  <2>3. /\ Imports!Confirming' = Imports!Confirming
        /\ Imports!Validated' = Imports!Validated /\ Imports!Uploading' = Imports!Uploading
    BY <2>1 DEF Imports!Confirming, Imports!Validated, Imports!Uploading
  <2> QED
    BY <2>1, <2>2, <2>3, ConfirmKept
(* An answer that is no preview, a poll, or a question.                    *)
<1>5. ASSUME NEW r \in m7, m7' = m7 \ {r}, UNCHANGED m1, m5' \in {m5, None}, Shaped', Imports!ConfirmedOnce'
      PROVE  Imports!ConfirmInv'
  <2>1. /\ Imports!Confirming' \subseteq Imports!Confirming
        /\ Imports!Validated' \subseteq Imports!Validated /\ Imports!Uploading' \subseteq Imports!Uploading
    BY <1>5 DEF Imports!Confirming, Imports!Validated, Imports!Uploading
  <2>2. IsFiniteSet(m7')
    BY <1>5, <1>a
  <2> QED
    BY <1>5, <2>1, <2>2, ConfirmKept
<1>6. ASSUME NEW r \in m7,
             \/ Imports!ShowUploadError(r) \/ Imports!ConfirmFailed(r) \/ Imports!StartPolling(r)
             \/ Imports!PollEnds(r) \/ Imports!PollAgain(r)
      PROVE  Imports!ConfirmInv'
  <2>1. m7' = m7 \ {r} /\ UNCHANGED <<m1, m4, m5>>
    BY <1>6 DEF Imports!ShowUploadError, Imports!ConfirmFailed, Imports!StartPolling, Imports!PollEnds,
       Imports!PollAgain
  <2>2. m2'.preview => m2.preview /\ m3' = m3
    BY <1>0, <1>6 DEF Imports!ShowUploadError, Imports!ConfirmFailed, Imports!StartPolling,
       Imports!PollEnds, Imports!PollAgain, Imports!ShowTerminal, Shaped
  <2>3. Imports!ConfirmedOnce'
    BY <1>0, <2>1, <2>2 DEF Imports!ConfirmedOnce
  <2>4. DOMAIN m2' = DOMAIN m2 /\ DOMAIN m3' = DOMAIN m3
    BY <1>6 DEF Imports!ShowUploadError, Imports!ConfirmFailed, Imports!StartPolling,
       Imports!PollEnds, Imports!PollAgain, Imports!ShowTerminal
  <2>5. m8' \subseteq m8 \/ \E q : Record(q) /\ q.kind = "poll" /\ m8' = m8 \cup {q}
    BY <1>0, <1>6 DEF Imports!ShowUploadError, Imports!ConfirmFailed, Imports!StartPolling,
       Imports!PollEnds, Imports!PollAgain, Shaped
  <2>6. Shaped'
    BY <1>0, <2>1, <2>4, <2>5 DEF Shaped
  <2> QED
    BY <1>5, <2>1, <2>3, <2>6
<1>7. ASSUME NEW r \in m7, Imports!ShowPreview(r)
      PROVE  Imports!ConfirmInv'
  <2>1. r \in Imports!Validated /\ m7' = m7 \ {r} /\ m5' = r.run /\ UNCHANGED <<m1, m4, m8>>
    BY <1>7 DEF Imports!ShowPreview, Imports!Validated
  <2>2. DOMAIN m2' = DOMAIN m2 /\ DOMAIN m3' = DOMAIN m3
    BY <1>7 DEF Imports!ShowPreview
  <2>3. Shaped' /\ IsFiniteSet(m7')
    BY <1>0, <1>a, <2>1, <2>2 DEF Shaped
  <2>4. /\ Imports!Confirming' = Imports!Confirming
        /\ Imports!Validated' = Imports!Validated \ {r} /\ Imports!Uploading' = Imports!Uploading
        /\ Imports!Unread' = Imports!Unread
    BY <2>1 DEF Imports!Confirming, Imports!Validated, Imports!Uploading, Imports!Unread
  <2>5. /\ r.run \in Workbook /\ m1[r.run] # "none" /\ \A q \in Imports!Confirming : q.run # r.run
        /\ \A q \in Imports!Validated : q.run = r.run => q = r
    BY <2>1 DEF Imports!ConfirmInv
  <2>6. Imports!ConfirmedOnce'
    BY <2>1, <2>5 DEF Imports!ConfirmedOnce, Imports!Confirming, Imports!ImportsAssumption
  <2>7. \A x \in Imports!Confirming' : x.run \in Workbook /\ m1'[x.run] # "none"
    BY <2>1, <2>4 DEF Imports!ConfirmInv
  <2>8. \A x \in Imports!Validated' :
           /\ x.run \in Workbook /\ m1'[x.run] # "none" /\ x.run # m5'
           /\ \A y \in Imports!Confirming' : y.run # x.run
           /\ \A y \in Imports!Validated' : y.run = x.run => y = x
    BY <2>1, <2>4, <2>5 DEF Imports!ConfirmInv
  <2>9. Cardinality(Imports!Uploading') =< Cardinality(Imports!Unread')
    BY <2>4, ConfirmRoom
  <2> QED
    BY <2>1, <2>3, <2>5, <2>6, <2>7, <2>8, <2>9, ImportsSets DEF Imports!ConfirmInv, Shaped
<1>8. ASSUME NEW r \in m8, Imports!Poll(r)
      PROVE  Imports!ConfirmInv'
  <2>1. /\ m7' = m7 \cup {r} /\ m8' = m8 \ {r} /\ r.kind = "poll" /\ Record(r)
        /\ UNCHANGED <<m1, m2, m3, m4, m5>>
    BY <1>0, <1>8 DEF Imports!Poll, Shaped
  <2>2. Shaped' /\ IsFiniteSet(m7') /\ Imports!ConfirmedOnce'
    BY <1>0, <1>a, <2>1 DEF Shaped, Imports!ConfirmedOnce
  <2>3. /\ Imports!Confirming' = Imports!Confirming
        /\ Imports!Validated' = Imports!Validated /\ Imports!Uploading' = Imports!Uploading
    BY <2>1 DEF Imports!Confirming, Imports!Validated, Imports!Uploading
  <2> QED
    BY <2>1, <2>2, <2>3, ConfirmKept
<1>9. CASE Imports!HandleFile
  <2> DEFINE q == Imports!Request("upload", None, None)
             A == Imports!Uploading
             B == Imports!Unread
  <2>1. Record(q) /\ q.kind = "upload" /\ q.answer = "none"
    BY DEF Imports!Request
  <2>2. m7' = m7 \cup {q} /\ ~m2'.preview /\ DOMAIN m2' = DOMAIN m2 /\ UNCHANGED <<m1, m3, m4, m5, m8>>
    BY <1>0, <1>9 DEF Imports!HandleFile, Shaped
  <2> HIDE DEF q
  <2>3. /\ Imports!Confirming' = Imports!Confirming
        /\ Imports!Validated' = Imports!Validated /\ A' = A \cup {q} /\ B' = B
    BY <2>1, <2>2 DEF Imports!Confirming, Imports!Validated, Imports!Uploading, Imports!Unread
  <2>4. IsFiniteSet(A) /\ IsFiniteSet(B) /\ Cardinality(A) < Cardinality(B)
    BY <1>9, ConfirmRoom, ImportsSets DEF Imports!HandleFile
  <2>5. Shaped' /\ IsFiniteSet(m7') /\ Imports!ConfirmedOnce'
    BY <1>0, <1>a, <2>1, <2>2 DEF Shaped, Imports!ConfirmedOnce
  <2> HIDE DEF A, B
  <2>6. Cardinality(A') =< Cardinality(B')
    BY <2>3, <2>4, RoomForOne
  <2> QED
    BY <2>2, <2>3, <2>5, <2>6, ImportsSets DEF Imports!ConfirmInv, Shaped, A, B
<1>10. CASE Imports!SayYes
  <2> DEFINE q == Imports!Request("confirm", m5, m5)
  <2>1. Record(q) /\ q.kind = "confirm" /\ q.run = m5
    BY DEF Imports!Request
  <2>2. /\ m7' = m7 \cup {q} /\ m3'.disabled /\ ~m4' /\ DOMAIN m3' = DOMAIN m3
        /\ UNCHANGED <<m1, m2, m5, m8>>
    BY <1>0, <1>10 DEF Imports!SayYes, Imports!ConfirmTaken, Shaped
  <2> HIDE DEF q
  <2>3. /\ Imports!Confirming' = Imports!Confirming \cup {q}
        /\ Imports!Validated' = Imports!Validated /\ Imports!Uploading' = Imports!Uploading
        /\ Imports!Unread' = Imports!Unread
    BY <2>1, <2>2 DEF Imports!Confirming, Imports!Validated, Imports!Uploading, Imports!Unread
  <2>4. m5 \in Workbook /\ m1[m5] # "none"
    BY <1>0, <1>10 DEF Imports!SayYes, Imports!ConfirmedOnce, Imports!ConfirmInv
  <2>5. Shaped' /\ IsFiniteSet(m7') /\ Imports!ConfirmedOnce'
    BY <1>0, <1>a, <2>1, <2>2 DEF Shaped, Imports!ConfirmedOnce
  <2>6. Cardinality(Imports!Uploading') =< Cardinality(Imports!Unread')
    BY <2>3, ConfirmRoom
  <2>7. \A x \in Imports!Confirming' : x.run \in Workbook /\ m1'[x.run] # "none"
    BY <2>1, <2>2, <2>3, <2>4 DEF Imports!ConfirmInv
  <2>8. \A x \in Imports!Validated' :
           /\ x.run \in Workbook /\ m1'[x.run] # "none" /\ x.run # m5'
           /\ \A y \in Imports!Confirming' : y.run # x.run
           /\ \A y \in Imports!Validated' : y.run = x.run => y = x
    BY <2>1, <2>2, <2>3 DEF Imports!ConfirmInv
  <2> QED
    BY <2>2, <2>4, <2>5, <2>6, <2>7, <2>8, ImportsSets DEF Imports!ConfirmInv, Shaped
<1>11. ASSUME Imports!Ask \/ Imports!SayNo \/ Imports!ResetToDropzone \/ UNCHANGED Imports!vars
       PROVE  Imports!ConfirmInv'
  <2>1. UNCHANGED <<m1, m7, m8>> /\ m5' \in {m5, None}
    BY <1>11 DEF Imports!Ask, Imports!SayNo, Imports!ResetToDropzone, Imports!vars
  <2>2. Shaped' /\ IsFiniteSet(m7')
    BY <1>0, <1>11, <2>1 DEF Shaped, Imports!Ask, Imports!SayNo, Imports!ResetToDropzone, Imports!vars
  <2>3. Imports!ConfirmedOnce'
    BY <1>0, <1>11, <2>1 DEF Imports!ConfirmedOnce, Imports!Ask, Imports!SayNo, Imports!ResetToDropzone,
       Imports!vars
  <2>4. /\ Imports!Confirming' = Imports!Confirming
        /\ Imports!Validated' = Imports!Validated /\ Imports!Uploading' = Imports!Uploading
    BY <2>1 DEF Imports!Confirming, Imports!Validated, Imports!Uploading
  <2> QED
    BY <2>1, <2>2, <2>3, <2>4, ConfirmKept
<1> QED
  BY <1>2, <1>3, <1>4, <1>6, <1>7, <1>8, <1>9, <1>10, <1>11 DEF Imports!Next, Imports!User,
     Imports!Serve, Imports!Answer

-----------------------------------------------------------------------------
(* The parts of ShownInv: the list, the drawer, the modal, the requests.   *)
ListWell(l, h) == DOMAIN l = Pulls /\ \A p \in Pulls : l[p] \in h[p]
DrawnWell(d, h) ==
  /\ {"pull", "total"} \subseteq DOMAIN d /\ d.pull \in Pulls \cup {None}
  /\ d.pull # None => d.total \in h[d.pull]
ModalWell(m, e) ==
  /\ {"kind", "item", "rowsOf"} \subseteq DOMAIN m
  /\ m.kind = "window" => m.rowsOf = m.item /\ e = m.item
Honest(r, h) ==
  /\ {"kind", "pull", "state", "rows", "then"} \subseteq DOMAIN r /\ r.pull \in Pulls \cup {None}
  /\ r.kind = "detail" /\ r.state = "ok" /\ r.pull \in Pulls => Drawer!Total(r.rows) \in h[r.pull]

LEMMA ShownParts ==
  ASSUME ListWell(m2, m13), DrawnWell(m4, m13), ModalWell(m8, m7), {m3, m6} \subseteq Pulls \cup {None},
         \A p \in Pulls : Drawer!Total(Drawer!ItemsOf(p)) \in m13[p], \A r \in m10 : Honest(r, m13)
  PROVE  Drawer!ShownInv
BY DEF ListWell, DrawnWell, ModalWell, Honest, Drawer!ShownInv, Drawer!WindowsOfItsItem,
   Drawer!TotalsFromServer

LEMMA ShownPartsNext ==
  ASSUME ListWell(m2', m13'), DrawnWell(m4', m13'), ModalWell(m8', m7'),
         {m3', m6'} \subseteq Pulls \cup {None},
         \A p \in Pulls : Drawer!Total(Drawer!ItemsOf(p)') \in m13'[p],
         \A r \in m10' : Honest(r, m13')
  PROVE  Drawer!ShownInv'
BY DEF ListWell, DrawnWell, ModalWell, Honest, Drawer!ShownInv, Drawer!WindowsOfItsItem,
   Drawer!TotalsFromServer

LEMMA ShownHas ==
  ASSUME Drawer!ShownInv, Drawer!DrawerAssumption
  PROVE  /\ ListWell(m2, m13) /\ DrawnWell(m4, m13) /\ ModalWell(m8, m7)
         /\ {m3, m6} \subseteq Pulls \cup {None}
         /\ \A p \in Pulls : Drawer!Total(Drawer!ItemsOf(p)) \in m13[p]
         /\ \A r \in m10 : Honest(r, m13)
BY DEF ListWell, DrawnWell, ModalWell, Honest, Drawer!ShownInv, Drawer!WindowsOfItsItem,
   Drawer!TotalsFromServer

(* The drawer: totals the server has had, windows of the item edited.      *)
LEMMA ShownInit == Drawer!Init => Drawer!ShownInv
<1> SUFFICES ASSUME Drawer!Init PROVE Drawer!ShownInv
  OBVIOUS
<1>1. /\ m2 = [p \in Pulls |-> Drawer!Total(Drawer!ItemsOf(p))] /\ m13 = [p \in Pulls |-> {m2[p]}]
      /\ m3 = None /\ m6 = None /\ m10 = {} /\ m4 = Drawer!NotDrawn /\ m8 = Drawer!NoModal
  BY DEF Drawer!Init
<1>2. ListWell(m2, m13) /\ \A p \in Pulls : Drawer!Total(Drawer!ItemsOf(p)) \in m13[p]
  BY <1>1 DEF ListWell
<1>3. DrawnWell(m4, m13) /\ ModalWell(m8, m7)
  BY <1>1 DEF DrawnWell, ModalWell, Drawer!NotDrawn, Drawer!NoModal
<1> QED
  BY <1>1, <1>2, <1>3, ShownParts

LEMMA ShownAsked ==
  ASSUME NEW k, NEW p \in Pulls \cup {None}, NEW i, NEW t, NEW h
  PROVE  Honest(Drawer!Request(k, p, i, t), h)
BY DEF Drawer!Request, Honest

LEMMA ShownLinks ==
  ASSUME NEW p \in Pulls \cup {None}, NEW h, NEW r \in Drawer!CountLinks(p)
  PROVE  Honest(r, h)
BY ShownAsked DEF Drawer!CountLinks

(* A step of the page alone.                                               *)
LEMMA ShownKept ==
  ASSUME Drawer!DrawerAssumption, Drawer!ShownInv, UNCHANGED <<m1, m13>>,
         ListWell(m2', m13), DrawnWell(m4', m13), ModalWell(m8', m7'),
         {m3', m6'} \subseteq Pulls \cup {None},
         \A r \in m10' : r \in m10 \/ Honest(r, m13)
  PROVE  Drawer!ShownInv'
<1>1. \A p \in Pulls : Drawer!ItemsOf(p)' = Drawer!ItemsOf(p)
  BY DEF Drawer!ItemsOf
<1> QED
  BY <1>1, ShownHas, ShownPartsNext

(* A step that sends a request at most.                                    *)
LEMMA ShownStill ==
  ASSUME Drawer!DrawerAssumption, Drawer!ShownInv, UNCHANGED <<m1, m2, m4, m13>>,
         ModalWell(m8', m7'), {m3', m6'} \subseteq Pulls \cup {None},
         \A r \in m10' : r \in m10 \/ Honest(r, m13)
  PROVE  Drawer!ShownInv'
BY ShownHas, ShownKept

(* The rest of a refresh lists the windows of editingItemId.               *)
LEMMA ShownContinued ==
  ASSUME NEW r, NEW rows, ModalWell(m8, m7), m7' = m7, Drawer!Continue(r, rows)
  PROVE  ModalWell(m8', m7')
BY DEF Drawer!Continue, Drawer!RenderedItem, ModalWell

LEMMA ShownStep ==
  ASSUME Drawer!DrawerAssumption, Drawer!ShownInv, [Drawer!Next]_(Drawer!vars)
  PROVE  Drawer!ShownInv'
<1>0. /\ ListWell(m2, m13) /\ DrawnWell(m4, m13) /\ ModalWell(m8, m7)
      /\ {m3, m6} \subseteq Pulls \cup {None}
      /\ \A p \in Pulls : Drawer!Total(Drawer!ItemsOf(p)) \in m13[p]
      /\ \A r \in m10 : Honest(r, m13)
  BY ShownHas
<1>1. ASSUME NEW p \in Pulls, Drawer!OpenDrawer(p)
      PROVE  Drawer!ShownInv'
  <2>1. /\ m3' = p /\ m6' = p /\ m4' = Drawer!Sections(p, m2[p]) /\ UNCHANGED <<m1, m2, m7, m8, m13>>
        /\ m10' = m10 \cup Drawer!CountLinks(p) \cup Drawer!AlsoItems(p, Drawer!CountLinks(p))
    BY <1>1 DEF Drawer!OpenDrawer
  <2>2. DrawnWell(m4', m13)
    BY <1>0, <2>1 DEF DrawnWell, ListWell, Drawer!Sections
  <2>3. \A r \in Drawer!AlsoItems(p, Drawer!CountLinks(p)) : Honest(r, m13)
    BY DEF Drawer!AlsoItems, Drawer!Request, Honest
  <2> QED
    BY <1>0, <2>1, <2>2, <2>3, ShownLinks, ShownKept
<1>2. CASE Drawer!CloseDrawer
  <2>1. m3' = None /\ m4' = Drawer!NotDrawn /\ UNCHANGED <<m1, m2, m6, m7, m8, m10, m13>>
    BY <1>2 DEF Drawer!CloseDrawer
  <2>2. DrawnWell(m4', m13)
    BY <2>1 DEF DrawnWell, Drawer!NotDrawn
  <2> QED
    BY <1>0, <2>1, <2>2, ShownKept
<1>3. CASE Drawer!CloseModal \/ Drawer!OpenAddItem
  <2>1. /\ UNCHANGED <<m1, m2, m3, m4, m7, m10, m13>> /\ m6' \in {m3, m6}
    BY <1>3 DEF Drawer!CloseModal, Drawer!OpenAddItem, Drawer!copies
  <2>2. ModalWell(m8', m7')
    <3>1. CASE Drawer!CloseModal
      BY <3>1 DEF Drawer!CloseModal, ModalWell, Drawer!NoModal
    <3>2. CASE Drawer!OpenAddItem
      BY <3>2 DEF Drawer!OpenAddItem, ModalWell, Drawer!NoModal
    <3> QED
      BY <1>3, <3>1, <3>2
  <2> QED
    BY <1>0, <2>1, <2>2, ShownStill
<1>4. ASSUME NEW i \in Entry,
             \/ Drawer!OpenEditItem(i) \/ Drawer!OpenExtendedFields(i)
             \/ Drawer!OpenWindows(i) \/ Drawer!AskDelete(i)
      PROVE  Drawer!ShownInv'
  <2>1. UNCHANGED <<m1, m2, m3, m4, m6, m10, m13>>
    BY <1>4 DEF Drawer!OpenEditItem, Drawer!OpenExtendedFields, Drawer!OpenWindows, Drawer!AskDelete,
       Drawer!copies
  <2>2. ModalWell(m8', m7')
    BY <1>4 DEF Drawer!OpenEditItem, Drawer!OpenExtendedFields, Drawer!OpenWindows, Drawer!AskDelete,
       Drawer!ItemModal, Drawer!NoModal, ModalWell
  <2> QED
    BY <1>0, <2>1, <2>2, ShownStill
<1>5. CASE Drawer!SaveAddItem
  <2>1. PICK i \in Entry, f \in Drawer!Form :
          m10' = m10 \cup {[Drawer!Request("add", m6, i, "none") EXCEPT !.plan = f]}
    BY <1>5 DEF Drawer!SaveAddItem, Drawer!SendChange
  <2>2. UNCHANGED <<m1, m2, m3, m4, m6, m7, m8, m13>>
    BY <1>5 DEF Drawer!SaveAddItem, Drawer!copies
  <2>3. Honest([Drawer!Request("add", m6, i, "none") EXCEPT !.plan = f], m13)
    BY <1>0 DEF Drawer!Request, Honest
  <2> QED
    BY <1>0, <2>1, <2>2, <2>3, ShownStill
<1>6. CASE Drawer!ChangeWindow
  <2>1. PICK h \in Hours, q \in Pieces \cup {0} :
          m10' = m10 \cup {[Drawer!Request("window", m6, m7, "none")
                              EXCEPT !.plan = [x \in {h} |-> q], !.added = (m8.rows[h] = 0)]}
    BY <1>6 DEF Drawer!ChangeWindow, Drawer!SendChange
  <2>2. UNCHANGED <<m1, m2, m3, m4, m6, m7, m8, m13>>
    BY <1>6 DEF Drawer!ChangeWindow, Drawer!copies
  <2> DEFINE x == [Drawer!Request("window", m6, m7, "none")
                     EXCEPT !.plan = [z \in {h} |-> q], !.added = (m8.rows[h] = 0)]
  <2>3. Honest(x, m13)
    BY <1>0 DEF Drawer!Request, Honest
  <2> QED
    BY <1>0, <2>1, <2>2, <2>3, ShownStill
<1>7. CASE Drawer!SaveEditItem \/ Drawer!SaveExtendedFields \/ Drawer!DeleteItem
  <2>1. UNCHANGED <<m1, m2, m3, m4, m6, m7, m13>> /\ (m8' = m8 \/ m8' = Drawer!NoModal)
    BY <1>7 DEF Drawer!SaveEditItem, Drawer!SaveExtendedFields, Drawer!DeleteItem, Drawer!copies
  <2>2. \E k, i : m10' = m10 \cup {Drawer!Request(k, m6, i, "none")}
    BY <1>7 DEF Drawer!SaveEditItem, Drawer!SaveExtendedFields, Drawer!DeleteItem, Drawer!SendChange
  <2>3. ModalWell(m8', m7')
    BY <1>0, <2>1 DEF ModalWell, Drawer!NoModal
  <2>4. \A r \in m10' : r \in m10 \/ Honest(r, m13)
    BY <1>0, <2>2, ShownAsked
  <2> QED
    BY <1>0, <2>1, <2>3, <2>4, ShownStill
<1>8. ASSUME NEW r \in m10, Drawer!Serve(r)
      PROVE  Drawer!ShownInv'
  <2> DEFINE a == IF Drawer!Accepts(r) THEN "ok" ELSE "refused"
             rows == IF r.kind \in {"items", "detail"} THEN Drawer!ItemsOf(r.pull) ELSE Drawer!Empty
             q == [r EXCEPT !.state = a, !.rows = rows]
  <2>1. /\ m10' = (m10 \ {r}) \cup {q} /\ UNCHANGED <<m2, m3, m4, m6, m7, m8>>
        /\ m13' = [p \in Pulls |-> m13[p] \cup {Drawer!Total(Drawer!ItemsOf(p)')}]
    BY <1>8 DEF Drawer!Serve, Drawer!copies
  <2>2. \A p \in Pulls : m13[p] \subseteq m13'[p] /\ Drawer!Total(Drawer!ItemsOf(p)') \in m13'[p]
    BY <2>1
  <2>3. q.kind = r.kind /\ q.pull = r.pull /\ q.rows = rows
        /\ {"kind", "pull", "state", "rows", "then"} \subseteq DOMAIN q
    BY <1>0 DEF Honest
  <2> HIDE DEF q
  <2>4. Honest(q, m13')
    BY <1>0, <2>2, <2>3 DEF Honest
  <2>5. \A x \in m10' : Honest(x, m13')
    BY <1>0, <2>1, <2>2, <2>4 DEF Honest
  <2>6. ListWell(m2', m13')
    BY <1>0, <2>1, <2>2 DEF ListWell
  <2>7. DrawnWell(m4', m13')
    BY <1>0, <2>1, <2>2 DEF DrawnWell
  <2> QED
    BY <1>0, <2>1, <2>2, <2>5, <2>6, <2>7, ShownPartsNext
<1>9. ASSUME NEW r \in m10, Drawer!Lose(r)
      PROVE  Drawer!ShownInv'
  <2> DEFINE q == [r EXCEPT !.state = "lost"]
  <2>1. m10' = (m10 \ {r}) \cup {q} /\ UNCHANGED <<m1, m2, m3, m4, m6, m7, m8, m13>>
    BY <1>9 DEF Drawer!Lose, Drawer!copies
  <2>2. Honest(q, m13)
    BY <1>0 DEF Honest
  <2> HIDE DEF q
  <2> QED
    BY <1>0, <2>1, <2>2, ShownStill
<1>10. ASSUME NEW r \in m10, Drawer!LinkedAnswer(r)
       PROVE  Drawer!ShownInv'
  <2>1. m10' = m10 \ {r} /\ UNCHANGED <<m1, m2, m3, m6, m7, m8, m13>>
    BY <1>10 DEF Drawer!LinkedAnswer
  <2>2. DrawnWell(m4', m13)
    BY <1>0, <1>10 DEF Drawer!LinkedAnswer, DrawnWell
  <2> QED
    BY <1>0, <2>1, <2>2, ShownKept
<1>11. ASSUME NEW r \in m10, Drawer!ItemsAnswer(r)
       PROVE  Drawer!ShownInv'
  <2>1. m10' = m10 \ {r} /\ Drawer!Continue(r, m5') /\ UNCHANGED <<m1, m2, m3, m4, m6, m7, m13>>
    BY <1>11 DEF Drawer!ItemsAnswer
  <2>2. ModalWell(m8', m7')
    BY <1>0, <2>1, ShownContinued
  <2> QED
    BY <1>0, <2>1, <2>2, ShownStill
<1>12. ASSUME NEW r \in m10, Drawer!DetailAnswer(r)
       PROVE  Drawer!ShownInv'
  <2>1. m6' = r.pull /\ UNCHANGED <<m1, m3, m7, m13>> /\ r.kind = "detail" /\ r.pull \in Pulls \cup {None}
    BY <1>0, <1>12 DEF Drawer!DetailAnswer, Honest
  <2>2. CASE r.state = "ok"
    <3> DEFINE t == Drawer!Total(r.rows)
    <3>1. /\ m2' = [m2 EXCEPT ![r.pull] = t] /\ Drawer!Continue(r, r.rows)
          /\ m4' = IF m3 # None THEN Drawer!Sections(r.pull, t) ELSE m4
          /\ m10' = (m10 \ {r}) \cup Drawer!CountLinks(r.pull)
      BY <1>12, <2>2 DEF Drawer!DetailAnswer, Drawer!Fresh
    <3>2. r.pull \in Pulls => t \in m13[r.pull]
      BY <1>0, <2>1, <2>2 DEF Honest
    <3> HIDE DEF t
    <3>3. ListWell(m2', m13)
      BY <1>0, <3>1, <3>2 DEF ListWell
    <3>4. DrawnWell(m4', m13)
      BY <1>0, <2>1, <3>1, <3>2 DEF DrawnWell, Drawer!Sections
    <3>5. ModalWell(m8', m7')
      BY <1>0, <2>1, <3>1, ShownContinued
    <3>6. \A x \in m10' : x \in m10 \/ Honest(x, m13)
      BY <2>1, <3>1, ShownLinks
    <3> QED
      BY <1>0, <2>1, <3>3, <3>4, <3>5, <3>6, ShownKept
  <2>3. CASE r.state # "ok"
    <3>1. /\ m10' = (m10 \ {r}) \cup {Drawer!Request("items", r.pull, r.item, r.then)}
          /\ UNCHANGED <<m2, m4, m8>>
      BY <1>12, <2>3 DEF Drawer!DetailAnswer
    <3> QED
      BY <1>0, <2>1, <3>1, ShownAsked, ShownStill
  <2> QED
    BY <2>2, <2>3
<1>13. ASSUME NEW r \in m10, Drawer!ChangeAnswer(r)
       PROVE  Drawer!ShownInv'
  <2>1. UNCHANGED <<m1, m2, m3, m4, m6, m7, m13>> /\ (m8' = m8 \/ m8' = Drawer!NoModal)
    BY <1>13 DEF Drawer!ChangeAnswer, Drawer!copies
  <2>2. \A x \in m10' : x \in m10 \/ \E k, i, t : x = Drawer!Request(k, m6, i, t)
    BY <1>13 DEF Drawer!ChangeAnswer
  <2>3. ModalWell(m8', m7')
    BY <1>0, <2>1 DEF ModalWell, Drawer!NoModal
  <2>4. \A x \in m10' : x \in m10 \/ Honest(x, m13)
    BY <1>0, <2>2, ShownAsked
  <2> QED
    BY <1>0, <2>1, <2>3, <2>4, ShownStill
<1>14. CASE UNCHANGED Drawer!vars
  <2>1. UNCHANGED <<m1, m2, m3, m4, m6, m7, m8, m10, m13>>
    BY <1>14 DEF Drawer!vars, Drawer!copies
  <2> QED
    BY <1>0, <2>1, ShownStill
<1> QED
  BY <1>1, <1>2, <1>3, <1>4, <1>5, <1>6, <1>7, <1>8, <1>9, <1>10, <1>11, <1>12, <1>13, <1>14
  DEF Drawer!Next, Drawer!User, Drawer!Answer

-----------------------------------------------------------------------------
(* A call of a user who waits, on the page as it is.                       *)
OrderCall(r, v, d) ==
  /\ {"kind", "po", "of", "at", "got"} \subseteq DOMAIN r
  /\ r.kind \in {"save", "erp"} =>
       /\ v = "detail" /\ d.po = r.po
       /\ r.kind = "save" => r.of = r.po
       /\ r.at = "done" => r.got.po = r.po

LEMMA OrderHas ==
  ASSUME OrderPage!ShowsInv
  PROVE  /\ m5 \in {"list", "detail"} /\ (m5 = "list" => m8 = OrderPage!NoPo)
         /\ (\A r \in m13 : OrderCall(r, m5, m8)) /\ \A r, q \in m13 : r = q
         /\ m8.po = IF m5 = "detail" THEN m6.po ELSE None
         /\ DOMAIN m4 = Orders /\ \A p \in Orders : m4[p] = p
         /\ m12.said = "Line deleted" => ~m12.refused
BY DEF OrderPage!ShowsInv, OrderPage!FormIsDetail, OrderPage!HeadIsItsOwn, OrderPage!DeletedIsDeleted, OrderCall

LEMMA OrderNext ==
  ASSUME m5' \in {"list", "detail"}, m5' = "list" => m8' = OrderPage!NoPo,
         \A r \in m13' : OrderCall(r, m5', m8'), \A r, q \in m13' : r = q,
         m8'.po = IF m5' = "detail" THEN m6'.po ELSE None,
         DOMAIN m4' = Orders, \A p \in Orders : m4'[p] = p,
         m12'.said = "Line deleted" => ~m12'.refused
  PROVE  OrderPage!ShowsInv'
BY DEF OrderPage!ShowsInv, OrderPage!FormIsDetail, OrderPage!HeadIsItsOwn, OrderPage!DeletedIsDeleted,
   OrderPage!ClosedIsDisabled, OrderCall

(* An order at a time, of a user who waits for each answer.                *)
LEMMA OrderInit == OrderPage!Init => OrderPage!ShowsInv
<1> SUFFICES ASSUME OrderPage!Init PROVE OrderPage!ShowsInv
  OBVIOUS
<1>1. /\ m4 = [p \in Orders |-> p] /\ m5 = "list" /\ m8 = OrderPage!NoPo /\ m13 = {}
      /\ m12.said = "none" /\ m8.po = None
  BY DEF OrderPage!Init, OrderPage!NoToast, OrderPage!NoPo
<1>2. OrderPage!FormIsDetail /\ OrderPage!HeadIsItsOwn /\ OrderPage!DeletedIsDeleted
  BY <1>1 DEF OrderPage!FormIsDetail, OrderPage!HeadIsItsOwn, OrderPage!DeletedIsDeleted
<1> QED
  BY <1>1, <1>2 DEF OrderPage!ShowsInv, OrderPage!ClosedIsDisabled

(* The calls change, what they are about does not.                         *)
LEMMA OrderStill ==
  ASSUME OrderPage!ShowsInv, UNCHANGED <<m4, m5, m6, m8, m12>>,
         \A r \in m13' : r \in m13 \/ OrderCall(r, m5, m8),
         \A r, q \in m13' : r = q
  PROVE  OrderPage!ShowsInv'
BY OrderHas, OrderNext

LEMMA OrderAsks ==
  ASSUME OrderPage!ShowsInv, UNCHANGED <<m4, m5, m6, m8, m12>>, OrderPage!May,
         NEW i, NEW k, NEW p, NEW of, NEW w, m13' = m13 \cup {OrderPage!Call(i, k, p, of, w)},
         k \in {"save", "erp"} => m8 # OrderPage!NoPo /\ p = m8.po,
         k = "save" => of = p
  PROVE  OrderPage!ShowsInv'
<1> DEFINE x == OrderPage!Call(i, k, p, of, w)
<1>1. /\ {"kind", "po", "of", "at", "got"} \subseteq DOMAIN x
      /\ x.kind = k /\ x.po = p /\ x.of = of /\ x.at = "sent"
  BY DEF OrderPage!Call
<1> HIDE DEF x
<1>2. OrderCall(x, m5, m8)
  BY <1>1, OrderHas DEF OrderCall
<1>3. m13' = {x}
  BY DEF OrderPage!May, x
<1> QED
  BY <1>2, <1>3, OrderStill

LEMMA OrderReplies ==
  ASSUME OrderPage!ShowsInv, UNCHANGED <<m5, m6, m8, m12>>,
         DOMAIN m4' = Orders, \A p \in Orders : m4'[p] = p,
         NEW r \in m13, NEW a, NEW g, OrderPage!Reply(r, a, g),
         a = "refused" \/ r.kind = "new" \/ g.po = r.po
  PROVE  OrderPage!ShowsInv'
<1> DEFINE x == [r EXCEPT !.at = a, !.got = g]
<1>1. OrderCall(r, m5, m8) /\ \A q \in m13 : q = r
  BY OrderHas
<1>2. /\ {"kind", "po", "of", "at", "got"} \subseteq DOMAIN x
      /\ x.kind = r.kind /\ x.po = r.po /\ x.of = r.of /\ x.at = a /\ x.got = g
  BY <1>1 DEF OrderCall
<1>3. m13' = {x}
  BY <1>1 DEF OrderPage!Reply
<1> HIDE DEF x
<1>4. OrderCall(x, m5, m8)
  BY <1>1, <1>2 DEF OrderCall
<1> QED
  BY <1>3, <1>4, OrderHas, OrderNext

LEMMA OrderStep ==
  ASSUME OrderPage!ShowsInv, [OrderPage!Next]_(OrderPage!vars)
  PROVE  OrderPage!ShowsInv'
<1>0. /\ m5 \in {"list", "detail"} /\ (m5 = "list" => m8 = OrderPage!NoPo)
      /\ (\A r \in m13 : OrderCall(r, m5, m8)) /\ \A r, q \in m13 : r = q
      /\ m8.po = IF m5 = "detail" THEN m6.po ELSE None
      /\ DOMAIN m4 = Orders /\ \A p \in Orders : m4[p] = p
      /\ m12.said = "Line deleted" => ~m12.refused
  BY OrderHas
<1>1. ASSUME (\E p \in Orders : OrderPage!ClickRow(p)) \/ OrderPage!Refresh
      PROVE  OrderPage!ShowsInv'
  <2>1. /\ OrderPage!May /\ UNCHANGED <<m4, m5, m6, m8, m12>>
        /\ \E p : m13' = m13 \cup {OrderPage!Call(OrderPage!Unused, "get", p, None, "none")}
    BY <1>1 DEF OrderPage!ClickRow, OrderPage!Refresh, OrderPage!server, OrderPage!page
  <2> QED
    BY <2>1, OrderAsks
<1>2. CASE OrderPage!SaveHeader
  <2>1. /\ OrderPage!May /\ UNCHANGED <<m4, m5, m6, m8, m12>> /\ m5 = "detail" /\ m8 # OrderPage!NoPo
        /\ m13' = m13 \cup {OrderPage!Call(OrderPage!Unused, "save", m8.po, m6.po, "none")}
    BY <1>2 DEF OrderPage!SaveHeader, OrderPage!server
  <2> QED
    BY <1>0, <2>1, OrderAsks
<1>3. CASE OrderPage!DeleteLine
  <2>1. /\ OrderPage!May /\ UNCHANGED <<m4, m5, m6, m8, m12>>
        /\ m13' = m13 \cup {OrderPage!Call(OrderPage!Unused, "delete", m8.po, m10.about, "none")}
    BY <1>3 DEF OrderPage!DeleteLine, OrderPage!server, OrderPage!page
  <2> QED
    BY <2>1, OrderAsks
<1>4. ASSUME NEW k \in {"new", "line", "close", "erp"}, OrderPage!Confirm(k),
             k = "new" \/ m8 # OrderPage!NoPo
      PROVE  OrderPage!ShowsInv'
  <2>1. /\ OrderPage!May /\ UNCHANGED <<m4, m5, m6, m8, m12>>
        /\ m13' = m13 \cup {OrderPage!Call(OrderPage!Unused, k, m8.po, m10.about, k)}
    BY <1>4 DEF OrderPage!Confirm, OrderPage!server, OrderPage!page
  <2> QED
    BY <1>4, <2>1, OrderAsks
<1>5. CASE OrderPage!BackToList
  <2>1. /\ m8' = OrderPage!NoPo /\ m5' = "list" /\ m13 = {} /\ UNCHANGED <<m4, m6, m12, m13>>
        /\ m8'.po = None
    BY <1>5 DEF OrderPage!BackToList, OrderPage!server, OrderPage!NoPo
  <2> QED
    BY <1>0, <2>1, OrderNext
<1>6. ASSUME NEW r \in m13, OrderPage!Serve(r)
      PROVE  OrderPage!ShowsInv'
  <2>1. UNCHANGED <<m5, m6, m8, m12>>
    BY <1>6 DEF OrderPage!Serve, OrderPage!page
  <2>2. /\ DOMAIN m4' = Orders /\ \A p \in Orders : m4'[p] = p
    BY <1>0, <1>6 DEF OrderPage!Serve, OrderPage!server, OrderCall
  <2> DEFINE of == [po |-> r.po, closed |-> r.po \in m2', line |-> r.po \in m3']
  <2>3. \/ OrderPage!Reply(r, "refused", OrderPage!NoPo)
        \/ r.kind = "new" /\ \E p : OrderPage!Reply(r, "done", [OrderPage!NoPo EXCEPT !.po = p])
        \/ OrderPage!Reply(r, "done", of)
    BY <1>6 DEF OrderPage!Serve
  <2>4. of.po = r.po
    OBVIOUS
  <2> HIDE DEF of
  <2> QED
    BY <2>1, <2>2, <2>3, <2>4, OrderReplies
<1>7. ASSUME NEW r \in m13, OrderPage!Opened(r)
      PROVE  OrderPage!ShowsInv'
  <2>1. m13' = m13 \ {r} /\ m8' = r.got /\ m5' = "detail" /\ m6' = r.got /\ UNCHANGED <<m4, m12>>
    BY <1>7 DEF OrderPage!Opened, OrderPage!ShowDetail, OrderPage!Filled, OrderPage!server
  <2>2. m13' = {}
    BY <1>0, <2>1
  <2> QED
    BY <1>0, <2>1, <2>2, OrderNext
<1>8. ASSUME NEW r \in m13, OrderPage!Saved(r) \/ OrderPage!ErpSaved(r)
      PROVE  OrderPage!ShowsInv'
  <2>1. /\ m13' = m13 \ {r} /\ UNCHANGED <<m4, m5, m6, m12>> /\ r.kind \in {"save", "erp"}
        /\ m8' = m8 \/ (r.at = "done" /\ m8' = r.got)
    BY <1>8 DEF OrderPage!Saved, OrderPage!ErpSaved, OrderPage!server
  <2>2. m13' = {} /\ m5 = "detail" /\ m8'.po = m8.po
    BY <1>0, <2>1 DEF OrderCall
  <2> QED
    BY <1>0, <2>1, <2>2, OrderNext
<1>9. ASSUME NEW r \in m13, NEW opens, OrderPage!Finished(r, opens)
      PROVE  OrderPage!ShowsInv'
  <2> DEFINE x == OrderPage!Call(r.id, "get", opens, None, r.waits)
  <2>1. (m13' = (m13 \ {r}) \cup {x} \/ m13' = m13 \ {r}) /\ UNCHANGED <<m4, m5, m6, m8, m12>>
    BY <1>9 DEF OrderPage!Finished, OrderPage!server, OrderPage!page
  <2>2. OrderCall(x, m5, m8)
    BY DEF OrderCall, OrderPage!Call
  <2> HIDE DEF x
  <2> QED
    BY <1>0, <2>1, <2>2, OrderStill
<1>10. ASSUME NEW r \in m13, OrderPage!Deleted(r)
       PROVE  OrderPage!ShowsInv'
  <2> DEFINE opens == r.at = "done" /\ m8 # OrderPage!NoPo
             x == OrderPage!Call(r.id, "get", m8.po, None, "none")
  <2>1. /\ m13' = (m13 \ {r}) \cup (IF opens THEN {x} ELSE {}) /\ UNCHANGED <<m4, m5, m6, m8>>
        /\ m12' = [said |-> IF opens THEN "Line deleted" ELSE "Delete refused",
                   refused |-> r.at = "refused"]
    BY <1>10 DEF OrderPage!Deleted, OrderPage!server, OrderPage!page
  <2>2. OrderCall(x, m5, m8)
    BY DEF OrderCall, OrderPage!Call
  <2>3. m12'.said = "Line deleted" => ~m12'.refused
    BY <2>1
  <2> HIDE DEF x
  <2>4. (\A y \in m13' : OrderCall(y, m5, m8)) /\ \A y, z \in m13' : y = z
    BY <1>0, <2>1, <2>2
  <2> QED
    BY <1>0, <2>1, <2>3, <2>4, OrderNext
<1>11. ASSUME NEW r \in m13, OrderPage!Lost(r)
       PROVE  OrderPage!ShowsInv'
  <2>1. m13' = m13 \ {r} /\ UNCHANGED <<m4, m5, m6, m8, m12>>
    BY <1>11 DEF OrderPage!Lost, OrderPage!server
  <2> QED
    BY <1>0, <2>1, OrderStill
<1>12. ASSUME \/ (\E p \in Orders : OrderPage!SomebodyCloses(p)) \/ OrderPage!Dismiss
              \/ (\E k, a : OrderPage!Open(k, a)) \/ UNCHANGED OrderPage!vars
       PROVE  OrderPage!ShowsInv'
  <2>1. UNCHANGED <<m4, m5, m6, m8, m12, m13>>
    BY <1>12 DEF OrderPage!SomebodyCloses, OrderPage!Dismiss, OrderPage!Open, OrderPage!vars,
       OrderPage!server, OrderPage!page
  <2> QED
    BY <1>0, <2>1, OrderStill
<1> QED
  BY <1>1, <1>2, <1>3, <1>4, <1>5, <1>6, <1>7, <1>8, <1>9, <1>10, <1>11, <1>12 DEF OrderPage!Next,
     OrderPage!Answer, OrderPage!OpenNewPoModal, OrderPage!OpenAddLineModal, OrderPage!OpenCloseModal,
     OrderPage!OpenEditLineModal, OrderPage!OpenDeleteDialog, OrderPage!SaveNewPo, OrderPage!SaveAddLine, OrderPage!ConfirmClose,
     OrderPage!SaveLineExtendedFields, OrderPage!PoCreated, OrderPage!LineAdded, OrderPage!PoClosed

-----------------------------------------------------------------------------
(* A call of a user who does not wait, where nothing is saved.             *)
RacingCall(r) ==
  {"kind", "po", "of", "at", "got"} \subseteq DOMAIN r /\ r.kind \notin {"save", "erp"}

LEMMA RacingHas ==
  ASSUME OrderRacing!ShowsInv
  PROVE  /\ m5 \in {"list", "detail"} /\ (m5 = "list" => m8 = OrderRacing!NoPo)
         /\ (\A r \in m13 : RacingCall(r)) /\ m10.kind # "erp"
         /\ m8.po = IF m5 = "detail" THEN m6.po ELSE None
         /\ DOMAIN m4 = Pull /\ \A p \in Pull : m4[p] = p
         /\ (m5 = "detail" /\ m6.closed => ~m9)
         /\ m12.said = "Line deleted" => ~m12.refused
BY DEF OrderRacing!ShowsInv, OrderRacing!FormIsDetail, OrderRacing!HeadIsItsOwn,
   OrderRacing!ClosedIsDisabled, OrderRacing!DeletedIsDeleted, RacingCall

LEMMA RacingNext ==
  ASSUME m5' \in {"list", "detail"}, m5' = "list" => m8' = OrderRacing!NoPo,
         \A r \in m13' : RacingCall(r), m10'.kind # "erp",
         m8'.po = IF m5' = "detail" THEN m6'.po ELSE None,
         DOMAIN m4' = Pull, \A p \in Pull : m4'[p] = p,
         m5' = "detail" /\ m6'.closed => ~m9',
         m12'.said = "Line deleted" => ~m12'.refused
  PROVE  OrderRacing!ShowsInv'
BY DEF OrderRacing!ShowsInv, OrderRacing!FormIsDetail, OrderRacing!HeadIsItsOwn,
   OrderRacing!ClosedIsDisabled, OrderRacing!DeletedIsDeleted, RacingCall

(* The same of a user who does not wait, where no header is saved.         *)
LEMMA RacingInit == OrderRacing!Init => OrderRacing!ShowsInv
<1> SUFFICES ASSUME OrderRacing!Init PROVE OrderRacing!ShowsInv
  OBVIOUS
<1>1. /\ m4 = [p \in Pull |-> p] /\ m5 = "list" /\ m8 = OrderRacing!NoPo /\ m13 = {}
      /\ m12.said = "none" /\ m8.po = None /\ m10.kind = "none"
  BY DEF OrderRacing!Init, OrderRacing!NoToast, OrderRacing!NoPo, OrderRacing!NoModal
<1>2. OrderRacing!FormIsDetail /\ OrderRacing!HeadIsItsOwn /\ OrderRacing!DeletedIsDeleted
  BY <1>1 DEF OrderRacing!FormIsDetail, OrderRacing!HeadIsItsOwn, OrderRacing!DeletedIsDeleted
<1>3. OrderRacing!ClosedIsDisabled
  BY <1>1 DEF OrderRacing!ClosedIsDisabled
<1> QED
  BY <1>1, <1>2, <1>3 DEF OrderRacing!ShowsInv

(* The calls change, what is shown does not.                               *)
LEMMA RacingStill ==
  ASSUME OrderRacing!ShowsInv, UNCHANGED <<m4, m5, m6, m8, m9, m12>>, m10'.kind # "erp",
         \A r \in m13' : r \in m13 \/ RacingCall(r)
  PROVE  OrderRacing!ShowsInv'
BY RacingHas, RacingNext

LEMMA RacingCalls ==
  ASSUME OrderRacing!ShowsInv, UNCHANGED <<m4, m5, m6, m8, m9, m10, m12>>,
         NEW x, RacingCall(x), m13' = m13 \cup {x}
  PROVE  OrderRacing!ShowsInv'
BY RacingHas, RacingStill

LEMMA RacingAsks ==
  ASSUME NEW i, NEW k, NEW p, NEW of, NEW w, k \notin {"save", "erp"}
  PROVE  RacingCall(OrderRacing!Call(i, k, p, of, w))
BY DEF OrderRacing!Call, RacingCall

LEMMA RacingStep ==
  ASSUME OrderRacing!ShowsInv, [OrderRacing!Next]_(OrderRacing!vars)
  PROVE  OrderRacing!ShowsInv'
<1>0. /\ m5 \in {"list", "detail"} /\ (m5 = "list" => m8 = OrderRacing!NoPo)
      /\ (\A r \in m13 : RacingCall(r)) /\ m10.kind # "erp"
      /\ m8.po = IF m5 = "detail" THEN m6.po ELSE None
      /\ DOMAIN m4 = Pull /\ \A p \in Pull : m4[p] = p
      /\ (m5 = "detail" /\ m6.closed => ~m9)
      /\ m12.said = "Line deleted" => ~m12.refused
  BY RacingHas
<1>1. ASSUME (\E p \in Pull : OrderRacing!ClickRow(p)) \/ OrderRacing!Refresh
      PROVE  OrderRacing!ShowsInv'
  <2>1. /\ UNCHANGED <<m4, m5, m6, m8, m9, m10, m12>>
        /\ \E p : m13' = m13 \cup {OrderRacing!Call(OrderRacing!Unused, "get", p, None, "none")}
    BY <1>1 DEF OrderRacing!ClickRow, OrderRacing!Refresh, OrderRacing!server, OrderRacing!page
  <2>2. ASSUME NEW p, m13' = m13 \cup {OrderRacing!Call(OrderRacing!Unused, "get", p, None, "none")}
        PROVE  OrderRacing!ShowsInv'
    <3> DEFINE x == OrderRacing!Call(OrderRacing!Unused, "get", p, None, "none")
    <3>1. RacingCall(x) /\ m13' = m13 \cup {x}
      BY <2>2, RacingAsks
    <3> HIDE DEF x
    <3> QED
      BY <2>1, <3>1, RacingCalls
  <2> QED
    BY <2>1, <2>2
<1>2. CASE OrderRacing!DeleteLine
  <2>1. /\ UNCHANGED <<m4, m5, m6, m8, m9, m12>> /\ m10' = OrderRacing!NoModal
        /\ m13' = m13 \cup {OrderRacing!Call(OrderRacing!Unused, "delete", m8.po, m10.about, "none")}
    BY <1>2 DEF OrderRacing!DeleteLine, OrderRacing!server, OrderRacing!page
  <2> DEFINE x == OrderRacing!Call(OrderRacing!Unused, "delete", m8.po, m10.about, "none")
  <2>2. RacingCall(x) /\ m13' = m13 \cup {x}
    BY <2>1, RacingAsks
  <2>3. m10'.kind # "erp"
    BY <2>1 DEF OrderRacing!NoModal
  <2> HIDE DEF x
  <2> QED
    BY <2>1, <2>2, <2>3, RacingStill
<1>3. ASSUME NEW k \in {"new", "line", "close", "erp"}, OrderRacing!Confirm(k)
      PROVE  OrderRacing!ShowsInv'
  <2>1. /\ UNCHANGED <<m4, m5, m6, m8, m9, m10, m12>> /\ m10.kind = k
        /\ m13' = m13 \cup {OrderRacing!Call(OrderRacing!Unused, k, m8.po, m10.about, k)}
    BY <1>3 DEF OrderRacing!Confirm, OrderRacing!server, OrderRacing!page
  <2>2. k \notin {"save", "erp"}
    BY <1>0, <2>1
  <2> DEFINE x == OrderRacing!Call(OrderRacing!Unused, k, m8.po, m10.about, k)
  <2>3. RacingCall(x) /\ m13' = m13 \cup {x}
    BY <2>1, <2>2, RacingAsks
  <2> HIDE DEF x
  <2> QED
    BY <2>1, <2>3, RacingCalls
<1>4. ASSUME NEW k, NEW a, k # "erp", OrderRacing!Open(k, a)
      PROVE  OrderRacing!ShowsInv'
  <2>1. /\ UNCHANGED <<m4, m5, m6, m8, m9, m12, m13>> /\ m10'.kind = k
    BY <1>4 DEF OrderRacing!Open, OrderRacing!server, OrderRacing!page
  <2> QED
    BY <1>4, <2>1, RacingStill
<1>5. CASE OrderRacing!BackToList
  <2>1. /\ m8' = OrderRacing!NoPo /\ m5' = "list" /\ UNCHANGED <<m4, m6, m9, m10, m12, m13>>
        /\ m8'.po = None
    BY <1>5 DEF OrderRacing!BackToList, OrderRacing!server, OrderRacing!NoPo
  <2> QED
    BY <1>0, <2>1, RacingNext
<1>6. ASSUME NEW r \in m13, OrderRacing!Serve(r)
      PROVE  OrderRacing!ShowsInv'
  <2>1. UNCHANGED <<m5, m6, m8, m9, m10, m12>>
    BY <1>6 DEF OrderRacing!Serve, OrderRacing!page
  <2>2. m4' = m4
    BY <1>0, <1>6 DEF OrderRacing!Serve, OrderRacing!server, RacingCall
  <2>3. \E a, g : OrderRacing!Reply(r, a, g)
    BY <1>6 DEF OrderRacing!Serve
  <2>4. ASSUME NEW a, NEW g, OrderRacing!Reply(r, a, g)
        PROVE  OrderRacing!ShowsInv'
    <3> DEFINE x == [r EXCEPT !.at = a, !.got = g]
    <3>1. RacingCall(x)
      BY <1>0 DEF RacingCall
    <3>2. m13' = (m13 \ {r}) \cup {x}
      BY <2>4 DEF OrderRacing!Reply
    <3> HIDE DEF x
    <3> QED
      BY <1>0, <2>1, <2>2, <3>1, <3>2, RacingStill
  <2> QED
    BY <2>3, <2>4
<1>7. ASSUME NEW r \in m13, OrderRacing!Opened(r)
      PROVE  OrderRacing!ShowsInv'
  <2>1. /\ m13' = m13 \ {r} /\ m8' = r.got /\ m5' = "detail" /\ m6' = r.got /\ m9' = ~r.got.closed
        /\ UNCHANGED <<m4, m10, m12>>
    BY <1>7 DEF OrderRacing!Opened, OrderRacing!ShowDetail, OrderRacing!Filled, OrderRacing!Writable,
       OrderRacing!server
  <2> QED
    BY <1>0, <2>1, RacingNext
<1>8. ASSUME NEW r \in m13, NEW opens, OrderRacing!Finished(r, opens)
      PROVE  OrderRacing!ShowsInv'
  <2> DEFINE x == OrderRacing!Call(r.id, "get", opens, None, r.waits)
  <2>1. /\ m13' = (m13 \ {r}) \cup {x} \/ m13' = m13 \ {r}
        /\ UNCHANGED <<m4, m5, m6, m8, m9, m12>> /\ m10' \in {m10, OrderRacing!NoModal}
    BY <1>8 DEF OrderRacing!Finished, OrderRacing!server, OrderRacing!page
  <2>2. RacingCall(x)
    BY RacingAsks
  <2>3. OrderRacing!NoModal.kind # "erp"
    BY DEF OrderRacing!NoModal
  <2>4. m10'.kind # "erp"
    BY <1>0, <2>1, <2>3
  <2> HIDE DEF x
  <2> QED
    BY <1>0, <2>1, <2>2, <2>4, RacingStill
<1>9. ASSUME NEW r \in m13, OrderRacing!Deleted(r)
      PROVE  OrderRacing!ShowsInv'
  <2> DEFINE opens == r.at = "done" /\ m8 # OrderRacing!NoPo
             x == OrderRacing!Call(r.id, "get", m8.po, None, "none")
  <2>1. /\ m13' = (m13 \ {r}) \cup (IF opens THEN {x} ELSE {})
        /\ UNCHANGED <<m4, m5, m6, m8, m9, m10>>
        /\ m12' = [said |-> IF opens THEN "Line deleted" ELSE "Delete refused",
                   refused |-> r.at = "refused"]
    BY <1>9 DEF OrderRacing!Deleted, OrderRacing!server, OrderRacing!page
  <2>2. RacingCall(x)
    BY RacingAsks
  <2>3. m12'.said = "Line deleted" => ~m12'.refused
    BY <2>1
  <2> HIDE DEF x
  <2>4. \A y \in m13' : RacingCall(y)
    BY <1>0, <2>1, <2>2
  <2> QED
    BY <1>0, <2>1, <2>3, <2>4, RacingNext
<1>10. ASSUME NEW r \in m13, OrderRacing!Lost(r)
       PROVE  OrderRacing!ShowsInv'
  <2>1. m13' = m13 \ {r} /\ UNCHANGED <<m4, m5, m6, m8, m10, m12>> /\ m9' = (m9 \/ r.kind = "save")
    BY <1>10 DEF OrderRacing!Lost, OrderRacing!server
  <2>2. r.kind # "save"
    BY <1>0 DEF RacingCall
  <2>3. m5' = "detail" /\ m6'.closed => ~m9'
    BY <1>0, <2>1, <2>2
  <2> QED
    BY <1>0, <2>1, <2>3, RacingNext
<1>11. ASSUME NEW r \in m13, OrderRacing!Saved(r) \/ OrderRacing!ErpSaved(r)
       PROVE  FALSE
  BY <1>0, <1>11 DEF OrderRacing!Saved, OrderRacing!ErpSaved, RacingCall
<1>12. ASSUME OrderRacing!SaveHeader \/ OrderRacing!OpenEditLineModal
       PROVE  FALSE
  BY <1>12 DEF OrderRacing!SaveHeader, OrderRacing!OpenEditLineModal
<1>13. ASSUME \/ (\E p \in Pull : OrderRacing!SomebodyCloses(p)) \/ OrderRacing!Dismiss
              \/ UNCHANGED OrderRacing!vars
       PROVE  OrderRacing!ShowsInv'
  <2>1. UNCHANGED <<m4, m5, m6, m8, m9, m12, m13>> /\ m10' \in {m10, OrderRacing!NoModal}
    BY <1>13 DEF OrderRacing!SomebodyCloses, OrderRacing!Dismiss, OrderRacing!vars,
       OrderRacing!server, OrderRacing!page
  <2>2. OrderRacing!NoModal.kind # "erp"
    BY DEF OrderRacing!NoModal
  <2>3. m10'.kind # "erp"
    BY <1>0, <2>1, <2>2
  <2> QED
    BY <2>1, <2>3, RacingStill
<1> QED
  BY <1>1, <1>2, <1>3, <1>4, <1>5, <1>6, <1>7, <1>8, <1>9, <1>10, <1>11, <1>12, <1>13
  DEF OrderRacing!Next, OrderRacing!Answer, OrderRacing!OpenNewPoModal, OrderRacing!OpenAddLineModal,
     OrderRacing!OpenCloseModal, OrderRacing!OpenDeleteDialog, OrderRacing!SaveNewPo, OrderRacing!SaveAddLine,
     OrderRacing!ConfirmClose, OrderRacing!SaveLineExtendedFields, OrderRacing!PoCreated,
     OrderRacing!LineAdded, OrderRacing!PoClosed

-----------------------------------------------------------------------------
(* The picker: of the lookups under way none is for a text that is due.    *)
LEMMA ListInit == Pick!Init => Pick!ListInv
<1> SUFFICES ASSUME Pick!Init PROVE Pick!ListInv
  OBVIOUS
<1>1. m9 = {} /\ m2 = Stub /\ m4 = Stub /\ m3 = FALSE /\ m8 = None /\ m5.n = 0
  BY DEF Pick!Init, Pick!NoItems
<1>2. Pick!PickerScoped /\ Pick!ShowsLastQuery
  BY <1>1 DEF Pick!PickerScoped, Pick!ShowsLastQuery
<1> QED
  BY <1>1, <1>2 DEF Pick!ListInv

LEMMA ListDue ==
  ASSUME m2' \in Typing \cup {Stub}, m3' = TRUE, \A r \in m9' : r.q \in Typing,
         \A r \in m9' : r.q # m2', \A r \in m9' : r.q = m4' => r.wh = m1',
         Pick!PickerScoped', Pick!ShowsLastQuery'
  PROVE  Pick!ListInv'
BY DEF Pick!ListInv

LEMMA ListStep ==
  ASSUME Pick!PullPickerAssumption, Pick!ListInv, [Pick!Next]_(Pick!vars)
  PROVE  Pick!ListInv'
<1> USE DEF Pick!ListInv, Pick!ShowsLastQuery, Pick!PickerScoped, Pick!PullPickerAssumption
<1>1. ASSUME NEW q \in Typing \cup {Stub}, Pick!Type(q)
      PROVE  Pick!ListInv'
  <2>1. /\ m2' = q /\ m3' = TRUE /\ UNCHANGED <<m1, m4, m5, m8, m9>>
        /\ (\A r \in m9 : r.q # q) /\ m8 = None
    BY <1>1 DEF Pick!Type, Pick!list
  <2>2. Pick!PickerScoped' /\ Pick!ShowsLastQuery'
    BY <2>1
  <2>3. /\ m2' \in Typing \cup {Stub} /\ m3' = TRUE
        /\ \A r \in m9' : r.q \in Typing /\ r.q # m2' /\ (r.q = m4' => r.wh = m1')
    BY <2>1
  <2> HIDE DEF Pick!ListInv, Pick!ShowsLastQuery, Pick!PickerScoped
  <2> QED
    BY <2>2, <2>3, ListDue
<1>2. CASE Pick!Search
  <2>1. CASE m2 = Stub
    <3>1. /\ m3 = TRUE /\ m3' = FALSE /\ UNCHANGED <<m1, m2, m4, m8, m9>>
          /\ m5'.n = 0 /\ ~(m5'.n > 0)
      BY <1>2, <2>1 DEF Pick!Search, Pick!NoItems
    <3> QED
      BY <2>1, <3>1
  <2>2. CASE m2 # Stub
    <3> DEFINE x == [id |-> Pick!Unused, wh |-> m1, q |-> m2]
    <3>1. x.wh = m1 /\ x.q = m2
      OBVIOUS
    <3>2. /\ m9' = m9 \cup {x} /\ m4' = m2 /\ m3' = FALSE /\ m3 = TRUE
          /\ UNCHANGED <<m1, m2, m5, m8>>
      BY <1>2, <2>2 DEF Pick!Search
    <3> HIDE DEF x
    <3> QED
      BY <2>2, <3>1, <3>2
  <2> QED
    BY <2>1, <2>2
<1>3. ASSUME NEW r \in m9, NEW n, Pick!Found(r, n)
      PROVE  Pick!ListInv'
  BY <1>3 DEF Pick!Found, Pick!Current, Pick!list
<1>4. ASSUME NEW r \in m9, Pick!Fails(r)
      PROVE  Pick!ListInv'
  BY <1>4 DEF Pick!Fails, Pick!NoItems
<1>5. CASE Pick!SelectItem
  BY <1>5 DEF Pick!SelectItem
<1>6. CASE Pick!Clear \/ \E w \in Houses : Pick!ChangeWarehouse(w)
  <2>1. Pick!Reset
    BY <1>6 DEF Pick!Clear, Pick!ChangeWarehouse
  <2> QED
    BY <2>1 DEF Pick!Reset, Pick!NoItems, Pick!Forgets
<1>7. CASE Pick!Hide \/ (\E n \in 0 .. More - 1 : Pick!Highlight(n)) \/ UNCHANGED Pick!vars
  BY <1>7 DEF Pick!Hide, Pick!Highlight, Pick!vars, Pick!list
<1> QED
  BY <1>1, <1>2, <1>3, <1>4, <1>5, <1>6, <1>7 DEF Pick!Next

(* The same without texts too short to look up.                            *)
LEMMA TypedInit == PickTyped!Init => PickTyped!ListInv
<1> SUFFICES ASSUME PickTyped!Init PROVE PickTyped!ListInv
  OBVIOUS
<1>1. m9 = {} /\ m2 = Stub /\ m4 = Stub /\ m3 = FALSE /\ m8 = None /\ m5.n = 0
  BY DEF PickTyped!Init, PickTyped!NoItems
<1>2. PickTyped!PickerScoped /\ PickTyped!ShowsLastQuery
  BY <1>1 DEF PickTyped!PickerScoped, PickTyped!ShowsLastQuery
<1> QED
  BY <1>1, <1>2 DEF PickTyped!ListInv

LEMMA TypedDue ==
  ASSUME m2' \in Typing \cup {Stub}, m3' = TRUE, \A r \in m9' : r.q \in Typing,
         \A r \in m9' : r.q # m2', \A r \in m9' : r.q = m4' => r.wh = m1',
         PickTyped!PickerScoped', PickTyped!ShowsLastQuery', m2' = Stub => m9' = {}
  PROVE  PickTyped!ListInv'
BY DEF PickTyped!ListInv

LEMMA TypedStep ==
  ASSUME PickTyped!PullPickerAssumption, PickTyped!ListInv, [PickTyped!Next]_(PickTyped!vars)
  PROVE  PickTyped!ListInv'
<1> USE DEF PickTyped!ListInv, PickTyped!ShowsLastQuery, PickTyped!PickerScoped, PickTyped!PullPickerAssumption
<1>1. ASSUME NEW q \in Typing \cup {Stub}, PickTyped!Type(q)
      PROVE  PickTyped!ListInv'
  <2>1. /\ m2' = q /\ m3' = TRUE /\ UNCHANGED <<m1, m4, m5, m8, m9>>
        /\ (\A r \in m9 : r.q # q) /\ m8 = None
    BY <1>1 DEF PickTyped!Type, PickTyped!list
  <2>2. (q = Stub => m9 = {})
    BY <1>1, <2>1 DEF PickTyped!Type
  <2>3. PickTyped!PickerScoped' /\ PickTyped!ShowsLastQuery'
    BY <2>1
  <2>4. /\ m2' \in Typing \cup {Stub} /\ m3' = TRUE
        /\ \A r \in m9' : r.q \in Typing /\ r.q # m2' /\ (r.q = m4' => r.wh = m1')
    BY <2>1
  <2> HIDE DEF PickTyped!ListInv, PickTyped!ShowsLastQuery, PickTyped!PickerScoped
  <2> QED
    BY <2>1, <2>2, <2>3, <2>4, TypedDue
<1>2. CASE PickTyped!Search
  <2>1. CASE m2 = Stub
    <3>1. /\ m3 = TRUE /\ m3' = FALSE /\ UNCHANGED <<m1, m2, m4, m8, m9>>
          /\ m5'.n = 0 /\ ~(m5'.n > 0)
      BY <1>2, <2>1 DEF PickTyped!Search, PickTyped!NoItems
    <3> QED
      BY <2>1, <3>1
  <2>2. CASE m2 # Stub
    <3> DEFINE x == [id |-> PickTyped!Unused, wh |-> m1, q |-> m2]
    <3>1. x.wh = m1 /\ x.q = m2
      OBVIOUS
    <3>2. /\ m9' = m9 \cup {x} /\ m4' = m2 /\ m3' = FALSE /\ m3 = TRUE
          /\ UNCHANGED <<m1, m2, m5, m8>>
      BY <1>2, <2>2 DEF PickTyped!Search
    <3> HIDE DEF x
    <3> QED
      BY <2>2, <3>1, <3>2
  <2> QED
    BY <2>1, <2>2
<1>3. ASSUME NEW r \in m9, NEW n, PickTyped!Found(r, n)
      PROVE  PickTyped!ListInv'
  BY <1>3 DEF PickTyped!Found, PickTyped!Current, PickTyped!list
<1>4. ASSUME NEW r \in m9, PickTyped!Fails(r)
      PROVE  PickTyped!ListInv'
  BY <1>4 DEF PickTyped!Fails, PickTyped!NoItems
<1>5. CASE PickTyped!SelectItem
  BY <1>5 DEF PickTyped!SelectItem
<1>6. CASE PickTyped!Clear \/ \E w \in Houses : PickTyped!ChangeWarehouse(w)
  <2>1. PickTyped!Reset
    BY <1>6 DEF PickTyped!Clear, PickTyped!ChangeWarehouse
  <2> QED
    BY <2>1 DEF PickTyped!Reset, PickTyped!NoItems, PickTyped!Forgets
<1>7. CASE PickTyped!Hide \/ (\E n \in 0 .. More - 1 : PickTyped!Highlight(n)) \/ UNCHANGED PickTyped!vars
  BY <1>7 DEF PickTyped!Hide, PickTyped!Highlight, PickTyped!vars, PickTyped!list
<1> QED
  BY <1>1, <1>2, <1>3, <1>4, <1>5, <1>6, <1>7 DEF PickTyped!Next

-----------------------------------------------------------------------------
(* The preview has the title of the pull selected.                         *)
LEMMA TitleInit == Reports!Init => Reports!TitleNamesSelected
BY DEF Reports!Init, Reports!TitleNamesSelected

LEMMA TitleStep ==
  ASSUME Reports!TitleNamesSelected, [Reports!Next]_(Reports!vars)
  PROVE  Reports!TitleNamesSelected'
<1> USE DEF Reports!TitleNamesSelected
<1>1. ASSUME NEW p \in Pulls, Reports!ClickRow(p)
      PROVE  m3'.of = m1'
  BY <1>1 DEF Reports!ClickRow, Reports!LoadPreview
<1>2. ASSUME NEW t, Reports!ClickType(t)
      PROVE  m3'.of = m1'
  BY <1>2 DEF Reports!ClickType, Reports!LoadPreview
<1>3. ASSUME NEW r \in m6, Reports!Serve(r) \/ Reports!Answer(r)
      PROVE  m3'.of = m1'
  BY <1>3 DEF Reports!Serve, Reports!Answer, Reports!PreviewAnswer, Reports!PreviewError, Reports!Named
<1>4. CASE UNCHANGED Reports!vars
  BY <1>4 DEF Reports!vars
<1> QED
  BY <1>1, <1>2, <1>3, <1>4 DEF Reports!Next

-----------------------------------------------------------------------------
(* The label tells the source that is posted.                              *)
LEMMA LabelInit == Sources!Init => Sources!LabelTellsPosted
BY DEF Sources!Init, Sources!LabelTellsPosted

LEMMA LabelStep ==
  ASSUME Sources!LabelTellsPosted, [Sources!Next]_(Sources!vars)
  PROVE  Sources!LabelTellsPosted'
<1> USE DEF Sources!LabelTellsPosted
<1>1. ASSUME NEW r \in m7, Sources!Serve(r) \/ Sources!PopulateAnswer(r) \/ Sources!PopulateError(r)
      PROVE  Sources!LabelTellsPosted'
  BY <1>1 DEF Sources!Serve, Sources!PopulateAnswer, Sources!PopulateError, Sources!LabelOf
<1>2. ASSUME NEW i, Sources!Choose(i)
      PROVE  Sources!LabelTellsPosted'
  BY <1>2 DEF Sources!Choose, Sources!LabelOf
<1>3. CASE Sources!Open \/ Sources!Dismiss
  BY <1>3 DEF Sources!Open, Sources!Dismiss
<1>4. CASE Sources!Trigger
  BY <1>4 DEF Sources!Trigger
<1>5. ASSUME NEW s, Sources!Configure(s)
      PROVE  Sources!LabelTellsPosted'
  BY <1>5 DEF Sources!Configure
<1>6. CASE UNCHANGED Sources!vars
  BY <1>6 DEF Sources!vars
<1> QED
  BY <1>1, <1>2, <1>3, <1>4, <1>5, <1>6 DEF Sources!Next

-----------------------------------------------------------------------------
(* The warehouses offered are those of the name typed, once it was looked  *)
(* up: a later lookup has a larger token.                                  *)
LEMMA FollowInit == Login!Init => Login!FollowInv
BY DEF Login!Init, Login!FollowInv, Login!OptionsFollow, Login!SessionAssigned, Login!NoSession

(* A lookup is for the name in the input, or the input is empty.           *)
LEMMA FollowLookup ==
  ASSUME Login!FollowInv, NEW u, Login!Lookup(u), m1' = u, UNCHANGED m7
  PROVE  Login!FollowInv'
<1> USE DEF Login!FollowInv, Login!OptionsFollow, Login!SessionAssigned
<1>1. CASE u = None
  BY <1>1 DEF Login!Lookup, Login!Offer, Login!Message
<1>2. CASE u # None
  <2> DEFINE q == [token |-> m3 + 1, of |-> u, answer |-> "none"]
  <2>1. m3' = m3 + 1 /\ m8' = m8 \cup {q} /\ UNCHANGED <<m4, m5>>
    BY <1>2 DEF Login!Lookup
  <2>2. q.token = m3 + 1 /\ q.of = u /\ {"token", "of", "answer"} \subseteq DOMAIN q
    OBVIOUS
  <2> HIDE DEF q
  <2>3. \A r \in m8 : r.token # m3'
    BY <2>1
  <2> QED
    BY <2>1, <2>2, <2>3
<1> QED
  BY <1>1, <1>2

LEMMA FollowStep ==
  ASSUME Login!FollowInv, [Login!Next]_(Login!vars)
  PROVE  Login!FollowInv'
<1> USE DEF Login!FollowInv, Login!OptionsFollow, Login!SessionAssigned
<1>1. ASSUME NEW u, Login!Type(u)
      PROVE  Login!FollowInv'
  BY <1>1 DEF Login!Type
<1>2. CASE Login!DebounceEnds \/ Login!Blur
  <2>1. Login!Lookup(m1) /\ UNCHANGED <<m1, m7>>
    BY <1>2 DEF Login!DebounceEnds, Login!Blur
  <2> QED
    BY <2>1, FollowLookup
<1>3. CASE Login!DemoFill
  <2>1. Login!Lookup(Demo) /\ m1' = Demo /\ UNCHANGED m7
    BY <1>3 DEF Login!DemoFill
  <2> QED
    BY <2>1, FollowLookup
<1>4. ASSUME NEW r \in m8, Login!Serve(r)
      PROVE  Login!FollowInv'
  <2>1. PICK a : m8' = (m8 \ {r}) \cup {[r EXCEPT !.answer = a]}
    BY <1>4 DEF Login!Serve
  <2> DEFINE q == [r EXCEPT !.answer = a]
  <2>2. q.token = r.token /\ q.of = r.of /\ {"token", "of", "answer"} \subseteq DOMAIN q
    OBVIOUS
  <2>3. UNCHANGED <<m1, m2, m3, m4, m7>>
    BY <1>4 DEF Login!Serve
  <2>4. m8' = (m8 \ {r}) \cup {q}
    BY <2>1
  <2> HIDE DEF q
  <2> QED
    BY <2>2, <2>3, <2>4
<1>5. ASSUME NEW r \in m8, Login!LookupAnswer(r)
      PROVE  Login!FollowInv'
  <2>1. m8' = m8 \ {r} /\ UNCHANGED <<m1, m2, m3, m7>>
    BY <1>5 DEF Login!LookupAnswer
  <2>2. CASE Login!Current(r)
    <3>1. m4' = IF r.answer = "ok" THEN Login!ListFor(r.of) ELSE Login!Message("error")
      BY <1>5, <2>2 DEF Login!LookupAnswer, Login!Offer
    <3>2. m4'.of = r.of \/ m4'.kind = "error"
      BY <3>1 DEF Login!ListFor, Login!Message
    <3>3. r.token = m3
      BY <2>2 DEF Login!Current
    <3> QED
      BY <2>1, <3>2, <3>3
  <2>3. CASE ~Login!Current(r)
    BY <1>5, <2>1, <2>3 DEF Login!LookupAnswer, Login!Current
  <2> QED
    BY <2>2, <2>3
<1>6. CASE Login!ServePost
  BY <1>6 DEF Login!ServePost, Login!Admits
<1>7. ASSUME \/ Login!Submit \/ Login!PostLost \/ Login!PostAnswer
             \/ (\E w \in Houses : Login!Choose(w)) \/ UNCHANGED Login!vars
      PROVE  Login!FollowInv'
  BY <1>7 DEF Login!Submit, Login!PostLost, Login!PostAnswer, Login!Choose, Login!vars
<1> QED
  BY <1>1, <1>2, <1>3, <1>4, <1>5, <1>6, <1>7 DEF Login!Next

-----------------------------------------------------------------------------
(* A set of numbers has a least one.                                       *)
LEMMA LeastOf ==
  ASSUME NEW S \in SUBSET Nat, S # {}
  PROVE  \E x \in S : \A y \in S : x =< y
<1> DEFINE R == OpToRel(<, Nat)
<1>1. \A x, y \in Nat : y < x => <<y, x>> \in R
  BY Zenon DEF OpToRel
<1>2. IsWellFoundedOn(R, Nat)
  BY NatLessThanWellFounded, Zenon
<1> HIDE DEF R
<1>3. PICK x \in S : \A y \in S : ~(<<y, x>> \in R)
  BY <1>2, WFMin
<1>4. x \in Nat /\ \A y \in S : y \in Nat /\ ~(y < x)
  BY <1>1, <1>3
<1> QED
  BY <1>4

(* A request under way, of rows.                                           *)
Asked == [filter : [search : BOOLEAN, action : Act \cup {None}], served : BOOLEAN, data : SUBSET Logged]

(* The requests under way without one of them.                             *)
LEMMA RemoveOne ==
  ASSUME NEW R, m10 \in Seq(R), NEW i \in 1 .. Len(m10)
  PROVE  AuditRacing!Without(i) \in Seq(R)
<1>1. SubSeq(m10, 1, i - 1) \in Seq(R) /\ SubSeq(m10, i + 1, Len(m10)) \in Seq(R)
  OBVIOUS
<1> QED
  BY <1>1 DEF AuditRacing!Without

(* The rows drawn have the text that is searched.                          *)
LEMMA HoldsInit == AuditRacing!AuditAssumption /\ AuditRacing!Init => AuditRacing!HoldsInv
<1> SUFFICES ASSUME AuditRacing!AuditAssumption, AuditRacing!Init PROVE AuditRacing!HoldsInv
  OBVIOUS
<1>1. /\ m1 = Old /\ m2 = FALSE /\ m3 = None /\ m7 = {} /\ m8 = {} /\ m9 = "no" /\ m10 = <<>>
      /\ Old \subseteq Logged
  BY DEF AuditRacing!Init, AuditRacing!AuditAssumption
<1>2. m10 \in Seq(Asked)
  BY <1>1
<1>3. AuditRacing!ShownHolds
  BY <1>1 DEF AuditRacing!ShownHolds
<1> QED
  BY <1>1, <1>2, <1>3 DEF AuditRacing!HoldsInv, Asked

(* What is drawn anew holds the text and is of the days.                   *)
LEMMA HoldsDrawn ==
  ASSUME NEW set \in SUBSET Logged, NEW s, NEW d
  PROVE  AuditRacing!Filtered(set, s, d) \subseteq {x \in Logged : (s => x \in Holds) /\ (d => x \in Recent)}
BY DEF AuditRacing!Filtered

(* A request for the controls as they are now.                             *)
LEMMA HoldsAsked ==
  ASSUME m10 \in Seq(Asked), NEW s \in BOOLEAN, NEW a \in Act \cup {None}, AuditRacing!SyncAudit(s, a)
  PROVE  m10' \in Seq(Asked)
<1> DEFINE q == [filter |-> [search |-> s, action |-> a], served |-> FALSE, data |-> {}]
<1>1. q \in Asked
  BY DEF Asked
<1>2. m10' = Append(m10, q)
  BY DEF AuditRacing!SyncAudit
<1> HIDE DEF q
<1> QED
  BY <1>1, <1>2

LEMMA HoldsKept ==
  ASSUME AuditRacing!HoldsInv, m10' \in Seq(Asked), UNCHANGED <<m1, m2, m4, m7, m8, m9>>,
         m3' \in Act \cup {None}
  PROVE  AuditRacing!HoldsInv'
BY DEF AuditRacing!HoldsInv, AuditRacing!ShownHolds, Asked

LEMMA HoldsStep ==
  ASSUME AuditRacing!AuditAssumption, AuditRacing!HoldsInv, [AuditRacing!Next]_(AuditRacing!vars)
  PROVE  AuditRacing!HoldsInv'
<1>0. /\ m1 \subseteq Logged /\ m7 \subseteq Logged /\ m2 \in BOOLEAN /\ m3 \in Act \cup {None}
      /\ m10 \in Seq(Asked) /\ (m9 = "sent" => Logged \ m1 # {})
  BY DEF AuditRacing!HoldsInv, Asked
<1>1. ASSUME NEW i \in DOMAIN m10, AuditRacing!Serve(i)
      PROVE  AuditRacing!HoldsInv'
  <2> DEFINE f == m10[i].filter
             q == [m10[i] EXCEPT !.served = TRUE, !.data = AuditRacing!Query(m1, f)]
  <2>1. AuditRacing!Query(m1, f) \in SUBSET Logged
    BY <1>0 DEF AuditRacing!Query, AuditRacing!Newest
  <2>2. m10[i] \in Asked
    BY <1>0
  <2>3. q \in Asked
    BY <2>1, <2>2 DEF Asked
  <2>4. m10' = [m10 EXCEPT ![i] = q] /\ UNCHANGED <<m1, m2, m3, m4, m7, m8, m9>>
    BY <1>1 DEF AuditRacing!Serve, AuditRacing!controls
  <2> HIDE DEF q
  <2>5. m10' \in Seq(Asked)
    BY <1>0, <2>3, <2>4
  <2> QED
    BY <1>0, <2>4, <2>5, HoldsKept
<1>2. ASSUME NEW i \in DOMAIN m10, AuditRacing!Answer(i)
      PROVE  AuditRacing!HoldsInv'
  <2>1. /\ m10' = AuditRacing!Without(i) /\ m7' = m10[i].data
        /\ m8' = AuditRacing!Filtered(m7', m2, m4) /\ UNCHANGED <<m1, m2, m3, m4, m9>>
    BY <1>2 DEF AuditRacing!Answer, AuditRacing!controls
  <2>2. m10[i] \in Asked /\ i \in 1 .. Len(m10)
    BY <1>0
  <2>3. m7' \in SUBSET Logged
    BY <2>1, <2>2 DEF Asked
  <2>4. AuditRacing!ShownHolds'
    BY <2>1, <2>3, HoldsDrawn DEF AuditRacing!ShownHolds
  <2>5. m10' \in Seq(Asked)
    BY <1>0, <2>1, <2>2, RemoveOne
  <2> QED
    BY <1>0, <2>1, <2>3, <2>4, <2>5 DEF AuditRacing!HoldsInv, Asked
<1>3. ASSUME NEW i \in DOMAIN m10, AuditRacing!Lose(i)
      PROVE  AuditRacing!HoldsInv'
  <2>1. m10' = AuditRacing!Without(i) /\ UNCHANGED <<m1, m2, m3, m4, m7, m8, m9>>
    BY <1>3 DEF AuditRacing!Lose, AuditRacing!controls
  <2>2. m10' \in Seq(Asked)
    BY <1>0, <2>1, RemoveOne
  <2> QED
    BY <1>0, <2>1, <2>2, HoldsKept
<1>4. ASSUME AuditRacing!OpenTab \/ AuditRacing!DebounceEnds
      PROVE  AuditRacing!HoldsInv'
  <2>1. AuditRacing!SyncAudit(m2, m3) /\ UNCHANGED <<m1, m2, m3, m4, m7, m8, m9>>
    BY <1>4 DEF AuditRacing!OpenTab, AuditRacing!DebounceEnds, AuditRacing!controls
  <2> QED
    BY <1>0, <2>1, HoldsAsked, HoldsKept
<1>5. ASSUME NEW a \in Act \cup {None}, AuditRacing!ChooseAction(a)
      PROVE  AuditRacing!HoldsInv'
  <2>1. AuditRacing!SyncAudit(m2, a) /\ m3' = a /\ UNCHANGED <<m1, m2, m4, m7, m8, m9>>
    BY <1>5 DEF AuditRacing!ChooseAction
  <2> QED
    BY <1>0, <2>1, HoldsAsked, HoldsKept
<1>6. CASE AuditRacing!TypeSearch
  <2>1. m8' = AuditRacing!Filtered(m7, ~m2, m4) /\ m2' = ~m2 /\ UNCHANGED <<m1, m3, m4, m7, m9, m10>>
    BY <1>6 DEF AuditRacing!TypeSearch
  <2>2. AuditRacing!ShownHolds'
    BY <1>0, <2>1, HoldsDrawn DEF AuditRacing!ShownHolds
  <2>3. m2' \in BOOLEAN
    BY <2>1
  <2> QED
    BY <1>0, <2>1, <2>2, <2>3 DEF AuditRacing!HoldsInv, Asked
<1>7. CASE AuditRacing!ChooseDate
  <2>1. m8' = AuditRacing!Filtered(m7, m2, ~m4) /\ m4' = ~m4 /\ UNCHANGED <<m1, m2, m3, m7, m9, m10>>
    BY <1>7 DEF AuditRacing!ChooseDate
  <2>2. AuditRacing!ShownHolds'
    BY <1>0, <2>1, HoldsDrawn DEF AuditRacing!ShownHolds
  <2> QED
    BY <1>0, <2>1, <2>2 DEF AuditRacing!HoldsInv, Asked
<1>8. CASE AuditRacing!OtherBegins
  <2>1. m9' = "sent" /\ Logged \ m1 # {} /\ UNCHANGED <<m1, m2, m3, m4, m7, m8, m10>>
    BY <1>8 DEF AuditRacing!OtherBegins, AuditRacing!controls
  <2> QED
    BY <2>1 DEF AuditRacing!HoldsInv, AuditRacing!ShownHolds
<1>9. CASE AuditRacing!OtherServed
  <2> DEFINE left == Logged \ m1
             x == CHOOSE z \in left : \A y \in left : z =< y
  <2>1. /\ m9' = "served" /\ m1' \in {m1, m1 \cup {x}} /\ left # {}
        /\ UNCHANGED <<m2, m3, m4, m7, m8, m10>>
    BY <1>0, <1>9 DEF AuditRacing!OtherServed, AuditRacing!controls
  <2>2. left \in SUBSET Nat
    BY DEF AuditRacing!AuditAssumption
  <2>3. \E z \in left : \A y \in left : z =< y
    BY <2>1, <2>2, LeastOf
  <2>4. x \in left
    BY <2>3
  <2>5. m1' \subseteq Logged /\ m1 \subseteq m1'
    BY <1>0, <2>1, <2>4
  <2> QED
    BY <2>1, <2>5 DEF AuditRacing!HoldsInv, AuditRacing!ShownHolds
<1>10. CASE AuditRacing!OtherFails \/ AuditRacing!OtherEnds
  <2>1. m9' = "no" /\ UNCHANGED <<m1, m2, m3, m4, m7, m8>>
    BY <1>10 DEF AuditRacing!OtherFails, AuditRacing!OtherEnds, AuditRacing!controls
  <2>2. m10' = m10 \/ AuditRacing!SyncAudit(m2, m3)
    BY <1>10 DEF AuditRacing!OtherFails, AuditRacing!OtherEnds
  <2>3. m10' \in Seq(Asked)
    BY <1>0, <2>2, HoldsAsked
  <2> QED
    BY <2>1, <2>3 DEF AuditRacing!HoldsInv, AuditRacing!ShownHolds, Asked
<1>11. CASE AuditRacing!OtherTab \/ UNCHANGED AuditRacing!vars
  <2>1. UNCHANGED <<m1, m2, m3, m4, m7, m8, m9, m10>>
    BY <1>11 DEF AuditRacing!OtherTab, AuditRacing!vars, AuditRacing!controls
  <2> QED
    BY <1>0, <2>1, HoldsKept
<1> QED
  BY <1>1, <1>2, <1>3, <1>4, <1>5, <1>6, <1>7, <1>8, <1>9, <1>10, <1>11 DEF AuditRacing!Next

-----------------------------------------------------------------------------
LEMMA CardinalityOfPages ==
  ASSUME NEW S
  PROVE  /\ RecLossy!Cardinality(S) = Cardinality(S) /\ DrawerSaves!Cardinality(S) = Cardinality(S)
         /\ Form!Cardinality(S) = Cardinality(S)
BY DEF Cardinality, RecLossy!Cardinality, DrawerSaves!Cardinality, Form!Cardinality

LEMMA OneCallAtATimeFollows == CallsInv => OneCallAtATime
<1> SUFFICES ASSUME CallsInv PROVE OneCallAtATime
  OBVIOUS
<1>1. ASSUME On("lossy")
      PROVE  RecLossy!OneCancelAtATime /\ RecLossy!ConfirmNeverStuck
  BY <1>1, OneOrNone, CardinalityOfPages DEF CallsInv, RecLossy!BothInv, RecLossy!OneCancelAtATime
<1>2. ASSUME On("drawerSaves")
      PROVE  DrawerSaves!ButtonHeldByItsSave
  BY <1>2, OneOrNone, CardinalityOfPages DEF CallsInv, DrawerSaves!HeldInv, DrawerSaves!ButtonHeldByItsSave
<1>3. ASSUME On("form")
      PROVE  Form!OneSaveAtATime
  BY <1>3, OneOrNone, CardinalityOfPages DEF CallsInv, Form!SavingInv, Form!OneSaveAtATime
<1>4. On("cancel") => Cancel!ReversedOnce
  BY DEF CallsInv, Cancel!CancelInv, Cancel!ReversedOnce
<1>5. On("mastersRacing") => MastersRacing!DeletesAsAsked
  BY DEF CallsInv, MastersRacing!AskedInv, MastersRacing!DeletesAsAsked
<1>6. (On("imports") => Imports!ConfirmedOnce) /\ (On("sync") => Sync!BusyMeansPending)
  BY DEF CallsInv, Imports!ConfirmInv, Sync!PendingInv
<1> QED
  BY <1>1, <1>2, <1>3, <1>4, <1>5, <1>6 DEF OneCallAtATime

(* What a page shows is what its invariant says.                           *)
LEMMA ShowsFollows == CallsInv => ShowsWhatItNames
<1> SUFFICES ASSUME CallsInv PROVE ShowsWhatItNames
  OBVIOUS
<1>1. On("shared") => RecShared!GridFromServer
  BY DEF CallsInv, RecShared!GridInv, RecShared!GridFromServer
<1>2. On("drawer") => Drawer!WindowsOfItsItem /\ Drawer!TotalsFromServer
  BY DEF CallsInv, Drawer!ShownInv
<1>3. On("order") => OrderPage!FormIsDetail /\ OrderPage!HeadIsItsOwn /\ OrderPage!DeletedIsDeleted
  BY DEF CallsInv, OrderPage!ShowsInv
<1>4. On("orderRacing") => OrderRacing!FormIsDetail /\ OrderRacing!ClosedIsDisabled
  BY DEF CallsInv, OrderRacing!ShowsInv
<1>5. On("cancel") => Cancel!ModalHasTarget
  BY DEF CallsInv, Cancel!CancelInv
<1>6. On("picker") => Pick!ShowsLastQuery /\ Pick!PickerScoped
  BY DEF CallsInv, Pick!ListInv
<1>7. On("typed") => PickTyped!ListedIsTyped
  BY DEF CallsInv, PickTyped!ListInv, PickTyped!ListedIsTyped, PickTyped!ShowsLastQuery
<1>8. On("reports") => Reports!TitleNamesSelected
  BY DEF CallsInv
<1>9. On("login") => Login!OptionsFollow /\ Login!SessionAssigned
  BY DEF CallsInv, Login!FollowInv
<1>10. On("sources") => Sources!LabelTellsPosted
  BY DEF CallsInv
<1>11. On("sync") => Sync!ReportedSucceeded
  BY DEF CallsInv, Sync!ReportInv, Sync!ReportedSucceeded, Sync!Polled, Sync!Following
<1>12. On("auditRacing") => AuditRacing!ShownHolds
  BY DEF CallsInv, AuditRacing!HoldsInv
<1> QED
  BY <1>1, <1>2, <1>3, <1>4, <1>5, <1>6, <1>7, <1>8, <1>9, <1>10, <1>11, <1>12
  DEF ShowsWhatItNames

(* Whatever page is open, the behaviour starts and stays within CallsInv.  *)
LEMMA CallsStart == CallsInit => CallsInv
<1> SUFFICES ASSUME CallsInit PROVE CallsInv
  OBVIOUS
<1> USE DEF On
<1>1. CASE On("shared") /\ RecShared!Init
  BY <1>1, GridInit, CallsFit DEF CallsInv, CallsFit
<1>2. CASE On("cells") /\ RecCells!Init
  BY <1>2, CellsInit, CallsFit DEF CallsInv, CallsFit
<1>3. CASE On("lossy") /\ RecLossy!Init
  BY <1>3, BothInit DEF CallsInv
<1>4. CASE On("drawerSaves") /\ DrawerSaves!Init
  BY <1>4, HeldInit DEF CallsInv
<1>5. CASE On("form") /\ Form!Init
  BY <1>5, SavingInit DEF CallsInv
<1>6. CASE On("pager") /\ Pages!Init
  BY <1>6, RenderedInit, CallsFit DEF CallsInv, CallsFit
<1>7. CASE On("cancel") /\ Cancel!Init
  BY <1>7, CancelInit, CallsFit DEF CallsInv, CallsFit
<1>8. CASE On("sync") /\ Sync!Init
  BY <1>8, PendingInit, ReportInit, CallsFit DEF CallsInv, CallsFit
<1>9. CASE On("imports") /\ Imports!Init
  BY <1>9, ConfirmInit, CallsFit DEF CallsInv, CallsFit
<1>10. CASE On("mastersRacing") /\ MastersRacing!Init
  BY <1>10, AskedInit DEF CallsInv
<1>11. CASE On("drawer") /\ Drawer!Init
  BY <1>11, ShownInit, CallsFit DEF CallsInv, CallsFit
<1>12. CASE On("order") /\ OrderPage!Init
  BY <1>12, OrderInit DEF CallsInv
<1>13. CASE On("orderRacing") /\ OrderRacing!Init
  BY <1>13, RacingInit DEF CallsInv
<1>14. CASE On("picker") /\ Pick!Init
  BY <1>14, ListInit, CallsFit DEF CallsInv, CallsFit
<1>15. CASE On("typed") /\ PickTyped!Init
  BY <1>15, TypedInit, CallsFit DEF CallsInv, CallsFit
<1>16. CASE On("reports") /\ Reports!Init
  BY <1>16, TitleInit DEF CallsInv
<1>17. CASE On("login") /\ Login!Init
  BY <1>17, FollowInit DEF CallsInv
<1>18. CASE On("sources") /\ Sources!Init
  BY <1>18, LabelInit DEF CallsInv
<1>19. CASE On("auditRacing") /\ AuditRacing!Init
  BY <1>19, HoldsInit, CallsFit DEF CallsInv, CallsFit
<1> QED
  BY <1>1, <1>2, <1>3, <1>4, <1>5, <1>6, <1>7, <1>8, <1>9, <1>10, <1>11, <1>12, <1>13, <1>14,
     <1>15, <1>16, <1>17, <1>18, <1>19
  DEF CallsInit

LEMMA CallsGoOn ==
  ASSUME CallsInv, [CallsNext]_vars
  PROVE  CallsInv' /\ AnswersItsCall
<1> USE DEF On
<1>1. ASSUME On("shared"), UNCHANGED scene, [RecShared!Next]_(RecShared!vars)
      PROVE  CallsInv' /\ AnswersItsCall
  BY <1>1, SharedStep, CallsFit DEF CallsInv, AnswersItsCall, CallsFit
<1>2. ASSUME On("cells"), UNCHANGED scene, [RecCells!Next]_(RecCells!vars)
      PROVE  CallsInv' /\ AnswersItsCall
  BY <1>2, CellsStep, CallsFit DEF CallsInv, AnswersItsCall, CallsFit
<1>3. ASSUME On("lossy"), UNCHANGED scene, [RecLossy!Next]_(RecLossy!vars)
      PROVE  CallsInv' /\ AnswersItsCall
  BY <1>3, BothStep DEF CallsInv, AnswersItsCall
<1>4. ASSUME On("drawerSaves"), UNCHANGED scene, [DrawerSaves!Next]_(DrawerSaves!vars)
      PROVE  CallsInv' /\ AnswersItsCall
  BY <1>4, HeldStep DEF CallsInv, AnswersItsCall
<1>5. ASSUME On("form"), UNCHANGED scene, [Form!Next]_(Form!vars)
      PROVE  CallsInv' /\ AnswersItsCall
  BY <1>5, SavingStep DEF CallsInv, AnswersItsCall
<1>6. ASSUME On("pager"), UNCHANGED scene, [Pages!Next]_(Pages!vars)
      PROVE  CallsInv' /\ AnswersItsCall
  BY <1>6, RenderedStep, CallsFit DEF CallsInv, AnswersItsCall, CallsFit
<1>7. ASSUME On("cancel"), UNCHANGED scene, [Cancel!Next]_(Cancel!vars)
      PROVE  CallsInv' /\ AnswersItsCall
  BY <1>7, CancelStep, CallsFit DEF CallsInv, AnswersItsCall, CallsFit
<1>8. ASSUME On("sync"), UNCHANGED scene, [Sync!Next]_(Sync!vars)
      PROVE  CallsInv' /\ AnswersItsCall
  BY <1>8, PendingStep, ReportStep, CallsFit DEF CallsInv, AnswersItsCall, CallsFit
<1>9. ASSUME On("imports"), UNCHANGED scene, [Imports!Next]_(Imports!vars)
      PROVE  CallsInv' /\ AnswersItsCall
  BY <1>9, ConfirmStep, CallsFit DEF CallsInv, AnswersItsCall, CallsFit
<1>10. ASSUME On("mastersRacing"), UNCHANGED scene, [MastersRacing!Next]_(MastersRacing!vars)
       PROVE  CallsInv' /\ AnswersItsCall
  BY <1>10, AskedStep DEF CallsInv, AnswersItsCall
<1>11. ASSUME On("drawer"), UNCHANGED scene, [Drawer!Next]_(Drawer!vars)
       PROVE  CallsInv' /\ AnswersItsCall
  BY <1>11, ShownStep, CallsFit DEF CallsInv, AnswersItsCall, CallsFit
<1>12. ASSUME On("order"), UNCHANGED scene, [OrderPage!Next]_(OrderPage!vars)
       PROVE  CallsInv' /\ AnswersItsCall
  BY <1>12, OrderStep DEF CallsInv, AnswersItsCall
<1>13. ASSUME On("orderRacing"), UNCHANGED scene, [OrderRacing!Next]_(OrderRacing!vars)
       PROVE  CallsInv' /\ AnswersItsCall
  BY <1>13, RacingStep DEF CallsInv, AnswersItsCall
<1>14. ASSUME On("picker"), UNCHANGED scene, [Pick!Next]_(Pick!vars)
       PROVE  CallsInv' /\ AnswersItsCall
  BY <1>14, ListStep, CallsFit DEF CallsInv, AnswersItsCall, CallsFit
<1>15. ASSUME On("typed"), UNCHANGED scene, [PickTyped!Next]_(PickTyped!vars)
       PROVE  CallsInv' /\ AnswersItsCall
  BY <1>15, TypedStep, CallsFit DEF CallsInv, AnswersItsCall, CallsFit
<1>16. ASSUME On("reports"), UNCHANGED scene, [Reports!Next]_(Reports!vars)
       PROVE  CallsInv' /\ AnswersItsCall
  BY <1>16, TitleStep DEF CallsInv, AnswersItsCall
<1>17. ASSUME On("login"), UNCHANGED scene, [Login!Next]_(Login!vars)
       PROVE  CallsInv' /\ AnswersItsCall
  BY <1>17, FollowStep DEF CallsInv, AnswersItsCall
<1>18. ASSUME On("sources"), UNCHANGED scene, [Sources!Next]_(Sources!vars)
       PROVE  CallsInv' /\ AnswersItsCall
  BY <1>18, LabelStep DEF CallsInv, AnswersItsCall
<1>19. ASSUME On("auditRacing"), UNCHANGED scene, [AuditRacing!Next]_(AuditRacing!vars)
       PROVE  CallsInv' /\ AnswersItsCall
  BY <1>19, HoldsStep, CallsFit DEF CallsInv, AnswersItsCall, CallsFit
<1>20. ASSUME UNCHANGED vars
       PROVE  /\ UNCHANGED scene
              /\ UNCHANGED RecShared!vars /\ UNCHANGED RecCells!vars /\ UNCHANGED RecLossy!vars
              /\ UNCHANGED DrawerSaves!vars /\ UNCHANGED Form!vars /\ UNCHANGED Pages!vars
              /\ UNCHANGED Cancel!vars /\ UNCHANGED Sync!vars /\ UNCHANGED Imports!vars
              /\ UNCHANGED MastersRacing!vars /\ UNCHANGED Drawer!vars /\ UNCHANGED OrderPage!vars
              /\ UNCHANGED OrderRacing!vars /\ UNCHANGED Pick!vars /\ UNCHANGED PickTyped!vars
              /\ UNCHANGED Reports!vars /\ UNCHANGED Login!vars /\ UNCHANGED Sources!vars
              /\ UNCHANGED AuditRacing!vars
  BY <1>20 DEF vars, RecShared!vars, RecShared!bounds, RecShared!page, RecCells!vars,
     RecCells!bounds, RecCells!page, RecLossy!vars, RecLossy!bounds, RecLossy!page,
     DrawerSaves!vars, DrawerSaves!copies, Form!vars, Pages!vars, Cancel!vars, Sync!vars,
     Sync!server, Sync!page, Imports!vars, MastersRacing!vars, Drawer!vars, Drawer!copies,
     OrderPage!vars, OrderPage!server, OrderPage!page, OrderRacing!vars, OrderRacing!server,
     OrderRacing!page, Pick!vars, Pick!list, PickTyped!vars, PickTyped!list, Reports!vars,
     Login!vars, Sources!vars, AuditRacing!vars, AuditRacing!controls
<1>21. ASSUME UNCHANGED vars,
              ~On("shared"), ~On("cells"), ~On("lossy"), ~On("drawerSaves"), ~On("form"),
              ~On("pager"), ~On("cancel"), ~On("sync"), ~On("imports"), ~On("mastersRacing"),
              ~On("drawer"), ~On("order"), ~On("orderRacing"), ~On("picker"), ~On("typed"),
              ~On("reports"), ~On("login"), ~On("sources"), ~On("auditRacing")
       PROVE  CallsInv' /\ AnswersItsCall
  BY <1>21 DEF vars, CallsInv, AnswersItsCall
<1>22. CASE UNCHANGED vars
  BY <1>1, <1>2, <1>3, <1>4, <1>5, <1>6, <1>7, <1>8, <1>9, <1>10, <1>11, <1>12, <1>13, <1>14,
     <1>15, <1>16, <1>17, <1>18, <1>19, <1>20, <1>21, <1>22
<1> QED
  BY <1>1, <1>2, <1>3, <1>4, <1>5, <1>6, <1>7, <1>8, <1>9, <1>10, <1>11, <1>12, <1>13, <1>14,
     <1>15, <1>16, <1>17, <1>18, <1>19, <1>22
  DEF CallsNext, Step

(* A call at a time, on every page and for any number of items, calls,     *)
(* losses and runs: the buttons of imports.js, dashboard.js, receiving.js, *)
(* transactions.js and masters.js, disabled from the click to the last     *)
(* answer.                                                                 *)
THEOREM OneCallAtATimeHolds == Calls => []OneCallAtATime
<1>1. CallsInv /\ [CallsNext]_vars => CallsInv'
  BY CallsGoOn
<1> QED
  BY CallsStart, OneCallAtATimeFollows, <1>1, PTL DEF Calls

(* An answer changes what its request was about: the cell, the receipt,    *)
(* the sheet, the page of a list (confirmReceipt, the cancel handlers, the *)
(* close dialog, handleClick).                                             *)
THEOREM AnswersTheirCallsHolds == Calls => AnswersTheirCalls
<1>1. CallsInv /\ [CallsNext]_vars => CallsInv' /\ [AnswersItsCall]_vars
  BY CallsGoOn
<1> QED
  BY CallsStart, <1>1, PTL DEF Calls, AnswersTheirCalls

(* What a page shows is of what it names, for any number of pulls, orders, *)
(* items, lookups and losses and in whatever order the answers come: the   *)
(* grid and the drawers of receiving.js and dashboard.js, the form and the *)
(* deletions of pos.js, the picker of receiving.js, the preview of         *)
(* reports.js, the sign-in of login.js, the sources and the outcomes of    *)
(* the ERP dialog, and the audit rows of transactions.js.                  *)
THEOREM ShowsWhatItNamesHolds == Calls => []ShowsWhatItNames
<1>1. CallsInv /\ [CallsNext]_vars => CallsInv'
  BY CallsGoOn
<1> QED
  BY CallsStart, ShowsFollows, <1>1, PTL DEF Calls
=============================================================================
