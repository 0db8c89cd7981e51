--------------------------- MODULE ReceivingPage ---------------------------
(***************************************************************************)
(* The receiving page of one browser tab (receiving.js): the hour grid,    *)
(* the Receive Goods modal with its allocation preview, the receipt        *)
(* journal and its drawer, the cancel dialog, closing and reopening.  The  *)
(* page talks to the server by requests that are handled and answered in   *)
(* any order, and may get lost; other users change the same pull.          *)
(*                                                                         *)
(* The page keeps copies of server state (quantities, closed flag, journal *)
(* rows) and reads variables such as activeRow after an await: what can go *)
(* wrong is an answer that meets a page that has moved on.                 *)
(***************************************************************************)
EXTENDS Integers, Sequences, FiniteSets, Functions

CONSTANTS
    Item, Hour,
    Expected,   \* [Cell -> Nat], the plan of the pull
    PoCap,      \* what the open POs can take, over all cells
    HourCap,    \* LockHourCap of the pull
    Typed,      \* the quantities the user types
    CanReopen,  \* the user is a supervisor or an admin
    Lossy,      \* requests and answers may get lost
    Markable,   \* the rows whose status the user changes
    MaxPost,    \* bound on receipts, cancels, closings and reopenings sent
    MaxLook,    \* bound on openings of modal and drawer and on typing
    MaxOther    \* bound on changes made by other users

Cell == Item \X Hour

PageAssumption ==
    /\ Expected \in [Cell -> Nat]
    /\ {PoCap, MaxPost, MaxLook, MaxOther} \subseteq Nat
    /\ Typed \subseteq Nat /\ Markable \subseteq Item
    /\ {HourCap, CanReopen, Lossy} \subseteq BOOLEAN

VARIABLES
    server,   \* received and receipts of the pull, and whether it is closed
    grid,     \* schedule[hour].r of the page's items
    canceled, \* rows the user has marked canceled on this page
    closed,   \* pullClosed
    modal,    \* the Receive Goods modal
    panel,    \* the allocation panel and the preview's timer and sequence
    journal,  \* txCache and txCacheLoaded
    drawer,   \* the transactions drawer
    dialog,   \* the cancel dialog
    sign,     \* the close modal and its signature pad
    net,      \* requests not answered yet
    posts,    \* requests that change something sent so far
    looks,    \* openings and edits of the user so far
    others,   \* changes made by other users so far
    held      \* the quantities each cell has held on the server

page == <<grid, canceled, closed, modal, panel, journal, drawer, dialog, sign>>
bounds == <<posts, looks, others>>
vars == <<server, page, net, bounds, held>>

-----------------------------------------------------------------------------
(* Rows of the journal: a receipt, or the reversal of one.                 *)

Row == [cell : Cell, qty : Nat, reversal : BOOLEAN, voided : BOOLEAN]

Offered(rows) == {k \in DOMAIN rows : ~rows[k].reversal /\ ~rows[k].voided}

RowsOf(rows, c) == {k \in DOMAIN rows : rows[k].cell = c}

(* slice(0, TOP_N): the two most recent rows of the cell.                  *)
Latest2(S) == {k \in S : Cardinality({j \in S : j > k}) < 2}

TotalOf(f) == SumFunctionOnSet(f, Cell)

Kinds == {"preview", "receive", "journal", "cancel", "close", "reopen"}
InFlight(K) == {r \in net : r.kind \in K}

(* A number no request under way has.                                      *)
Unused == CHOOSE n \in 1 .. Cardinality(net) + 1 : \A r \in net : r.id # n

NewRequest(k, c, a, t) ==
    [id |-> Unused, kind |-> k, cell |-> c, arg |-> a, then |-> t, latest |-> TRUE,
     state |-> "sent", val |-> 0, rows |-> <<>>]

(* fetch: nothing else is sent in the same step.                           *)
Send(k, c, a, t) == net' = net \cup {NewRequest(k, c, a, t)}

(* A request that changes something, within the bound.                     *)
Post(k, c, a) ==
    /\ posts < MaxPost
    /\ posts' = posts + 1
    /\ Send(k, c, a, "none")
    /\ UNCHANGED <<looks, others>>

Look ==
    /\ looks < MaxLook
    /\ looks' = looks + 1
    /\ UNCHANGED <<posts, others>>

NoSend == UNCHANGED net

AnyCell == CHOOSE c \in Cell : TRUE

-----------------------------------------------------------------------------
(* The server, as the page sees it.                                        *)

ServerFull == \A c \in Cell : server.received[c] >= Expected[c]

Takes(c, q) ==
    /\ ~server.closed
    /\ TotalOf(server.received) + q =< PoCap
    /\ HourCap => server.received[c] + q =< Expected[c]

Booked(c, q) ==
    [server EXCEPT
        !.received[c] = @ + q,
        !.receipts = Append(@, [cell |-> c, qty |-> q, reversal |-> FALSE, voided |-> FALSE])]

Cancels(k) ==
    /\ ~server.closed
    /\ k \in Offered(server.receipts)

Reversed(k) ==
    LET t == server.receipts[k]
    IN [server EXCEPT
            !.received[t.cell] = @ - t.qty,
            !.receipts = Append([@ EXCEPT ![k].voided = TRUE],
                            [cell |-> t.cell, qty |-> t.qty, reversal |-> TRUE, voided |-> FALSE])]

Accepts(r) ==
    CASE r.kind = "receive" -> Takes(r.cell, r.arg)
      [] r.kind = "cancel" -> Cancels(r.arg)
      [] r.kind = "journal" -> TRUE
      [] r.kind = "close" -> ~server.closed /\ ServerFull
      [] r.kind = "reopen" -> server.closed

After(r) ==
    CASE r.kind = "receive" -> Booked(r.cell, r.arg)
      [] r.kind = "cancel" -> Reversed(r.arg)
      [] r.kind = "close" -> [server EXCEPT !.closed = TRUE]
      [] r.kind = "reopen" -> [server EXCEPT !.closed = FALSE]
      [] OTHER -> server

Remember == held' = [c \in Cell |-> held[c] \cup {server'.received[c]}]

(* The server handles a request; its answer travels back.                  *)
Serve(r) ==
    /\ r.state = "sent" /\ r.kind # "preview"
    /\ server' = IF Accepts(r) THEN After(r) ELSE server
    /\ net' = (net \ {r}) \cup
        {[r EXCEPT !.state = IF Accepts(r) THEN "ok" ELSE "refused",
                   !.val = IF r.kind \in {"receive", "cancel"} /\ Accepts(r)
                           THEN server'.received[r.cell] ELSE 0,
                   !.rows = IF r.kind = "journal" THEN server.receipts ELSE <<>>]}
    /\ Remember
    /\ UNCHANGED <<page, bounds>>

(* The request or the answer gets lost: fetch throws.                      *)
Lose(r) ==
    /\ Lossy /\ r.state \in {"sent", "ok", "refused"}
    /\ net' = (net \ {r}) \cup {[r EXCEPT !.state = "lost"]}
    /\ UNCHANGED <<server, page, bounds, held>>

(* Another user receives, cancels, closes or reopens.                      *)
OtherUser ==
    /\ others < MaxOther
    /\ others' = others + 1
    /\ \/ \E c \in Cell : Takes(c, 1) /\ server' = Booked(c, 1)
       \/ \E k \in DOMAIN server.receipts : Cancels(k) /\ server' = Reversed(k)
       \/ ~server.closed /\ ServerFull /\ server' = [server EXCEPT !.closed = TRUE]
       \/ server.closed /\ server' = [server EXCEPT !.closed = FALSE]
    /\ Remember
    /\ UNCHANGED <<page, net, posts, looks>>

-----------------------------------------------------------------------------
(* What lies on top of what.                                               *)

GridInFront == ~modal.open /\ ~drawer.open /\ dialog.target = 0 /\ ~sign.open
ModalInFront == modal.open /\ ~drawer.open /\ dialog.target = 0
DrawerInFront == drawer.open /\ dialog.target = 0

Outstanding(c) == IF grid[c] >= Expected[c] THEN 0 ELSE Expected[c] - grid[c]

(* isFullyReceived: every planned window of the rows not marked canceled.  *)
FullyReceived ==
    LET planned == {c \in Cell : c[1] \notin canceled /\ Expected[c] > 0}
    IN planned # {} /\ \A c \in planned : grid[c] >= Expected[c]

(* renderModalTransactions: the rows of one cell, Cancel while open.       *)
Listed(c, rows) ==
    [cell |-> c,
     offers |-> IF closed THEN {} ELSE Latest2(RowsOf(rows, c)) \cap Offered(rows)]

(* renderTxDrawer: the rows the filters leave, Cancel on each live one.    *)
Drawn(cells, rows) ==
    [open |-> TRUE, cells |-> cells,
     offers |-> {k \in Offered(rows) : rows[k].cell \in cells}]

(* A closed overlay: only what a later step reads is kept, that is, the    *)
(* cell and the input of a modal whose preview is still due.               *)
NoModal ==
    [open |-> FALSE, cell |-> AnyCell, max |-> 0, out |-> 0, input |-> 0,
     readOnly |-> FALSE, list |-> [cell |-> AnyCell, offers |-> {}]]
Shut(m) == IF panel.due THEN [NoModal EXCEPT !.cell = m.cell, !.input = m.input] ELSE NoModal
NoSign == [open |-> FALSE, ink |-> FALSE, enabled |-> FALSE]
NoDrawer == [open |-> FALSE, cells |-> Cell, offers |-> {}]
Untargeted(d) == [d EXCEPT !.target = 0, !.cell = AnyCell]

(* hideAllocPanel                                                          *)
Hidden == [panel EXCEPT !.kind = "none", !.enabled = TRUE]

(* txEnsureLoaded, up to its fetch.                                        *)
EnsureLoaded(c, t) == IF journal.loaded THEN NoSend ELSE Send("journal", c, 0, t)

Cleared == [loaded |-> FALSE, rows |-> <<>>]

-----------------------------------------------------------------------------
(* The Receive Goods modal.                                                *)

OpenModal(c) ==
    /\ GridInFront /\ Look
    /\ c[1] \notin canceled
    /\ modal' = [open |-> TRUE, cell |-> c, max |-> Outstanding(c), out |-> Outstanding(c),
                 input |-> Outstanding(c), readOnly |-> closed, list |-> Listed(c, journal.rows)]
    /\ panel' = [Hidden EXCEPT !.due = TRUE]
    /\ EnsureLoaded(c, "modal")
    /\ UNCHANGED <<server, grid, canceled, closed, journal, drawer, dialog, sign, held>>

CloseModal ==
    /\ modal.open
    /\ modal' = Shut(modal)
    /\ panel' = Hidden
    /\ UNCHANGED <<server, grid, canceled, closed, journal, drawer, dialog, sign, net, bounds, held>>

(* The input event: the preview is due 200 ms later.                       *)
Type(q) ==
    /\ ModalInFront /\ ~modal.readOnly /\ Look
    /\ modal' = [modal EXCEPT !.input = q]
    /\ panel' = [panel EXCEPT !.due = TRUE]
    /\ UNCHANGED <<server, grid, canceled, closed, journal, drawer, dialog, sign, net, held>>

(* Setting the value from code raises no input event: no preview is due.   *)
QuickFill ==
    /\ ModalInFront
    /\ \E q \in {modal.max, modal.max \div 2, 0} : modal' = [modal EXCEPT !.input = q]
    /\ UNCHANGED <<server, grid, canceled, closed, panel, journal, drawer, dialog, sign, net, bounds, held>>

(* The timer fires, whether or not the modal is still open.                *)
RefreshPreview ==
    /\ panel.due
    /\ IF modal.input = 0
       THEN panel' = [Hidden EXCEPT !.due = FALSE] /\ NoSend
       ELSE /\ panel' = [panel EXCEPT !.due = FALSE]
            /\ net' = {[r EXCEPT !.latest = r.kind # "preview"] : r \in net}
                        \cup {NewRequest("preview", modal.cell, modal.input, "none")}
    /\ modal' = IF modal.open THEN modal ELSE NoModal
    /\ UNCHANGED <<server, grid, canceled, closed, journal, drawer, dialog, sign, bounds, held>>

(* The status line is in: the sequence is checked, the body is awaited.    *)
(* What the server says is left open: it is stale when it arrives.         *)
PreviewHead(r) ==
    /\ r.kind = "preview" /\ r.state = "sent"
    /\ \E v \in {0, 1} :
        net' = (net \ {r}) \cup
            (IF r.latest THEN {[r EXCEPT !.state = "reading", !.val = v]} ELSE {})
    /\ UNCHANGED <<server, page, bounds, held>>

(* The body is in: the allocation is listed, or the refusal is shown.      *)
PreviewShown(r) ==
    [panel EXCEPT !.kind = IF r.val = 1 THEN "list" ELSE "warn",
                  !.enabled = (r.val = 1)]

PreviewBody(r) ==
    /\ r.kind = "preview" /\ r.state = "reading"
    /\ panel' = PreviewShown(r)
    /\ net' = net \ {r}
    /\ UNCHANGED <<server, grid, canceled, closed, modal, journal, drawer, dialog, sign, bounds, held>>

PreviewLost(r) ==
    /\ r.kind = "preview" /\ r.state = "lost"
    /\ panel' = Hidden
    /\ net' = net \ {r}
    /\ UNCHANGED <<server, grid, canceled, closed, modal, journal, drawer, dialog, sign, bounds, held>>

(* confirmReceipt, up to its POST.                                         *)
Posted == IF modal.input < modal.max THEN modal.input ELSE modal.max

ConfirmReceipt ==
    /\ Posted > 0
    /\ Post("receive", modal.cell, Posted)
    /\ panel' = [panel EXCEPT !.enabled = FALSE]
    /\ UNCHANGED <<server, grid, canceled, closed, modal, journal, drawer, dialog, sign, held>>

ClickConfirm == ModalInFront /\ ~modal.readOnly /\ panel.enabled /\ ConfirmReceipt

(* The keydown handler looks at nothing but the modal being open.          *)
CtrlEnter == modal.open /\ ConfirmReceipt

(* Mutant: the answer is written to the cell now active.                   *)
ReflectedActive(r) == [grid EXCEPT ![modal.cell] = r.val]

(* The slot of the item and hour captured before the await.                *)
Reflected(r) == [grid EXCEPT ![r.cell] = r.val]

(* closeModal hides the panel; the finally block enables the button.       *)
Released(r) == IF r.state = "ok" THEN Hidden ELSE [panel EXCEPT !.enabled = TRUE]

ReceiveAnswer(r) ==
    /\ r.kind = "receive" /\ r.state \in {"ok", "refused", "lost"}
    /\ net' = net \ {r}
    /\ panel' = Released(r)
    /\ IF r.state = "ok"
       THEN /\ grid' = Reflected(r)
            /\ journal' = Cleared
            /\ modal' = Shut(modal)
       ELSE UNCHANGED <<grid, journal, modal>>
    /\ UNCHANGED <<server, canceled, closed, drawer, dialog, sign, bounds, held>>

-----------------------------------------------------------------------------
(* The journal, the drawer and the cancel dialog.                          *)

(* The rows of the answer replace the cache; a lost answer leaves it.      *)
Loaded(r) == IF r.state = "ok" THEN [loaded |-> TRUE, rows |-> r.rows] ELSE journal

(* openModal's continuation: the modal is open on the same hour.           *)
ModalReloaded(r) ==
    /\ r.then = "modal"
    /\ modal' = IF modal.open /\ modal.cell[2] = r.cell[2]
                THEN [modal EXCEPT !.list = Listed(r.cell, journal'.rows)]
                ELSE modal
    /\ UNCHANGED <<drawer, dialog>>

DrawerLoaded(r) ==
    /\ r.then = "drawer"
    /\ drawer' = Drawn(Cell, journal'.rows)
    /\ UNCHANGED <<modal, dialog>>

(* The rest of the cancel handler.  window.activeMax is not activeMax: the *)
(* modal shows and prefills the new outstanding and keeps its old cap.     *)
CancelRefreshed(r) ==
    /\ r.then = "cancel"
    /\ dialog' = [Untargeted(dialog) EXCEPT !.enabled = TRUE]
    /\ drawer' = IF drawer.open THEN Drawn(drawer.cells, journal'.rows) ELSE drawer
    /\ modal' = IF modal.open
                THEN [modal EXCEPT !.list = Listed(modal.cell, journal'.rows),
                                   !.out = Outstanding(modal.cell),
                                   !.input = IF closed THEN @ ELSE Outstanding(modal.cell)]
                ELSE modal

JournalAnswer(r) ==
    /\ r.kind = "journal" /\ r.state \in {"ok", "lost"}
    /\ net' = net \ {r}
    /\ journal' = Loaded(r)
    /\ ModalReloaded(r) \/ DrawerLoaded(r) \/ CancelRefreshed(r)
    /\ UNCHANGED <<server, grid, canceled, closed, panel, sign, bounds, held>>

(* The toolbar button waits for the journal, the modal's link does not.    *)
OpenDrawer ==
    /\ GridInFront /\ Look
    /\ EnsureLoaded(AnyCell, "drawer")
    /\ drawer' = IF journal.loaded THEN Drawn(Cell, journal.rows) ELSE drawer
    /\ UNCHANGED <<server, grid, canceled, closed, modal, panel, journal, dialog, sign, held>>

DrawerFromModal ==
    /\ ModalInFront
    /\ modal' = Shut(modal)
    /\ panel' = Hidden
    /\ drawer' = Drawn({modal.list.cell}, journal.rows)
    /\ UNCHANGED <<server, grid, canceled, closed, journal, dialog, sign, net, bounds, held>>

(* The Clear button of the hour chip, or a change of the filters.          *)
RedrawDrawer ==
    /\ DrawerInFront
    /\ drawer' = Drawn(Cell, journal.rows)
    /\ UNCHANGED <<server, grid, canceled, closed, modal, panel, journal, dialog, sign, net, bounds, held>>

CloseDrawer ==
    /\ DrawerInFront
    /\ drawer' = NoDrawer
    /\ UNCHANGED <<server, grid, canceled, closed, modal, panel, journal, dialog, sign, net, bounds, held>>

(* A row of a list is looked up again in the cache.                        *)
OpenCancelDialog(k) ==
    /\ \/ ModalInFront /\ k \in modal.list.offers
       \/ DrawerInFront /\ k \in drawer.offers
    /\ k \in DOMAIN journal.rows
    /\ dialog' = [dialog EXCEPT !.target = k, !.cell = journal.rows[k].cell]
    /\ UNCHANGED <<server, grid, canceled, closed, modal, panel, journal, drawer, sign, net, bounds, held>>

CloseCancelDialog ==
    /\ dialog.target # 0
    /\ dialog' = Untargeted(dialog)
    /\ UNCHANGED <<server, grid, canceled, closed, modal, panel, journal, drawer, sign, net, bounds, held>>

ConfirmCancel ==
    /\ dialog.target # 0 /\ dialog.enabled
    /\ Post("cancel", dialog.cell, dialog.target)
    /\ dialog' = [dialog EXCEPT !.enabled = FALSE]
    /\ UNCHANGED <<server, grid, canceled, closed, modal, panel, journal, drawer, sign, held>>

(* Mutant: an accepted cancel enables the button before the journal is     *)
(* back.                                                                   *)
ReleasedEarly(r) == [dialog EXCEPT !.enabled = TRUE]

(* The finally block runs at once after a refusal and, after an accepted   *)
(* cancel, when the journal is back.                                       *)
CancelReleased(r) == IF r.state = "ok" THEN dialog ELSE [dialog EXCEPT !.enabled = TRUE]

CancelAnswer(r) ==
    /\ r.kind = "cancel" /\ r.state \in {"ok", "refused", "lost"}
    /\ dialog' = CancelReleased(r)
    /\ IF r.state = "ok"
       THEN /\ grid' = Reflected(r)
            /\ journal' = Cleared
            /\ net' = (net \ {r}) \cup {NewRequest("journal", r.cell, 0, "cancel")}
       ELSE net' = net \ {r} /\ UNCHANGED <<grid, journal>>
    /\ UNCHANGED <<server, canceled, closed, modal, panel, drawer, sign, bounds, held>>

-----------------------------------------------------------------------------
(* The status menu, closing and reopening the sheet.                       *)

(* The status of a row changes on the page only: no request is sent.       *)
MarkStatus(i) ==
    /\ GridInFront /\ ~closed
    /\ canceled' = IF i \in canceled THEN canceled \ {i} ELSE canceled \cup {i}
    /\ UNCHANGED <<server, grid, closed, modal, panel, journal, drawer, dialog, sign, net, bounds, held>>

(* openCloseModal clears the signature.                                    *)
OpenSign ==
    /\ GridInFront /\ ~closed /\ FullyReceived
    /\ sign' = [open |-> TRUE, ink |-> FALSE, enabled |-> FALSE]
    /\ UNCHANGED <<server, grid, canceled, closed, modal, panel, journal, drawer, dialog, net, bounds, held>>

(* The first stroke enables the button, whatever disabled it.              *)
Draw ==
    /\ sign.open /\ ~sign.ink
    /\ sign' = [sign EXCEPT !.ink = TRUE, !.enabled = TRUE]
    /\ UNCHANGED <<server, grid, canceled, closed, modal, panel, journal, drawer, dialog, net, bounds, held>>

ClearSignature ==
    /\ sign.open
    /\ sign' = [sign EXCEPT !.ink = FALSE, !.enabled = FALSE]
    /\ UNCHANGED <<server, grid, canceled, closed, modal, panel, journal, drawer, dialog, net, bounds, held>>

CloseSign ==
    /\ sign.open
    /\ sign' = NoSign
    /\ UNCHANGED <<server, grid, canceled, closed, modal, panel, journal, drawer, dialog, net, bounds, held>>

ConfirmClose ==
    /\ sign.open /\ sign.enabled /\ sign.ink
    /\ Post("close", AnyCell, 0)
    /\ sign' = [sign EXCEPT !.enabled = FALSE]
    /\ UNCHANGED <<server, grid, canceled, closed, modal, panel, journal, drawer, dialog, held>>

ClosedBy(r) == r.state = "ok" \/ closed

CloseAnswer(r) ==
    /\ r.kind = "close" /\ r.state \in {"ok", "refused", "lost"}
    /\ net' = net \ {r}
    /\ closed' = ClosedBy(r)
    /\ sign' = IF sign.open /\ r.state # "ok" THEN [sign EXCEPT !.enabled = TRUE] ELSE NoSign
    /\ UNCHANGED <<server, grid, canceled, modal, panel, journal, drawer, dialog, bounds, held>>

Reopen ==
    /\ GridInFront /\ closed /\ CanReopen
    /\ Post("reopen", AnyCell, 0)
    /\ UNCHANGED <<server, page, held>>

ReopenAnswer(r) ==
    /\ r.kind = "reopen" /\ r.state \in {"ok", "refused", "lost"}
    /\ net' = net \ {r}
    /\ closed' = (closed /\ r.state # "ok")
    /\ UNCHANGED <<server, grid, canceled, modal, panel, journal, drawer, dialog, sign, bounds, held>>

-----------------------------------------------------------------------------

(* startup: the answer to the first request is what the server holds.      *)
Ingested ==
    /\ grid = server.received
    /\ closed = server.closed
    /\ canceled = {}
    /\ modal = NoModal
    /\ panel = [kind |-> "none", enabled |-> TRUE, due |-> FALSE]
    /\ journal = Cleared
    /\ drawer = NoDrawer
    /\ dialog = [target |-> 0, cell |-> AnyCell, enabled |-> TRUE]
    /\ sign = NoSign

(* A pull nothing has arrived for, or one that has all of its plan in one  *)
(* receipt per cell, or a piece more, and may be closed.                   *)
Filled(q, b) ==
    [received |-> q, closed |-> b,
     receipts |-> LET s == CHOOSE t \in Bijection(1 .. Cardinality(Cell), Cell) : TRUE
                  IN [k \in DOMAIN s |-> [cell |-> s[k], qty |-> q[s[k]],
                                          reversal |-> FALSE, voided |-> FALSE]]]
Extra == IF HourCap THEN {} ELSE {[Expected EXCEPT ![c] = @ + 1] : c \in Cell}

Init ==
    /\ \/ server = [received |-> [c \in Cell |-> 0], receipts |-> <<>>, closed |-> FALSE]
       \/ \E q \in {Expected} \cup Extra, b \in BOOLEAN :
            TotalOf(q) =< PoCap /\ server = Filled(q, b)
    /\ Ingested
    /\ net = {} /\ posts = 0 /\ looks = 0 /\ others = 0
    /\ held = [c \in Cell |-> {server.received[c]}]

Answer(r) ==
    \/ PreviewHead(r) \/ PreviewBody(r) \/ PreviewLost(r) \/ ReceiveAnswer(r)
    \/ JournalAnswer(r) \/ CancelAnswer(r) \/ CloseAnswer(r) \/ ReopenAnswer(r)

User ==
    \/ \E c \in Cell : OpenModal(c)
    \/ \E q \in Typed : Type(q)
    \/ QuickFill \/ CloseModal \/ ClickConfirm \/ CtrlEnter
    \/ OpenDrawer \/ DrawerFromModal \/ RedrawDrawer \/ CloseDrawer
    \/ \E k \in DOMAIN journal.rows : OpenCancelDialog(k)
    \/ CloseCancelDialog \/ ConfirmCancel
    \/ \E i \in Markable : MarkStatus(i)
    \/ OpenSign \/ Draw \/ ClearSignature \/ CloseSign \/ ConfirmClose \/ Reopen

Next ==
    \/ User \/ RefreshPreview \/ OtherUser
    \/ \E r \in net : Serve(r) \/ Lose(r) \/ Answer(r)

(* A fetch settles, one way or the other: each request moves on.           *)
Settles(n) == \E r \in net : r.id = n /\ (Serve(r) \/ Answer(r))

Spec == Init /\ [][Next]_vars /\ \A n \in 1 .. MaxPost + 2 * MaxLook : WF_vars(Settles(n))

-----------------------------------------------------------------------------
(* Requests, copies and dialogs are well formed.                           *)
TypeOK ==
    /\ server \in [received : [Cell -> Nat], receipts : Seq(Row), closed : BOOLEAN]
    /\ grid \in [Cell -> Nat]
    /\ canceled \subseteq Item
    /\ closed \in BOOLEAN
    /\ modal.cell \in Cell /\ {modal.max, modal.out, modal.input} \subseteq Nat
    /\ journal \in [loaded : BOOLEAN, rows : Seq(Row)]
    /\ dialog.target \in Nat /\ dialog.enabled \in BOOLEAN
    /\ sign \in [open : BOOLEAN, ink : BOOLEAN, enabled : BOOLEAN]
    /\ \A r \in net : r.kind \in Kinds /\ r.cell \in Cell /\ r.rows \in Seq(Row)
    /\ \A r, q \in net : r.id = q.id => r = q

(* However requests and other users interleave, the grid never shows a     *)
(* quantity the server has not held: confirmReceipt and the cancel handler *)
(* take the quantity of the answer and never compute one.                  *)
GridFromServer == \A c \in Cell : grid[c] \in held[c]

(* The same as every step keeps it: an answer under way has a quantity     *)
(* that the cell has held.                                                 *)
GridInv ==
    /\ DOMAIN grid = Cell /\ closed \in BOOLEAN
    /\ \A r \in net :
        /\ {"kind", "cell", "state", "val", "rows", "latest"} \subseteq DOMAIN r
        /\ r.kind \in {"receive", "cancel"} /\ r.state = "ok" /\ r.cell \in Cell => r.val \in held[r.cell]
    /\ GridFromServer

(* An answer changes the cell its request was sent for and no other, even  *)
(* when another cell is active by then.                                    *)
ChangesItsCell ==
    \A c \in Cell : grid'[c] # grid[c] =>
        \E r \in net \ net' : r.kind \in {"receive", "cancel"} /\ r.cell = c /\ r.state = "ok"

(* A disabled Confirm has a reason that will pass or that is on display: a *)
(* receipt under way, or a refused preview.                                *)
ConfirmNeverStuck ==
    panel.enabled \/ InFlight({"receive"}) # {} \/ panel.kind = "warn"

Cancelling == {r \in net : r.kind = "cancel" \/ r.then = "cancel"}

(* One cancel at a time, from its POST to the reloaded journal, and the    *)
(* button is enabled exactly when there is none: dialogs may be closed and *)
(* opened for other receipts meanwhile.                                    *)
OneCancelAtATime ==
    /\ Cardinality(Cancelling) =< 1
    /\ dialog.enabled <=> Cancelling = {}

(* The two as every step keeps them: requests, panel and dialog stay       *)
(* records, and a request is for a cancel itself or follows one.           *)
BothInv ==
    /\ DOMAIN panel = {"kind", "enabled", "due"} /\ DOMAIN dialog = {"target", "cell", "enabled"}
    /\ {panel.enabled, dialog.enabled} \subseteq BOOLEAN
    /\ \A r \in net : {"kind", "then", "state", "latest"} \subseteq DOMAIN r
    /\ ConfirmNeverStuck
    /\ \A r \in Cancelling : <<r.kind, r.then>> \in {<<"cancel", "none">>, <<"journal", "cancel">>}
    /\ \A r, q \in Cancelling : r = q
    /\ dialog.enabled <=> Cancelling = {}

(* The button of the cancel dialog always comes back.                      *)
CancelHeld == ~dialog.enabled

(* The page never turns to closed when the server has not been closed      *)
(* meanwhile: it only follows an accepted request.                         *)
ClosesByAnswer ==
    closed' # closed =>
        \E r \in net \ net' : r.state = "ok" /\ r.kind = IF closed' THEN "close" ELSE "reopen"

=============================================================================
