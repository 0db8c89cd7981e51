------------------------------ MODULE Receiving ------------------------------
(***************************************************************************)
(* The receiving core: pulls with their planned hour windows, purchase     *)
(* orders with their lines, and the append-only receipt ledger that joins  *)
(* the two (ReceiptService, CloseService, PullAdminService,                *)
(* PullItemAdminService, PurchaseOrderAdminService, the insert of          *)
(* PoImportJob).  Every operation is one database transaction and one      *)
(* action.  A refused request changes nothing and is not an action; role   *)
(* and warehouse-access checks only refuse, so any user may act.           *)
(*                                                                         *)
(* An entity is named by the values it never changes after it is inserted  *)
(* (the constants below); a variable says whether its row exists.          *)
(***************************************************************************)
EXTENDS Totals

CONSTANTS
    Pull, Item, Hour, PO, Line, \* the rows that may ever exist
    ItemPull, ItemCode,         \* PullItems.PullId, .ItemCode
    PullWarehouse,              \* Pulls.WarehouseId
    LockPoByPull, LockHourCap,  \* Pulls: the sets of pulls with the flag on
    PoWarehouse, PoNumber,      \* PurchaseOrders.WarehouseId, .PoNumber
    PoPull, PoExternalRef,      \* PurchaseOrders.PullId, .PullExternalRef
    LinePo, LineNumber, LineItemCode, \* PurchaseOrderLines
    NoPull, NoReceipt,          \* SQL NULL
    WindowQty, OrderQty, ReceiveQty, Dates, \* quantities and dates in requests
    MaxCalls                    \* bound: receive and cancel calls in a behaviour

(* A plan window is named by its (PullItemId, HourOfDay), UQ_PIW_Hour.     *)
Window == Item \X Hour

(* The n-th call inserts at most one receipt per PO line.                  *)
ReceiptId == (1..MaxCalls) \X Line

(* PoNumber and (PurchaseOrderId, LineNumber) are UNIQUE in the schema; an *)
(* imported PO names its pull by number and has no PullId.                 *)
ASSUME ConstantsAssumption ==
    /\ ItemPull \in [Item -> Pull]
    /\ LinePo \in [Line -> PO]
    /\ PoNumber \in [PO -> Nat]
    /\ LineNumber \in [Line -> Nat]
    /\ \A o1, o2 \in PO : PoNumber[o1] = PoNumber[o2] => o1 = o2
    /\ \A l1, l2 \in Line :
          LinePo[l1] = LinePo[l2] /\ LineNumber[l1] = LineNumber[l2] => l1 = l2
    /\ PoPull \in [PO -> Pull \cup {NoPull}]
    /\ PoExternalRef \in [PO -> Pull \cup {NoPull}]
    /\ NoPull \notin Pull
    /\ NoReceipt \notin ReceiptId
    /\ WindowQty \subseteq Nat \ {0}
    /\ OrderQty \subseteq Nat \ {0}
    /\ ReceiveQty \subseteq Nat \ {0}
    /\ Dates \subseteq Nat
    /\ MaxCalls \in Nat
    /\ IsFiniteSet(Line)

VARIABLES
    pull,      \* Pulls.Status, "none" when there is no row
    item,      \* PullItems.Status, "none" when there is no row
    expected,  \* PullItemWindows.ExpectedQty, 0 when there is no row
    received,  \* PullItemWindows.ReceivedQty
    po,        \* PurchaseOrders.Status, "none" when there is no row
    poDate,    \* PurchaseOrders.OrderDate
    forfeited, \* audit trail: POs whose latest close was a manual one
    ordered,   \* PurchaseOrderLines.OrderedQty, 0 when there is no row
    consumed,  \* PurchaseOrderLines.ReceivedQty
    receipts,  \* the Receipts table, but for the one column ever updated
    voidedBy,  \* Receipts.ReversedById
    calls      \* receive and cancel calls so far

pullVars == <<pull, item, expected>>
poVars == <<po, poDate, forfeited, ordered>>
ledgerVars == <<received, consumed, receipts, voidedBy, calls>>
vars == <<pullVars, poVars, ledgerVars>>

(* A reversal carries the negated quantity of the receipt it reverses.     *)
Receipt == [id : ReceiptId, line : Line, window : Window, qty : Int,
            reverses : ReceiptId \cup {NoReceipt}]

TypeOK ==
    /\ pull \in [Pull -> {"none", "pending", "in_progress", "fully_received", "closed"}]
    /\ item \in [Item -> {"none", "normal", "canceled"}]
    /\ expected \in [Window -> Nat]
    /\ received \in [Window -> Int]
    /\ po \in [PO -> {"none", "open", "closed"}]
    /\ poDate \in [PO -> Nat]
    /\ forfeited \subseteq PO
    /\ ordered \in [Line -> Nat]
    /\ consumed \in [Line -> Int]
    /\ receipts \subseteq Receipt
    /\ voidedBy \in [ReceiptId -> ReceiptId \cup {NoReceipt}]
    /\ calls \in 0..MaxCalls

Init ==
    /\ pull = [p \in Pull |-> "none"]
    /\ item = [i \in Item |-> "none"]
    /\ expected = [w \in Window |-> 0]
    /\ received = [w \in Window |-> 0]
    /\ po = [o \in PO |-> "none"]
    /\ poDate = [o \in PO |-> 0]
    /\ forfeited = {}
    /\ ordered = [l \in Line |-> 0]
    /\ consumed = [l \in Line |-> 0]
    /\ receipts = {}
    /\ voidedBy = [r \in ReceiptId |-> NoReceipt]
    /\ calls = 0

-----------------------------------------------------------------------------
(* Helpers.                                                                *)

WindowsOf(i) == {i} \X Hour
LinesOf(o) == {l \in Line : LinePo[l] = o}
PullOf(w) == ItemPull[w[1]]
ReceiptsOf(i) == {r \in receipts : r.window[1] = i}
ReceiptsOn(l) == {r \in receipts : r.line = l}

(* Some window of a non-canceled item of p is short of its plan, when the  *)
(* windows have received recv.                                             *)
Outstanding(p, recv) ==
    \E w \in Window : /\ PullOf(w) = p
                      /\ item[w[1]] = "normal"
                      /\ expected[w] > recv[w]

(* Mutant of Editable: no RefuseClosed.                                    *)
EditableIfExists(p) == pull[p] # "none"

(* RefuseClosed: the item's pull exists and is not closed.                 *)
Editable(p) == pull[p] \notin {"none", "closed"}

Remaining == [l \in Line |-> ordered[l] - consumed[l]]

(* The PO lines a receive for item i may draw from.                        *)
Candidates(i) ==
    LET p == ItemPull[i] IN
    {l \in Line :
        /\ po[LinePo[l]] = "open"
        /\ PoWarehouse[LinePo[l]] = PullWarehouse[p]
        /\ LineItemCode[l] = ItemCode[i]
        /\ Remaining[l] > 0
        /\ p \in LockPoByPull => p \in {PoPull[LinePo[l]], PoExternalRef[LinePo[l]]}}

(* ORDER BY OrderDate, PoNumber, LineNumber.                               *)
Precedes(l, m) ==
    LET a == LinePo[l]
        b == LinePo[m]
    IN  \/ poDate[a] < poDate[b]
        \/ poDate[a] = poDate[b] /\ PoNumber[a] < PoNumber[b]
        \/ a = b /\ LineNumber[l] < LineNumber[m]

(* Mutants: the walk looks at the lines behind l; it never counts down.    *)
AheadReversed(C, l) == SumOf({m \in C : Precedes(l, m)}, Remaining)
TakeUncounted(C, q, l) == Least(Remaining[l], q)

(* What the FIFO walk for q pieces takes from line l: whatever the lines   *)
(* before it leave, up to its own capacity.                                *)
Ahead(C, l) == SumOf({m \in C : Precedes(m, l)}, Remaining)
Take(C, q, l) == Least(Remaining[l], Greatest(0, q - Ahead(C, l)))

(* Mutant of Filled: one full line closes the PO.                          *)
FilledSomewhere(o, used) == \E l \in LinesOf(o) : ordered[l] =< used[l]

(* No line of o has anything left to receive.                              *)
Filled(o, used) == \A l \in LinesOf(o) : ordered[l] =< used[l]

(* Mutant of Advanced: the CASE without its second WHEN.                   *)
AdvancedWhenFull(p, recv) ==
    IF pull[p] # "fully_received" /\ ~Outstanding(p, recv) THEN "fully_received"
    ELSE pull[p]

(* The CASE of ReceiveAsync: the status of p once its windows hold recv.   *)
Advanced(p, recv) ==
    IF pull[p] # "fully_received" /\ ~Outstanding(p, recv) THEN "fully_received"
    ELSE IF pull[p] = "pending" THEN "in_progress" ELSE pull[p]

(* Mutants of the guards below: a check dropped, or made on the net cache. *)
PlanPositive(w, q) == q > 0
LineNetZero(l) == consumed[l] = 0
CancellableTwice(r) == r.qty > 0
CancellableReversal(r) == r.qty # 0 /\ voidedBy[r.id] = NoReceipt

(* What the guards of the edits look at.                                   *)
PlanCovers(w, q) == q >= received[w]
ItemUnreferenced(i) == ReceiptsOf(i) = {}
LineUnreferenced(l) == ReceiptsOn(l) = {}
Cancellable(r) == r.qty > 0 /\ voidedBy[r.id] = NoReceipt

(* The reversal entry of receipt r.                                        *)
Reversal(r, id) ==
    [id |-> id, line |-> r.line, window |-> r.window, qty |-> -r.qty, reverses |-> r.id]

(* Mutants of the two below: nothing goes back to a closed PO; the PO gets *)
(* the status a reopened pull gets.                                        *)
RestoredIfOpen(r) ==
    [consumed EXCEPT ![r.line] = IF po[LinePo[r.line]] = "open" THEN @ - r.qty ELSE @]
ReopenedLikePull(o) == IF po[o] = "closed" THEN "in_progress" ELSE po[o]

(* What a cancel gives back to the PO line and to its PO.                  *)
Restored(r) == [consumed EXCEPT ![r.line] = @ - r.qty]
Reopened(o) == IF po[o] = "closed" THEN "open" ELSE po[o]
-----------------------------------------------------------------------------
(* Pulls and their plan.                                                   *)

CreatePull(p) ==
    /\ pull[p] = "none"
    /\ pull' = [pull EXCEPT ![p] = "pending"]
    /\ UNCHANGED <<item, expected, poVars, ledgerVars>>

ClosePull(p) ==
    /\ Editable(p)
    /\ ~Outstanding(p, received)
    /\ pull' = [pull EXCEPT ![p] = "closed"]
    /\ UNCHANGED <<item, expected, poVars, ledgerVars>>

ReopenPull(p) ==
    /\ pull[p] = "closed"
    /\ pull' = [pull EXCEPT ![p] = "in_progress"]
    /\ UNCHANGED <<item, expected, poVars, ledgerVars>>

(* The request brings the item's windows; one item of a code per pull.     *)
CreateItem(i) ==
    /\ item[i] = "none"
    /\ Editable(ItemPull[i])
    /\ \A j \in Item : ItemPull[j] = ItemPull[i] /\ ItemCode[j] = ItemCode[i]
                         => item[j] = "none"
    /\ item' = [item EXCEPT ![i] = "normal"]
    /\ \E H \in SUBSET Hour \ {{}} : \E q \in [H -> WindowQty] :
          expected' = [w \in Window |-> IF w \in {i} \X H THEN q[w[2]] ELSE expected[w]]
    /\ UNCHANGED <<pull, poVars, ledgerVars>>

(* Statuses "normal" and "new" are told apart by no operation.             *)
UpdateItem(i) ==
    /\ item[i] # "none"
    /\ Editable(ItemPull[i])
    /\ \E s \in {"normal", "canceled"} : item' = [item EXCEPT ![i] = s]
    /\ UNCHANGED <<pull, expected, poVars, ledgerVars>>

(* The delete cascades to the windows and is refused by FK_Receipts_Item.  *)
DeleteItem(i) ==
    /\ item[i] # "none"
    /\ Editable(ItemPull[i])
    /\ \A w \in WindowsOf(i) : received[w] =< 0
    /\ ItemUnreferenced(i)
    /\ item' = [item EXCEPT ![i] = "none"]
    /\ expected' = [w \in Window |-> IF w \in WindowsOf(i) THEN 0 ELSE expected[w]]
    /\ received' = [w \in Window |-> IF w \in WindowsOf(i) THEN 0 ELSE received[w]]
    /\ UNCHANGED <<pull, poVars, consumed, receipts, voidedBy, calls>>

AddWindow(w) ==
    /\ item[w[1]] # "none"
    /\ Editable(PullOf(w))
    /\ expected[w] = 0
    /\ \E q \in WindowQty : expected' = [expected EXCEPT ![w] = q]
    /\ received' = [received EXCEPT ![w] = 0]
    /\ UNCHANGED <<pull, item, poVars, consumed, receipts, voidedBy, calls>>

UpdateWindow(w) ==
    /\ expected[w] > 0
    /\ Editable(PullOf(w))
    /\ \E q \in WindowQty : /\ PlanCovers(w, q)
                            /\ expected' = [expected EXCEPT ![w] = q]
    /\ UNCHANGED <<pull, item, poVars, ledgerVars>>

DeleteWindow(w) ==
    /\ expected[w] > 0
    /\ Editable(PullOf(w))
    /\ received[w] =< 0
    /\ expected' = [expected EXCEPT ![w] = 0]
    /\ received' = [received EXCEPT ![w] = 0]
    /\ UNCHANGED <<pull, item, poVars, consumed, receipts, voidedBy, calls>>
-----------------------------------------------------------------------------
(* Purchase orders.                                                        *)

(* Insert the header of o and lines L of it.                               *)
InsertPo(o, L) ==
    /\ po[o] = "none"
    /\ po' = [po EXCEPT ![o] = "open"]
    /\ \E d \in Dates : poDate' = [poDate EXCEPT ![o] = d]
    /\ \E q \in [L -> OrderQty] :
          ordered' = [l \in Line |-> IF l \in L THEN q[l] ELSE ordered[l]]
    /\ UNCHANGED <<pullVars, forfeited, ledgerVars>>

(* A linked pull must exist, be open and be of the PO's warehouse.         *)
CreatePo(o) ==
    /\ PoExternalRef[o] = NoPull
    /\ PoPull[o] # NoPull => /\ Editable(PoPull[o])
                             /\ PullWarehouse[PoPull[o]] = PoWarehouse[o]
    /\ \E L \in SUBSET LinesOf(o) : InsertPo(o, L)

(* An import looks at no pull: its PO names one by number only.            *)
ImportPo(o) ==
    /\ PoExternalRef[o] # NoPull
    /\ PoPull[o] = NoPull
    /\ \E L \in SUBSET LinesOf(o) \ {{}} : InsertPo(o, L)

UpdatePo(o) ==
    /\ po[o] = "open"
    /\ \A r \in receipts : LinePo[r.line] # o
    /\ \E d \in Dates : poDate' = [poDate EXCEPT ![o] = d]
    /\ UNCHANGED <<pullVars, po, forfeited, ordered, ledgerVars>>

ClosePo(o) ==
    /\ po[o] = "open"
    /\ po' = [po EXCEPT ![o] = "closed"]
    /\ forfeited' = forfeited \cup {o}
    /\ UNCHANGED <<pullVars, poDate, ordered, ledgerVars>>

AddLine(l) ==
    /\ po[LinePo[l]] = "open"
    /\ ordered[l] = 0
    /\ \E q \in OrderQty : ordered' = [ordered EXCEPT ![l] = q]
    /\ consumed' = [consumed EXCEPT ![l] = 0]
    /\ UNCHANGED <<pullVars, po, poDate, forfeited, received, receipts, voidedBy, calls>>

DeleteLine(l) ==
    /\ ordered[l] > 0
    /\ LineUnreferenced(l)
    /\ ordered' = [ordered EXCEPT ![l] = 0]
    /\ consumed' = [consumed EXCEPT ![l] = 0]
    /\ UNCHANGED <<pullVars, po, poDate, forfeited, received, receipts, voidedBy, calls>>
-----------------------------------------------------------------------------
(* The ledger.                                                             *)

(* Receive q pieces in window w, drawn FIFO from the candidate lines; POs  *)
(* it fills close, and so does the plan of the pull when nothing is short. *)
(* The window must exist whether or not its cap is locked: the response    *)
(* reads it back inside the transaction.                                   *)
Receive(w, q) ==
    LET p == PullOf(w)
        C == Candidates(w[1])
        drawn == {l \in C : Take(C, q, l) > 0}
    IN  /\ calls < MaxCalls
        /\ item[w[1]] # "none"
        /\ pull[p] # "closed"
        /\ expected[w] > 0
        /\ p \in LockHourCap => q =< expected[w] - received[w]
        /\ SumOf(C, Remaining) >= q
        /\ receipts' = receipts \cup
              {[id |-> <<calls + 1, l>>, line |-> l, window |-> w,
                qty |-> Take(C, q, l), reverses |-> NoReceipt] : l \in drawn}
        /\ consumed' = [l \in Line |-> IF l \in drawn THEN consumed[l] + Take(C, q, l)
                                                      ELSE consumed[l]]
        /\ po' = [o \in PO |-> IF /\ \E l \in drawn : LinePo[l] = o
                                  /\ Filled(o, consumed')
                               THEN "closed" ELSE po[o]]
        /\ received' = [received EXCEPT ![w] = @ + q]
        /\ pull' = [pull EXCEPT ![p] = Advanced(p, received')]
        /\ calls' = calls + 1
        /\ UNCHANGED <<item, expected, poDate, forfeited, ordered, voidedBy>>

(* Reverse receipt r: the pieces go back to the line they came from, which *)
(* reopens its PO whoever closed it.                                       *)
Cancel(r) ==
    LET o == LinePo[r.line]
        p == PullOf(r.window)
        rev == <<calls + 1, r.line>>
    IN  /\ calls < MaxCalls
        /\ r \in receipts
        /\ Cancellable(r)
        /\ pull[p] # "closed"
        /\ receipts' = receipts \cup {Reversal(r, rev)}
        /\ voidedBy' = [voidedBy EXCEPT ![r.id] = rev]
        /\ consumed' = Restored(r)
        /\ po' = [po EXCEPT ![o] = Reopened(o)]
        /\ forfeited' = forfeited \ {o}
        /\ received' = [received EXCEPT ![r.window] = @ - r.qty]
        /\ pull' = [pull EXCEPT ![p] = IF @ = "fully_received" THEN "in_progress" ELSE @]
        /\ calls' = calls + 1
        /\ UNCHANGED <<item, expected, poDate, ordered>>

Next ==
    \/ \E p \in Pull : CreatePull(p) \/ ClosePull(p) \/ ReopenPull(p)
    \/ \E i \in Item : CreateItem(i) \/ UpdateItem(i) \/ DeleteItem(i)
    \/ \E w \in Window : AddWindow(w) \/ UpdateWindow(w) \/ DeleteWindow(w)
    \/ \E o \in PO : CreatePo(o) \/ ImportPo(o) \/ UpdatePo(o) \/ ClosePo(o)
    \/ \E l \in Line : AddLine(l) \/ DeleteLine(l)
    \/ \E w \in Window, q \in ReceiveQty : Receive(w, q)
    \/ \E r \in receipts : Cancel(r)

Spec == Init /\ [][Next]_vars
-----------------------------------------------------------------------------
(* The ledger balance of a set of receipts: pieces received less pieces    *)
(* reversed, i.e. SUM(QtyReceived).                                        *)
Net(S) == SumOf(S, [r \in S |-> r.qty]) - SumOf(S, [r \in S |-> -r.qty])

(* The quantity cached on a PO line is the balance of the ledger on it,    *)
(* through every mix of receives, cancels and line edits.                  *)
LinesBalance == \A l \in Line : consumed[l] = Net(ReceiptsOn(l))

(* The quantity cached on a plan window is the balance of the ledger on    *)
(* it; a window that does not exist has balance 0.  Deleting a window or   *)
(* an item never orphans received pieces.                                  *)
WindowsBalance ==
    \A w \in Window : /\ received[w] = Net({r \in receipts : r.window = w})
                      /\ expected[w] = 0 => received[w] = 0

(* CK_POL_Caps never has to refuse: no receive overdraws a PO line and no  *)
(* cancel restores more than was drawn.                                    *)
CapacityRespected == \A l \in Line : 0 =< consumed[l] /\ consumed[l] =< ordered[l]

(* On a pull with LockHourCap a window never holds more than its plan,     *)
(* whatever order receives, cancels and plan edits come in.                *)
HourCapRespected ==
    \A w \in Window : PullOf(w) \in LockHourCap => received[w] =< expected[w]

(* The two links of a reversal agree: a reversal mirrors exactly one       *)
(* receipt, which points back at it, and no receipt is reversed twice.     *)
ReversalsPair ==
    /\ \A r, s \in receipts : r.id = s.id => r = s
    /\ \A r \in receipts :
          \/ r.qty > 0 /\ r.reverses = NoReceipt
          \/ \E s \in receipts : /\ s.id = r.reverses
                                 /\ s.qty > 0
                                 /\ r = Reversal(s, r.id)
                                 /\ voidedBy[s.id] = r.id
    /\ \A s \in receipts : voidedBy[s.id] # NoReceipt =>
          \E r \in receipts : r.id = voidedBy[s.id] /\ r.reverses = s.id

(* A PO leaves the FIFO pool with capacity left only by a manual close: an *)
(* automatic close means every line is full, and stays true while closed.  *)
AutoClosedIsFull ==
    \A o \in PO : po[o] = "closed" /\ o \notin forfeited =>
        \A l \in LinesOf(o) : consumed[l] = ordered[l]

(* A closed pull has every window of its plan met.                         *)
ClosedPullComplete == \A p \in Pull : pull[p] = "closed" => ~Outstanding(p, received)

(* A pull that is still pending has never received a piece, so a pending   *)
(* pull can be dropped without touching stock.                             *)
PendingIsUntouched ==
    \A r \in receipts : pull[PullOf(r.window)] \in {"in_progress", "fully_received", "closed"}

(* Every receipt that can still be cancelled has its window row to restore *)
(* and its PO line: the reads of a cancel never come back empty.           *)
LiveReceiptsHaveRows ==
    \A r \in receipts :
        /\ item[r.window[1]] # "none"
        /\ ordered[r.line] > 0
        /\ po[LinePo[r.line]] # "none"
        /\ Cancellable(r) => expected[r.window] > 0

(* A closed pull is read-only: until it is reopened its plan, its cached   *)
(* quantities and its receipts stay as they were signed.                   *)
ClosedPullFrozen ==
    [][\A p \in Pull : pull[p] = "closed" =>
          /\ pull'[p] \in {"closed", "in_progress"}
          /\ \A w \in Window : PullOf(w) = p =>
                /\ item'[w[1]] = item[w[1]]
                /\ expected'[w] = expected[w]
                /\ received'[w] = received[w]
          /\ \A r \in receipts' \ receipts : PullOf(r.window) # p]_vars

(* Receipts are append-only: no row is deleted or changed, and the back    *)
(* link of a receipt is written once.                                      *)
AppendOnly ==
    [][/\ receipts \subseteq receipts'
       /\ \A r \in ReceiptId : voidedBy[r] # NoReceipt => voidedBy'[r] = voidedBy[r]]_vars

(* FIFO discipline: whenever a receive draws on a line, every line that    *)
(* precedes it in the same item's candidates is used up by that receive.   *)
OldestFirst ==
    [][\A r \in receipts' \ receipts : r.qty > 0 =>
          \A m \in Candidates(r.window[1]) :
              Precedes(m, r.line) => consumed'[m] = ordered[m]]_vars
-----------------------------------------------------------------------------
(* What the documentation says of the program and the code does not do.    *)

(* "The remaining OrderedQty - ReceivedQty is forfeited": a PO closed by   *)
(* hand stays out of the FIFO pool.                                        *)
ForfeitSticks == [][\A o \in forfeited : po'[o] = "closed"]_vars
=============================================================================
