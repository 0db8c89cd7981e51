----------------------------- MODULE ReceiveLocks -----------------------------
(***************************************************************************)
(* The transactions of ReceiptService.cs and PurchaseOrderAdminService.cs  *)
(* statement by statement under SQL Server's locks, where Receiving takes  *)
(* each as one step.  The isolation is the default, READ COMMITTED with    *)
(* locks: UPDLOCK and a write last to the end of the transaction, a plain  *)
(* read waits for the writers of what it reads and keeps nothing.  What a  *)
(* transaction writes is in the tables when it commits.  One warehouse, no *)
(* pull with a PO of its own; windows and hour caps, which lie behind the  *)
(* lock of the pull, are left to Receiving.                                *)
(***************************************************************************)
EXTENDS Integers, Sequences, FiniteSets, Totals

CONSTANTS
    Tx,          \* connections
    Kind,        \* the operations that are called
    Pull, Item, Po,
    Line,        \* [po, item, ordered] by id; ids in the order of LineNumber
    FirstLine,   \* the lines there are at first
    MaxQty,      \* bound on the pieces of a receive
    MaxDate,     \* bound on the order dates
    MaxBegin     \* bound on the transactions begun

Kinds == {"Receive", "Cancel", "ClosePo", "UpdatePo", "AddLine", "DeleteLine"}
LineId == DOMAIN Line
NoTx == 0

ReceiveLocksAssumption ==
    /\ Kind \subseteq Kinds /\ Po \subseteq Nat /\ NoTx \notin Tx
    /\ LineId \subseteq Nat /\ IsFiniteSet(LineId)
    /\ \A l \in LineId : Line[l].po \in Po /\ Line[l].item \in Item /\ Line[l].ordered \in Nat
    /\ FirstLine \subseteq LineId /\ MaxQty \in Nat /\ MaxDate \in Nat /\ MaxBegin \in Nat

VARIABLES
    lines,     \* the lines there are
    taken,     \* PurchaseOrderLines.ReceivedQty
    header,    \* PurchaseOrders: status and order date
    receipts,  \* by transaction and line: pieces, and whether voided
    owner,     \* who has the update or exclusive lock on a resource
    exclusive, \* the resources locked exclusively
    tx,        \* operation, next statement and plan of each connection
    begun

vars == <<lines, taken, header, receipts, owner, exclusive, tx, begun>>

Idle == [kind |-> "none", pc |-> "idle", pull |-> 0, item |-> 0, qty |-> 0, po |-> 0,
         line |-> 0, serial |-> 0, receipt |-> <<0, 0>>, date |-> 0,
         plan |-> {}, todo |-> {}, closes |-> {}]

Resource ==
    ({"pull"} \X Pull) \cup ({"po"} \X Po)
    \cup ({"line", "receipts"} \X LineId) \cup ({"receipt"} \X ((1 .. MaxBegin) \X LineId))

LinesOf(o) == {l \in lines : Line[l].po = o}
LinesFor(i) == {l \in lines : Line[l].item = i}
Remaining(l) == Line[l].ordered - taken[l]

-----------------------------------------------------------------------------
(* Locks.                                                                  *)
Free(t, r) == owner[r] \in {NoTx, t}
Readable(t, r) == Free(t, r) \/ r \notin exclusive

Lock(t, update, write) ==
    /\ owner' = [r \in Resource |-> IF r \in update \cup write THEN t ELSE owner[r]]
    /\ exclusive' = exclusive \cup write

Release(t) ==
    /\ owner' = [r \in Resource |-> IF owner[r] = t THEN NoTx ELSE owner[r]]
    /\ exclusive' = {r \in exclusive : owner[r] # t}

(* What is still to be had on a line, with what the transaction has drawn. *)
TakeOf(t, l) == SumOf({s \in tx[t].plan : s.line = l}, [s \in tx[t].plan |-> s.take])
Short(t, l) == Remaining(l) > (IF tx[t].kind = "Receive" THEN TakeOf(t, l) ELSE 0)

(* The update locks that the hints of ReadOpenPoLinesAsync ask for: every  *)
(* line of the item and, in the gaps between them, those that may still be *)
(* inserted.  Mutants: a plain read, and no HOLDLOCK.                      *)
HintedNot(i) == {}
HintedRows(i) == {<<"line", l>> : l \in LinesFor(i)}
Hinted(i) == {<<"line", l>> : l \in {k \in LineId : Line[k].item = i}}

(* The locks CancelAsync takes, in their order.  Mutant: the line first.   *)
CancelOrderLine == <<"receipt", "line", "pull", "write">>
CancelOrder == <<"receipt", "pull", "line", "write">>
AfterLock(pc) == CancelOrder[CHOOSE n \in 2 .. 4 : CancelOrder[n - 1] = pc]

(* What the next statement locks, and what it reads.                       *)
Needs(t) ==
    LET x == tx[t] IN
    CASE x.pc = "receipt" -> {<<"receipt", x.receipt>>}
      [] x.pc = "pull" -> {<<"pull", x.pull>>}
      [] x.pc = "lines" -> Hinted(x.item)
      [] x.pc \in {"line", "insert"} -> {<<"line", x.line>>}
      [] x.pc = "write" -> {<<"line", s.line>> : s \in x.plan}
      [] x.pc \in {"po", "reopen", "autoclose"} -> {<<"po", x.po>>}
      [] OTHER -> {}

Reads(t) ==
    LET x == tx[t] IN
    CASE x.pc = "lines" -> {<<"po", Line[l].po>> : l \in LinesFor(x.item)}
      [] x.pc = "line" -> {<<"po", x.po>>}
      [] x.pc = "check" ->
            IF \E l \in LinesOf(x.po) : Readable(t, <<"line", l>>) /\ Short(t, l)
            THEN {} ELSE {<<"line", l>> : l \in LinesOf(x.po)}
      [] x.pc = "sum" -> {<<"line", l>> : l \in LinesOf(x.po)}
      [] x.pc = "count" -> {<<"receipts", l>> : l \in LinesOf(x.po)}
      [] OTHER -> {}

Blockers(t) ==
    {owner[r] : r \in {s \in Needs(t) : ~Free(t, s)} \cup {s \in Reads(t) : ~Readable(t, s)}}

At(t, pc) == tx[t].pc = pc /\ Blockers(t) = {}
Goto(t, pc) == tx' = [tx EXCEPT ![t].pc = pc]

Rollback(t) ==
    /\ Release(t) /\ tx' = [tx EXCEPT ![t] = Idle]
    /\ UNCHANGED <<lines, taken, header, receipts, begun>>

Tables == <<lines, taken, header, receipts, begun>>

-----------------------------------------------------------------------------
(* The FIFO walk.                                                          *)
Candidates(i) == {l \in LinesFor(i) : header[Line[l].po].status = "open" /\ Remaining(l) > 0}

Precedes(k, l) ==
    LET d(n) == header[Line[n].po].date IN
    \/ d(k) < d(l)
    \/ d(k) = d(l) /\ k < l

PiecesOn(L) == SumOf(L, [l \in LineId |-> Remaining(l)])

Drawn(l, i, qty) ==
    LET ahead == PiecesOn({k \in Candidates(i) : Precedes(k, l)})
    IN  Greatest(0, Least(Remaining(l), qty - ahead))

Plan(i, qty) ==
    {s \in [line : Candidates(i), take : 1 .. MaxQty] : s.take = Drawn(s.line, i, qty)}

Available(i) == PiecesOn(Candidates(i))

-----------------------------------------------------------------------------
(* An operation is called.                                                 *)
Begin(t, op, first) ==
    /\ tx[t].pc = "idle" /\ begun < MaxBegin /\ begun' = begun + 1 /\ op.kind \in Kind
    /\ tx' = [tx EXCEPT ![t] = [op EXCEPT !.pc = first]]
    /\ UNCHANGED <<lines, taken, header, receipts, owner, exclusive>>

Call(t) ==
    \/ \E p \in Pull, i \in Item, q \in 1 .. MaxQty :
          Begin(t, [Idle EXCEPT !.kind = "Receive", !.pull = p, !.item = i, !.qty = q, !.serial = begun + 1], "pull")
    \/ \E r \in receipts :
          Begin(t, [Idle EXCEPT !.kind = "Cancel", !.pull = r.pull, !.receipt = r.id, !.line = r.line,
                                !.po = Line[r.line].po], "receipt")
    \/ \E o \in Po : Begin(t, [Idle EXCEPT !.kind = "ClosePo", !.po = o], "po")
    \/ \E o \in Po, d \in 0 .. MaxDate : Begin(t, [Idle EXCEPT !.kind = "UpdatePo", !.po = o, !.date = d], "po")
    \/ \E l \in LineId \ lines :
          Begin(t, [Idle EXCEPT !.kind = "AddLine", !.po = Line[l].po, !.line = l], "po")
    \/ \E l \in lines : Begin(t, [Idle EXCEPT !.kind = "DeleteLine", !.line = l, !.po = Line[l].po], "line")

-----------------------------------------------------------------------------
(* ReceiveAsync and CancelAsync: the pull.                                 *)
LockPull(t) ==
    /\ At(t, "pull") /\ Lock(t, Needs(t), {})
    /\ Goto(t, IF tx[t].kind = "Receive" THEN "lines" ELSE AfterLock("pull"))
    /\ UNCHANGED Tables

ReadOpenPoLines(t) ==
    /\ At(t, "lines")
    /\ IF Available(tx[t].item) < tx[t].qty
       THEN Rollback(t)
       ELSE /\ Lock(t, Needs(t), {})
            /\ LET plan == Plan(tx[t].item, tx[t].qty) IN
               tx' = [tx EXCEPT ![t].pc = "write", ![t].plan = plan,
                                ![t].todo = {Line[s.line].po : s \in plan}]
            /\ UNCHANGED Tables

(* The receipts are inserted and the lines updated.                        *)
WriteSlices(t) ==
    /\ tx[t].kind = "Receive" /\ At(t, "write")
    /\ Lock(t, {}, {<<table, s.line>> : table \in {"line", "receipts"}, s \in tx[t].plan})
    /\ Goto(t, "header")
    /\ UNCHANGED Tables

(* The UPDATE that closes the POs that are full: it locks one header after *)
(* the other, looks for a line that is short and keeps the lock if none is.*)
AutoCloseNext(t) ==
    /\ At(t, "header")
    /\ IF tx[t].todo = {} THEN Goto(t, "commit")
       ELSE \E o \in tx[t].todo :
               tx' = [tx EXCEPT ![t].pc = "autoclose", ![t].po = o, ![t].todo = @ \ {o}]
    /\ UNCHANGED <<Tables, owner, exclusive>>

AutoCloseLocks(t) ==
    /\ At(t, "autoclose") /\ Lock(t, Needs(t), {})
    /\ Goto(t, "check")
    /\ UNCHANGED Tables

AutoClose(t) ==
    /\ At(t, "check")
    /\ LET o == tx[t].po IN
       IF header[o].status = "open" /\ \A l \in LinesOf(o) : ~Short(t, l)
       THEN Lock(t, {}, {<<"po", o>>})
            /\ tx' = [tx EXCEPT ![t].pc = "header", ![t].closes = @ \cup {o}]
       ELSE owner' = [owner EXCEPT ![<<"po", o>>] = NoTx]
            /\ Goto(t, "header") /\ UNCHANGED exclusive
    /\ UNCHANGED Tables

CommitReceive(t) ==
    /\ tx[t].kind = "Receive" /\ At(t, "commit")
    /\ taken' = [l \in LineId |-> taken[l] + TakeOf(t, l)]
    /\ receipts' = receipts \cup {[id |-> <<tx[t].serial, s.line>>, line |-> s.line, qty |-> s.take,
                                   pull |-> tx[t].pull, voided |-> FALSE] : s \in tx[t].plan}
    /\ header' = [o \in Po |-> IF o \in tx[t].closes THEN [header[o] EXCEPT !.status = "closed"] ELSE header[o]]
    /\ Release(t) /\ tx' = [tx EXCEPT ![t] = Idle]
    /\ UNCHANGED <<lines, begun>>

(* CancelAsync.                                                            *)
Original(t) == CHOOSE r \in receipts : r.id = tx[t].receipt

LockReceipt(t) ==
    /\ At(t, "receipt")
    /\ IF Original(t).voided THEN Rollback(t)
       ELSE Lock(t, Needs(t), {}) /\ Goto(t, AfterLock("receipt")) /\ UNCHANGED Tables

WriteReversal(t) ==
    /\ tx[t].kind = "Cancel" /\ At(t, "write")
    /\ Lock(t, {}, {<<"line", tx[t].line>>, <<"receipts", tx[t].line>>, <<"receipt", tx[t].receipt>>})
    /\ Goto(t, "reopen")
    /\ UNCHANGED Tables

Reopen(t) ==
    /\ At(t, "reopen")
    /\ Lock(t, {}, IF header[tx[t].po].status = "closed" THEN Needs(t) ELSE {})
    /\ Goto(t, "commit")
    /\ UNCHANGED Tables

CommitCancel(t) ==
    /\ tx[t].kind = "Cancel" /\ At(t, "commit")
    /\ LET r == Original(t) IN
       /\ taken' = [taken EXCEPT ![r.line] = @ - r.qty]
       /\ receipts' = (receipts \ {r}) \cup {[r EXCEPT !.voided = TRUE]}
    /\ header' = [header EXCEPT ![tx[t].po].status = "open"]
    /\ Release(t) /\ tx' = [tx EXCEPT ![t] = Idle]
    /\ UNCHANGED <<lines, begun>>

-----------------------------------------------------------------------------
(* PurchaseOrderAdminService: the header first, then its lines.            *)
LockPo(t) ==
    /\ At(t, "po")
    /\ IF header[tx[t].po].status # "open" THEN Rollback(t)
       ELSE /\ Lock(t, Needs(t), {})
            /\ Goto(t, CASE tx[t].kind = "ClosePo" -> "sum"
                         [] tx[t].kind = "UpdatePo" -> "count"
                         [] tx[t].kind = "AddLine" -> "insert")
            /\ UNCHANGED Tables

WriteHeader(t) ==
    /\ \/ At(t, "sum")
       \/ At(t, "count") /\ \A r \in receipts : Line[r.line].po # tx[t].po
    /\ Lock(t, {}, {<<"po", tx[t].po>>}) /\ Goto(t, "commit")
    /\ UNCHANGED Tables

Referenced(t) ==
    /\ At(t, "count") /\ \E r \in receipts : Line[r.line].po = tx[t].po
    /\ Rollback(t)

CommitHeader(t) ==
    /\ tx[t].kind \in {"ClosePo", "UpdatePo"} /\ At(t, "commit")
    /\ header' = IF tx[t].kind = "ClosePo" THEN [header EXCEPT ![tx[t].po].status = "closed"]
                 ELSE [header EXCEPT ![tx[t].po].date = tx[t].date]
    /\ Release(t) /\ tx' = [tx EXCEPT ![t] = Idle]
    /\ UNCHANGED <<lines, taken, receipts, begun>>

InsertLine(t) ==
    /\ At(t, "insert")
    /\ IF tx[t].line \in lines THEN Rollback(t)
       ELSE /\ Lock(t, {}, Needs(t)) /\ Goto(t, "commit")
            /\ UNCHANGED Tables

LockLine(t) ==
    /\ At(t, "line")
    /\ IF tx[t].line \notin lines \/ (tx[t].kind = "DeleteLine" /\ \E r \in receipts : r.line = tx[t].line)
       THEN Rollback(t)
       ELSE /\ Lock(t, Needs(t), IF tx[t].kind = "DeleteLine" THEN Needs(t) ELSE {})
            /\ Goto(t, IF tx[t].kind = "DeleteLine" THEN "commit" ELSE AfterLock("line"))
            /\ UNCHANGED Tables

CommitLine(t) ==
    /\ tx[t].kind \in {"AddLine", "DeleteLine"} /\ At(t, "commit")
    /\ lines' = IF tx[t].kind = "AddLine" THEN lines \cup {tx[t].line} ELSE lines \ {tx[t].line}
    /\ Release(t) /\ tx' = [tx EXCEPT ![t] = Idle]
    /\ UNCHANGED <<taken, header, receipts, begun>>

-----------------------------------------------------------------------------
(* Transactions that wait for each other; the server rolls one of them     *)
(* back, and nothing tries it again.                                       *)
Circle(D) ==
    /\ D # {}
    /\ \A t \in D : Blockers(t) \cap D # {} /\ \E u \in D : t \in Blockers(u)

(* Mutant: nobody is rolled back.                                          *)
VictimsNone == {}
Victims == {t \in Tx : \E D \in SUBSET Tx : t \in D /\ Circle(D)}

Victim(t) == t \in Victims /\ Rollback(t)

-----------------------------------------------------------------------------
Init ==
    /\ lines = FirstLine /\ taken = [l \in LineId |-> 0]
    /\ header = [o \in Po |-> [status |-> "open", date |-> 0]]
    /\ receipts = {} /\ owner = [r \in Resource |-> NoTx] /\ exclusive = {}
    /\ tx = [t \in Tx |-> Idle] /\ begun = 0

Proceeds(t) ==
    \/ LockPull(t) \/ ReadOpenPoLines(t) \/ WriteSlices(t) \/ AutoCloseNext(t)
    \/ AutoCloseLocks(t) \/ AutoClose(t) \/ CommitReceive(t)
    \/ LockReceipt(t) \/ WriteReversal(t) \/ Reopen(t) \/ CommitCancel(t)
    \/ LockPo(t) \/ WriteHeader(t) \/ Referenced(t) \/ CommitHeader(t)
    \/ InsertLine(t) \/ LockLine(t) \/ CommitLine(t)
    \/ Victim(t)

Next == \E t \in Tx : Call(t) \/ Proceeds(t)

Spec == Init /\ [][Next]_vars /\ \A t \in Tx : WF_vars(Proceeds(t))

-----------------------------------------------------------------------------
TypeOK ==
    /\ lines \subseteq LineId /\ exclusive \subseteq Resource
    /\ \A r \in Resource : owner[r] \in Tx \cup {NoTx} /\ (r \in exclusive => owner[r] # NoTx)
    /\ \A t \in Tx : tx[t].pc = "idle" => \A r \in Resource : owner[r] # t

(* However the statements of receives, cancels and edits fall together, no *)
(* line is drawn beyond its order or given back what it did not give, and  *)
(* its cache is the sum of its receipts.                                   *)
LedgerBalances ==
    \A l \in LineId :
        /\ taken[l] \in 0 .. Line[l].ordered
        /\ taken[l] = SumOf({r \in receipts : r.line = l /\ ~r.voided}, [r \in receipts |-> r.qty])

(* The plan a receive made under its locks is still the plan it would make *)
(* when it writes and when it commits.                                     *)
PlanHolds ==
    \A t \in Tx : tx[t].kind = "Receive" /\ tx[t].pc \in {"write", "commit"} =>
        tx[t].plan = Plan(tx[t].item, tx[t].qty)

(* A receipt points at a line that is there.                               *)
ReceiptsHaveLines ==
    /\ \A r \in receipts : r.line \in lines
    /\ \A t \in Tx : \A s \in tx[t].plan : s.line \in lines

(* No two transactions ever wait for each other.                           *)
NoDeadlock == Victims = {}

=============================================================================
