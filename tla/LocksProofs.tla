---------------------------- MODULE LocksProofs ----------------------------
(***************************************************************************)
(* Proofs about ReceiveLocks, for any number of connections, transactions, *)
(* pulls, orders and lines.                                                *)
(***************************************************************************)
EXTENDS ReceiveLocks

Fields == {"kind", "pc", "pull", "item", "qty", "po", "line", "serial", "receipt", "date",
           "plan", "todo", "closes"}
ReceiptFields == {"id", "line", "qty", "pull", "voided"}

(* Where a transaction has a plan, and where a cancel has what it locked.  *)
Planned == {"write", "header", "autoclose", "check", "commit"}
PastReceipt == {"pull", "line", "write", "reopen", "commit"}
PastLine == {"write", "reopen", "commit"}

ReceiptId == (1 .. MaxBegin) \X LineId

Types ==
    /\ lines \subseteq LineId
    /\ taken \in [LineId -> Int]
    /\ owner \in [Resource -> Tx \cup {NoTx}]
    /\ exclusive \subseteq Resource
    /\ \A r \in exclusive : owner[r] # NoTx
    /\ begun \in 0 .. MaxBegin
    /\ tx = [t \in Tx |-> tx[t]]
    /\ \A t \in Tx : tx[t] = [f \in Fields |-> tx[t][f]]

(* The statements of each operation.                                       *)
Statements(kind) ==
    CASE kind = "none" -> {"idle"}
      [] kind = "Receive" -> {"pull", "lines"} \cup Planned
      [] kind = "Cancel" -> {"receipt"} \cup PastReceipt
      [] kind = "ClosePo" -> {"po", "sum", "commit"}
      [] kind = "UpdatePo" -> {"po", "count", "commit"}
      [] kind = "AddLine" -> {"po", "insert", "commit"}
      [] kind = "DeleteLine" -> {"line", "commit"}

OpOK(t) ==
    LET x == tx[t] IN
    /\ x.kind \in Kinds \cup {"none"}
    /\ x.pc \in Statements(x.kind)
    /\ x.kind = "Receive" =>
          /\ x.pull \in Pull /\ x.item \in Item /\ x.qty \in 1 .. MaxQty
          /\ x.serial \in 1 .. begun /\ x.todo \subseteq Po
          /\ x.pc \in {"autoclose", "check"} => x.po \in Po
    /\ x.kind = "Cancel" =>
          /\ x.pull \in Pull /\ x.line \in LineId /\ x.po = Line[x.line].po
          /\ \E r \in receipts : r.id = x.receipt /\ r.line = x.line
    /\ x.kind \in {"ClosePo", "UpdatePo"} => x.po \in Po
    /\ x.kind \in {"AddLine", "DeleteLine"} => x.line \in LineId /\ x.po = Line[x.line].po

(* A transaction that is over holds nothing.                               *)
IdleOK(t) == tx[t].pc = "idle" => \A r \in Resource : owner[r] # t

(* A receive has the lines of its plan locked, and they still have what it *)
(* draws on each.                                                          *)
PlanOK(t) ==
    LET x == tx[t] IN
    /\ x.plan # {} => x.kind = "Receive" /\ x.pc \in Planned
    /\ \A s \in x.plan :
          /\ s.line \in lines /\ owner[<<"line", s.line>>] = t
          /\ s.take \in Nat /\ s.take =< Remaining(s.line)
          /\ \A s2 \in x.plan : s2.line = s.line => s2 = s

(* The headers a receive has locked exclusively are those it closes, each  *)
(* looked at once; an edit has its header locked from the first.           *)
HeaderOK(t) ==
    LET x == tx[t] IN
    /\ x.kind = "Receive" =>
          /\ x.todo \cap x.closes = {}
          /\ x.pc \in {"autoclose", "check"} => x.po \notin x.todo \cup x.closes
          /\ x.pc = "check" => owner[<<"po", x.po>>] = t
          /\ \A o \in Po : owner[<<"po", o>>] = t /\ <<"po", o>> \in exclusive => o \in x.closes
    /\ x.closes # {} => x.kind = "Receive" /\ x.pc \in Planned
    /\ x.kind \in {"ClosePo", "UpdatePo", "AddLine"} /\ x.pc # "po" => owner[<<"po", x.po>>] = t

(* A cancel has its receipt locked, which is not voided, then its line.    *)
CancelOK(t) ==
    LET x == tx[t] IN
    x.kind = "Cancel" =>
        /\ x.pc \in PastReceipt =>
              /\ owner[<<"receipt", x.receipt>>] = t
              /\ \A r \in receipts : r.id = x.receipt => ~r.voided
        /\ x.pc \in PastLine => owner[<<"line", x.line>>] = t

(* A line that is inserted or deleted is locked, and the latter has no     *)
(* receipt.                                                                *)
LineOK(t) ==
    LET x == tx[t] IN
    x.kind \in {"AddLine", "DeleteLine"} /\ x.pc = "commit" =>
        /\ owner[<<"line", x.line>>] = t
        /\ x.kind = "DeleteLine" => \A r \in receipts : r.line # x.line

TxOK(t) == OpOK(t) /\ IdleOK(t) /\ PlanOK(t) /\ HeaderOK(t) /\ CancelOK(t) /\ LineOK(t)

ReceiptsOK ==
    \A r \in receipts :
        /\ r = [f \in ReceiptFields |-> r[f]]
        /\ r.id \in ReceiptId /\ r.id[1] =< begun /\ r.id[2] = r.line
        /\ r.qty \in Nat /\ r.pull \in Pull /\ r.voided \in BOOLEAN /\ r.line \in lines
        /\ \A r2 \in receipts : r2.id = r.id => r2 = r

(* A receive numbers its receipts as no other does.                        *)
SerialsOK ==
    \A t \in Tx : tx[t].kind = "Receive" =>
        /\ \A r \in receipts : r.id[1] # tx[t].serial
        /\ \A u \in Tx : tx[u].kind = "Receive" /\ tx[u].serial = tx[t].serial => u = t

LocksInv == Types /\ (\A t \in Tx : TxOK(t)) /\ ReceiptsOK /\ SerialsOK /\ LedgerBalances

-----------------------------------------------------------------------------
(* With no header edited: the plan made under the locks stays the plan.    *)
HeadersStay == Kind \cap {"ClosePo", "UpdatePo"} = {}

HeaderTypes ==
    /\ header = [o \in Po |-> header[o]]
    /\ \A o \in Po : header[o] = [f \in {"status", "date"} |-> header[o][f]]

(* A PO is closed only when every line of it is full.                      *)
ClosedIsFull ==
    \A o \in Po : header[o].status # "open" => \A l \in LinesOf(o) : Remaining(l) =< 0

PlanTxOK(t) ==
    LET x == tx[t] IN
    /\ x.kind \in Kind \cup {"none"}
    /\ x.kind = "Receive" /\ x.pc \in Planned =>
          /\ \A l \in LineId : Line[l].item = x.item => owner[<<"line", l>>] = t
          /\ x.plan = Plan(x.item, x.qty)
    /\ \A o \in x.closes :
          /\ o \in Po /\ owner[<<"po", o>>] = t
          /\ \A l \in LinesOf(o) : Remaining(l) =< TakeOf(t, l)
    /\ x.kind = "AddLine" /\ x.pc \in {"insert", "commit"} =>
          header[x.po].status = "open"
    /\ x.kind = "Cancel" /\ x.pc \in {"reopen", "commit"} => <<"line", x.line>> \in exclusive
    /\ x.kind = "Cancel" /\ x.pc = "commit" => \A u \in Tx : x.po \notin tx[u].closes

PlanInv == HeaderTypes /\ ClosedIsFull /\ \A t \in Tx : PlanTxOK(t)

-----------------------------------------------------------------------------
(* Receives and cancels of one item only: who may hold what where.         *)
OneItem ==
    /\ Kind \subseteq {"Receive", "Cancel"}
    /\ \A k, l \in LineId : Line[k].item = Line[l].item

MayHold(kind, pc, r) ==
    CASE r[1] = "receipt" -> kind = "Cancel" /\ pc \in PastReceipt
      [] r[1] = "pull" -> (kind = "Receive" /\ pc # "pull")
                          \/ (kind = "Cancel" /\ pc \in {"line"} \cup PastLine)
      [] r[1] = "line" -> (kind = "Receive" /\ pc \in Planned) \/ (kind = "Cancel" /\ pc \in PastLine)
      [] r[1] = "po" -> (kind = "Receive" /\ pc \in Planned) \/ (kind = "Cancel" /\ pc = "commit")
      [] OTHER -> TRUE

(* A receive that has a plan has every line locked.                        *)
Holds(t) ==
    LET x == tx[t] IN
    /\ x.kind \in {"none", "Receive", "Cancel"}
    /\ x.kind = "Receive" /\ x.pc \in Planned =>
          LineId # {} /\ \A l \in LineId : owner[<<"line", l>>] = t
    /\ \A r \in Resource : owner[r] = t => MayHold(x.kind, x.pc, r)

HoldsInv == \A t \in Tx : Holds(t)

-----------------------------------------------------------------------------
(* How a step changes the transaction that takes it.                       *)
LEMMA Goes ==
  ASSUME Types, NEW t \in Tx, NEW pc, Goto(t, pc)
  PROVE  /\ tx' = [u \in Tx |-> tx'[u]]
         /\ \A u \in Tx : tx'[u] = [f \in Fields |-> tx'[u][f]]
         /\ tx'[t].pc = pc
         /\ \A f \in Fields \ {"pc"} : tx'[t][f] = tx[t][f]
         /\ \A u \in Tx \ {t} : tx'[u] = tx[u]
BY DEF Types, Goto, Fields

LEMMA Ends ==
  ASSUME Types, NEW t \in Tx, tx' = [tx EXCEPT ![t] = Idle]
  PROVE  /\ tx' = [u \in Tx |-> tx'[u]]
         /\ \A u \in Tx : tx'[u] = [f \in Fields |-> tx'[u][f]]
         /\ tx'[t].kind = "none" /\ tx'[t].pc = "idle"
         /\ tx'[t].plan = {} /\ tx'[t].todo = {} /\ tx'[t].closes = {}
         /\ \A u \in Tx \ {t} : tx'[u] = tx[u]
BY DEF Types, Idle, Fields

LEMMA Resources ==
  /\ \A p \in Pull : <<"pull", p>> \in Resource
  /\ \A o \in Po : <<"po", o>> \in Resource
  /\ \A l \in LineId : <<"line", l>> \in Resource /\ <<"receipts", l>> \in Resource
  /\ \A i \in ReceiptId : <<"receipt", i>> \in Resource
BY DEF Resource, ReceiptId

(* A statement proceeds only when what it locks is free and what it reads  *)
(* is readable.                                                            *)
LEMMA AtFree ==
  ASSUME NEW t, NEW pc, At(t, pc)
  PROVE  /\ tx[t].pc = pc
         /\ \A r \in Needs(t) : Free(t, r)
         /\ \A r \in Reads(t) : Readable(t, r)
BY DEF At, Blockers

LEMMA NeedsAt ==
  ASSUME NEW t
  PROVE  LET x == tx[t] IN
         /\ x.pc = "receipt" => Needs(t) = {<<"receipt", x.receipt>>}
         /\ x.pc = "pull" => Needs(t) = {<<"pull", x.pull>>}
         /\ x.pc = "lines" => Needs(t) = Hinted(x.item)
         /\ x.pc \in {"line", "insert"} => Needs(t) = {<<"line", x.line>>}
         /\ x.pc = "write" => Needs(t) = {<<"line", s.line>> : s \in x.plan}
         /\ x.pc \in {"po", "reopen", "autoclose"} => Needs(t) = {<<"po", x.po>>}
BY DEF Needs

LEMMA Locking ==
  /\ AfterLock("receipt") = "pull"
  /\ AfterLock("pull") = "line"
  /\ AfterLock("line") = "write"
<1>1. /\ CancelOrder[1] = "receipt" /\ CancelOrder[2] = "pull"
      /\ CancelOrder[3] = "line" /\ CancelOrder[4] = "write"
  BY DEF CancelOrder
<1>2. \A n \in 2 .. 4 : (n = 2 /\ n - 1 = 1) \/ (n = 3 /\ n - 1 = 2) \/ (n = 4 /\ n - 1 = 3)
  OBVIOUS
<1>3. \A n \in 2 .. 4 : /\ (CancelOrder[n - 1] = "receipt" <=> n = 2)
                       /\ (CancelOrder[n - 1] = "pull" <=> n = 3)
                       /\ (CancelOrder[n - 1] = "line" <=> n = 4)
  BY <1>1, <1>2
<1>4. /\ (CHOOSE n \in 2 .. 4 : CancelOrder[n - 1] = "receipt") = 2
      /\ (CHOOSE n \in 2 .. 4 : CancelOrder[n - 1] = "pull") = 3
      /\ (CHOOSE n \in 2 .. 4 : CancelOrder[n - 1] = "line") = 4
  BY <1>3
<1> QED
  BY <1>1, <1>4 DEF AfterLock

-----------------------------------------------------------------------------
(* What another transaction keeps: only the lock on the receipts of a line *)
(* may go from one that has written to one that writes.                    *)
RangeLock == {"receipts"} \X LineId

Kept(u) ==
    /\ tx'[u] = tx[u]
    /\ \A r \in Resource :
          /\ owner'[r] = u => owner[r] = u /\ (r \in exclusive' => r \in exclusive)
          /\ owner[r] = u /\ r \notin RangeLock =>
                owner'[r] = u /\ (r \in exclusive => r \in exclusive')

LocksTyped ==
    /\ owner \in [Resource -> Tx \cup {NoTx}]
    /\ exclusive \subseteq Resource
    /\ \A r \in exclusive : owner[r] # NoTx

MayLock(t, update, write) ==
    /\ update \subseteq Resource /\ write \subseteq Resource
    /\ \A r \in update \cup write : r \in RangeLock \/ Free(t, r)

OthersWait(t) == \A u \in Tx \ {t} : tx'[u] = tx[u]

Locked(t, update, write) ==
    /\ LocksTyped'
    /\ \A r \in Resource : owner'[r] = t <=> owner[r] = t \/ r \in update \cup write
    /\ exclusive' = exclusive \cup write
    /\ \A u \in Tx \ {t} : Kept(u)

LEMMA LockFrame ==
  ASSUME ReceiveLocksAssumption, LocksTyped, NEW t \in Tx, NEW update, NEW write,
         MayLock(t, update, write), Lock(t, update, write), OthersWait(t)
  PROVE  Locked(t, update, write)
<1>1. t # NoTx /\ update \cup write \subseteq Resource
  BY DEF ReceiveLocksAssumption, MayLock
<1>2. \A r \in Resource : owner'[r] = IF r \in update \cup write THEN t ELSE owner[r]
  BY DEF Lock
<1>3. LocksTyped'
  BY <1>1 DEF LocksTyped, Lock
<1>4. exclusive' = exclusive \cup write
  BY DEF Lock
<1>5. ASSUME NEW u \in Tx \ {t}
      PROVE  Kept(u)
  <2> SUFFICES ASSUME NEW r \in Resource
               PROVE  /\ owner'[r] = u => owner[r] = u /\ (r \in exclusive' => r \in exclusive)
                      /\ owner[r] = u /\ r \notin RangeLock =>
                            owner'[r] = u /\ (r \in exclusive => r \in exclusive')
    BY DEF Kept, OthersWait
  <2>1. u # NoTx
    BY DEF ReceiveLocksAssumption
  <2>2. r \in update \cup write /\ owner[r] = u => r \in RangeLock
    BY <2>1 DEF Free, MayLock
  <2> QED
    BY <1>2, <1>4, <2>2
<1> QED
  BY <1>1, <1>2, <1>3, <1>4, <1>5 DEF Locked

LEMMA ReleaseFrame ==
  ASSUME ReceiveLocksAssumption, LocksTyped, NEW t \in Tx,
         Release(t), \A u \in Tx \ {t} : tx'[u] = tx[u]
  PROVE  /\ LocksTyped'
         /\ \A r \in Resource : owner'[r] # t
         /\ \A u \in Tx \ {t} : Kept(u)
<1>1. t # NoTx
  BY DEF ReceiveLocksAssumption
<1>2. \A r \in Resource : owner'[r] = IF owner[r] = t THEN NoTx ELSE owner[r]
  BY DEF Release
<1>3. LocksTyped'
  BY <1>1 DEF LocksTyped, Release
<1>4. exclusive' = {r \in exclusive : owner[r] # t}
  BY DEF Release
<1>5. ASSUME NEW u \in Tx \ {t}
      PROVE  Kept(u)
  <2>1. u # NoTx
    BY DEF ReceiveLocksAssumption
  <2> QED
    BY <1>2, <1>4, <2>1 DEF Kept
<1> QED
  BY <1>1, <1>2, <1>3, <1>5

(* The tables another transaction finds: what it drew and looked up is     *)
(* still there.                                                            *)
TablesSuit(u) ==
    LET x == tx[u] IN
    /\ \A s \in x.plan : s.line \in lines' /\ taken'[s.line] = taken[s.line]
    /\ \A r \in receipts : \E r2 \in receipts' : r2.id = r.id /\ r2.line = r.line
    /\ x.kind = "Cancel" /\ x.pc \in PastReceipt =>
          \A r \in receipts' : r.id = x.receipt => ~r.voided
    /\ x.kind = "DeleteLine" /\ x.pc = "commit" => \A r \in receipts' : r.line # x.line

LEMMA OtherStays ==
  ASSUME ReceiveLocksAssumption, Types, ReceiptsOK, NEW u \in Tx, TxOK(u), Kept(u),
         TablesSuit(u), begun' \in Nat, begun' >= begun
  PROVE  TxOK(u)'
<1> USE DEF Kept, TxOK
<1>1. OpOK(u)'
  BY DEF OpOK, Types, TablesSuit
<1>2. IdleOK(u)'
  BY DEF IdleOK
<1>3. PlanOK(u)'
  BY Resources DEF PlanOK, Remaining, RangeLock, Types, TablesSuit
<1>4. HeaderOK(u)'
  <2>1. tx[u].kind \in {"ClosePo", "UpdatePo", "AddLine"} => tx[u].po \in Po
    BY DEF OpOK, ReceiveLocksAssumption
  <2> QED
    BY <2>1, Resources DEF HeaderOK, OpOK, RangeLock
<1>5. CancelOK(u)'
  <2>1. tx[u].kind = "Cancel" => tx[u].receipt \in ReceiptId /\ tx[u].line \in LineId
    BY DEF OpOK, ReceiptsOK
  <2> QED
    BY <2>1, Resources DEF CancelOK, RangeLock, TablesSuit
<1>6. LineOK(u)'
  BY Resources DEF LineOK, OpOK, RangeLock, TablesSuit
<1> QED
  BY <1>1, <1>2, <1>3, <1>4, <1>5, <1>6

(* The tables as they were suit everyone.                                  *)
LEMMA TablesStay ==
  ASSUME LocksInv, UNCHANGED <<lines, taken, receipts>>
  PROVE  \A u \in Tx : TablesSuit(u)
BY DEF LocksInv, TxOK, PlanOK, CancelOK, LineOK, TablesSuit

(* A step of t keeps the invariant and what everyone else has.             *)
Sound(t) == LocksInv' /\ \A u \in Tx \ {t} : Kept(u)

(* So a step that leaves the tables alone is judged by what its own        *)
(* transaction becomes.                                                    *)
LEMMA StepFrame ==
  ASSUME ReceiveLocksAssumption, LocksInv, NEW t \in Tx,
         UNCHANGED <<lines, taken, receipts, begun>>,
         Types', TxOK(t)', \A u \in Tx \ {t} : Kept(u),
         tx'[t].kind = "Receive" => tx[t].kind = "Receive" /\ tx'[t].serial = tx[t].serial
  PROVE  Sound(t)
<1>1. \A u \in Tx \ {t} : TxOK(u)'
  BY OtherStays, TablesStay DEF LocksInv, Types
<1>2. ReceiptsOK'
  BY DEF LocksInv, ReceiptsOK
<1>3. SerialsOK'
  BY DEF LocksInv, SerialsOK, Kept
<1>4. LedgerBalances'
  BY DEF LocksInv, LedgerBalances
<1> QED
  BY <1>1, <1>2, <1>3, <1>4 DEF LocksInv, Sound

-----------------------------------------------------------------------------
LEMMA LocksInit == ReceiveLocksAssumption /\ Init => LocksInv
<1> SUFFICES ASSUME ReceiveLocksAssumption, Init
             PROVE  LocksInv
  OBVIOUS
<1>1. Types
  BY DEF ReceiveLocksAssumption, Init, Types, Idle, Fields
<1>2. \A t \in Tx : /\ tx[t].kind = "none" /\ tx[t].pc = "idle"
                  /\ tx[t].plan = {} /\ tx[t].closes = {}
                  /\ \A r \in Resource : owner[r] # t
  BY DEF ReceiveLocksAssumption, Init, Idle
<1>3. \A t \in Tx : TxOK(t)
  BY <1>2 DEF TxOK, OpOK, Statements, IdleOK, PlanOK, HeaderOK, CancelOK, LineOK
<1>4. LedgerBalances
  <2>1. \A l \in LineId : {r \in receipts : r.line = l /\ ~r.voided} = {}
    BY DEF Init
  <2> QED
    BY <2>1, SumEmpty DEF Init, LedgerBalances, ReceiveLocksAssumption
<1> QED
  BY <1>1, <1>2, <1>3, <1>4 DEF LocksInv, ReceiptsOK, SerialsOK, Init

(* What must hold for a statement that locks to be one that the operation  *)
(* may go on from.                                                         *)
Fits(t, pc, update, write) ==
    LET x == tx[t] IN
    /\ MayLock(t, update, write)
    /\ pc \in Statements(x.kind) /\ pc # "idle"
    /\ x.kind = "Receive" =>
          /\ pc \in Planned \/ x.pc \notin Planned
          /\ \A o \in Po : <<"po", o>> \notin write
          /\ pc \notin {"autoclose", "check"} \/ x.pc = "autoclose"
          /\ pc = "check" => <<"po", x.po>> \in update
    /\ x.kind = "Cancel" =>
          /\ pc \in PastReceipt =>
                \/ x.pc \in PastReceipt
                \/ /\ <<"receipt", x.receipt>> \in update
                   /\ \A r \in receipts : r.id = x.receipt => ~r.voided
          /\ pc \in PastLine => x.pc \in PastLine \/ <<"line", x.line>> \in update \cup write
    /\ x.kind \in {"ClosePo", "UpdatePo", "AddLine"} =>
          pc # "po" /\ (x.pc # "po" \/ <<"po", x.po>> \in update)
    /\ x.kind \in {"AddLine", "DeleteLine"} /\ pc = "commit" =>
          /\ <<"line", x.line>> \in update \cup write
          /\ x.kind = "DeleteLine" => \A r \in receipts : r.line # x.line

LEMMA GoStep ==
  ASSUME ReceiveLocksAssumption, LocksInv, NEW t \in Tx, NEW pc, NEW update, NEW write,
         Goto(t, pc), Lock(t, update, write), UNCHANGED Tables, Fits(t, pc, update, write)
  PROVE  Sound(t)
<1>1. Types /\ TxOK(t) /\ LocksTyped /\ ReceiptsOK
  BY DEF LocksInv, Types, LocksTyped
<1>2. /\ tx' = [u \in Tx |-> tx'[u]]
      /\ \A u \in Tx : tx'[u] = [f \in Fields |-> tx'[u][f]]
      /\ tx'[t].pc = pc
      /\ \A u \in Tx \ {t} : tx'[u] = tx[u]
  BY <1>1, Goes
<1>3. /\ tx'[t].kind = tx[t].kind /\ tx'[t].pull = tx[t].pull /\ tx'[t].item = tx[t].item
      /\ tx'[t].qty = tx[t].qty /\ tx'[t].po = tx[t].po /\ tx'[t].line = tx[t].line
      /\ tx'[t].serial = tx[t].serial /\ tx'[t].receipt = tx[t].receipt
      /\ tx'[t].plan = tx[t].plan /\ tx'[t].todo = tx[t].todo /\ tx'[t].closes = tx[t].closes
  BY <1>1, Goes DEF Fields
<1>4. /\ LocksTyped'
      /\ \A r \in Resource :
            owner'[r] = t <=> owner[r] = t \/ r \in update \cup write
      /\ exclusive' = exclusive \cup write
      /\ \A u \in Tx \ {t} : Kept(u)
  <2>1. MayLock(t, update, write) /\ OthersWait(t)
    BY <1>2 DEF Fits, OthersWait
  <2> QED
    BY <1>1, <2>1, LockFrame DEF Locked
<1>5. Types'
  BY <1>1, <1>2, <1>4 DEF Types, LocksTyped, Tables
<1>6. OpOK(t)'
  BY <1>1, <1>2, <1>3 DEF Fits, TxOK, OpOK, Tables
<1>7. IdleOK(t)'
  BY <1>2 DEF Fits, IdleOK
<1>8. PlanOK(t)'
  BY <1>1, <1>2, <1>3, <1>4, Resources DEF Fits, TxOK, PlanOK, Remaining, Tables, Types
<1>9. HeaderOK(t)'
  <2>1. tx[t].pc = "autoclose" /\ tx[t].kind = "Receive" => tx[t].po \in Po
    BY <1>1 DEF TxOK, OpOK
  <2>2. \A r \in update : r \notin exclusive \/ r \in RangeLock \/ owner[r] = t
    BY <1>1 DEF Fits, MayLock, LocksTyped, Free
  <2>3. \A o \in Po : <<"po", o>> \notin RangeLock
    BY DEF RangeLock
  <2>4. tx[t].kind \in {"ClosePo", "UpdatePo", "AddLine"} => tx[t].po \in Po
    BY <1>1 DEF TxOK, OpOK, ReceiveLocksAssumption
  <2> QED
    BY <1>1, <1>2, <1>3, <1>4, <2>1, <2>2, <2>3, <2>4, Resources DEF Fits, TxOK, HeaderOK
<1>10. CancelOK(t)'
  <2>1. tx[t].kind = "Cancel" => tx[t].receipt \in ReceiptId /\ tx[t].line \in LineId
    BY <1>1 DEF TxOK, OpOK, ReceiptsOK
  <2> QED
    BY <1>1, <1>2, <1>3, <1>4, <2>1, Resources DEF Fits, TxOK, CancelOK, Tables
<1>11. LineOK(t)'
  BY <1>1, <1>2, <1>3, <1>4, Resources DEF Fits, TxOK, OpOK, LineOK, Tables
<1> QED
  BY <1>2, <1>3, <1>4, <1>5, <1>6, <1>7, <1>8, <1>9, <1>10, <1>11, StepFrame DEF TxOK, Tables

(* A transaction that ends, and the tables it leaves.                      *)
LEMMA EndFrame ==
  ASSUME ReceiveLocksAssumption, LocksInv, NEW t \in Tx,
         Release(t), tx' = [tx EXCEPT ![t] = Idle], begun' = begun,
         lines' \subseteq LineId, taken' \in [LineId -> Int],
         \A u \in Tx \ {t} : TablesSuit(u),
         \A r2 \in receipts' :
            \/ \E r \in receipts : r2.id = r.id
            \/ tx[t].kind = "Receive" /\ r2.id[1] = tx[t].serial,
         ReceiptsOK', LedgerBalances'
  PROVE  Sound(t)
<1>1. Types /\ LocksTyped
  BY DEF LocksInv, Types, LocksTyped
<1>2. /\ tx' = [u \in Tx |-> tx'[u]]
      /\ \A u \in Tx : tx'[u] = [f \in Fields |-> tx'[u][f]]
      /\ tx'[t].kind = "none" /\ tx'[t].pc = "idle"
      /\ tx'[t].plan = {} /\ tx'[t].closes = {}
      /\ \A u \in Tx \ {t} : tx'[u] = tx[u]
  BY <1>1, Ends
<1>3. /\ LocksTyped'
      /\ \A r \in Resource : owner'[r] # t
      /\ \A u \in Tx \ {t} : Kept(u)
  BY <1>1, <1>2, ReleaseFrame
<1>4. Types'
  BY <1>1, <1>2, <1>3 DEF Types, LocksTyped
<1>5. TxOK(t)'
  BY <1>2, <1>3 DEF TxOK, OpOK, Statements, IdleOK, PlanOK, HeaderOK, CancelOK, LineOK
<1>6. \A u \in Tx \ {t} : TxOK(u)'
  BY <1>1, <1>3, OtherStays DEF LocksInv, Types
<1>7. SerialsOK'
  BY <1>2 DEF LocksInv, SerialsOK
<1> QED
  BY <1>3, <1>4, <1>5, <1>6, <1>7 DEF LocksInv, Sound

LEMMA EndStep ==
  ASSUME ReceiveLocksAssumption, LocksInv, NEW t \in Tx,
         Release(t), tx' = [tx EXCEPT ![t] = Idle], UNCHANGED <<lines, taken, receipts, begun>>
  PROVE  Sound(t)
<1>1. \A u \in Tx : TablesSuit(u)
  BY TablesStay
<1>2. ReceiptsOK' /\ LedgerBalances'
  BY DEF LocksInv, ReceiptsOK, LedgerBalances
<1> QED
  BY <1>1, <1>2, EndFrame DEF LocksInv, Types

(* A rollback leaves nothing behind.                                       *)
LEMMA RollbackStep ==
  ASSUME ReceiveLocksAssumption, LocksInv, NEW t \in Tx, Rollback(t)
  PROVE  Sound(t)
BY EndStep DEF Rollback

LEMMA CommitHeaderStep ==
  ASSUME ReceiveLocksAssumption, LocksInv, NEW t \in Tx, CommitHeader(t)
  PROVE  Sound(t)
BY EndStep DEF CommitHeader

-----------------------------------------------------------------------------
(* What the statement a transaction is at tells of it.                     *)
LEMMA KindAt ==
  ASSUME NEW t \in Tx, TxOK(t)
  PROVE  LET x == tx[t] IN
         /\ x.pc \in {"lines", "header", "autoclose", "check"} => x.kind = "Receive"
         /\ x.pc \in {"receipt", "reopen"} => x.kind = "Cancel"
         /\ x.pc = "pull" => x.kind \in {"Receive", "Cancel"}
         /\ x.pc = "line" => x.kind \in {"Cancel", "DeleteLine"}
         /\ x.pc = "write" => x.kind \in {"Receive", "Cancel"}
         /\ x.pc = "po" => x.kind \in {"ClosePo", "UpdatePo", "AddLine"}
         /\ x.pc = "sum" => x.kind = "ClosePo"
         /\ x.pc = "count" => x.kind = "UpdatePo"
         /\ x.pc = "insert" => x.kind = "AddLine"
         /\ x.pc = "idle" <=> x.kind = "none"
BY DEF TxOK, OpOK, Statements, Kinds, Planned, PastReceipt

(* What it refers to is there to be locked.                                *)
LEMMA Arguments ==
  ASSUME ReceiveLocksAssumption, LocksInv, NEW t \in Tx
  PROVE  LET x == tx[t] IN
         /\ x.kind \in {"Cancel", "AddLine", "DeleteLine"} => x.line \in LineId
         /\ x.kind \in {"Cancel", "AddLine", "DeleteLine", "ClosePo", "UpdatePo"} => x.po \in Po
         /\ x.pc \in {"autoclose", "check"} => x.po \in Po
         /\ x.kind \in {"Receive", "Cancel"} => x.pull \in Pull
         /\ x.kind = "Cancel" => x.receipt \in ReceiptId
         /\ \A s \in x.plan : s.line \in LineId
<1>1. TxOK(t) /\ ReceiptsOK /\ Types
  BY DEF LocksInv
<1>2. tx[t].pc \in {"autoclose", "check"} => tx[t].kind = "Receive"
  BY <1>1, KindAt
<1>3. tx[t].kind = "Cancel" => tx[t].receipt \in ReceiptId
  BY <1>1 DEF TxOK, OpOK, ReceiptsOK
<1>4. \A s \in tx[t].plan : s.line \in LineId
  BY <1>1 DEF TxOK, PlanOK, Types
<1> QED
  BY <1>1, <1>2, <1>3, <1>4 DEF TxOK, OpOK, ReceiveLocksAssumption

(* The receipt a cancel looks up is the one it was called with.            *)
LEMMA OriginalIs ==
  ASSUME LocksInv, NEW t \in Tx, tx[t].kind = "Cancel"
  PROVE  /\ Original(t) \in receipts
         /\ Original(t).id = tx[t].receipt /\ Original(t).line = tx[t].line
         /\ \A r \in receipts : r.id = tx[t].receipt => r = Original(t)
<1>1. PICK r \in receipts : r.id = tx[t].receipt /\ r.line = tx[t].line
  BY DEF LocksInv, TxOK, OpOK
<1>2. \A r2 \in receipts : r2.id = tx[t].receipt => r2 = r
  BY <1>1 DEF LocksInv, ReceiptsOK
<1>3. Original(t) = r
  BY <1>1, <1>2 DEF Original
<1> QED
  BY <1>1, <1>2, <1>3

LEMMA LockPullStep ==
  ASSUME ReceiveLocksAssumption, LocksInv, NEW t \in Tx, LockPull(t)
  PROVE  Sound(t)
<1>1. TxOK(t) /\ tx[t].pc = "pull" /\ (\A r \in Needs(t) : Free(t, r)) /\ Lock(t, Needs(t), {})
  BY AtFree DEF LocksInv, LockPull
<1>2. tx[t].kind \in {"Receive", "Cancel"} /\ tx[t].plan = {}
  BY <1>1, KindAt DEF TxOK, PlanOK, Planned
<1>3. Needs(t) \subseteq Resource
  BY <1>1, <1>2, NeedsAt, Arguments, Resources
<1>4. CASE tx[t].kind = "Receive"
  <2>1. Goto(t, "lines") /\ UNCHANGED Tables
    BY <1>4 DEF LockPull
  <2>9. Fits(t, "lines", Needs(t), {})
    BY <1>1, <1>2, <1>3, <1>4, <2>1 DEF Fits, MayLock, Statements, Planned, PastReceipt, PastLine
  <2> QED
    BY <1>1, <1>2, <1>3, <1>4, <2>1, <2>9, GoStep
<1>5. CASE tx[t].kind = "Cancel"
  <2>1. Goto(t, "line") /\ UNCHANGED Tables
    BY <1>5, Locking DEF LockPull
  <2>9. Fits(t, "line", Needs(t), {})
    BY <1>1, <1>2, <1>3, <1>5, <2>1 DEF Fits, MayLock, Statements, Planned, PastReceipt, PastLine
  <2> QED
    BY <1>1, <1>2, <1>3, <1>5, <2>1, <2>9, GoStep
<1> QED
  BY <1>2, <1>4, <1>5

LEMMA WriteSlicesStep ==
  ASSUME ReceiveLocksAssumption, LocksInv, NEW t \in Tx, WriteSlices(t)
  PROVE  Sound(t)
<1> DEFINE write == {<<table, s.line>> : table \in {"line", "receipts"}, s \in tx[t].plan}
<1>1. TxOK(t) /\ tx[t].pc = "write" /\ tx[t].kind = "Receive"
  BY AtFree DEF LocksInv, WriteSlices
<1>2. Lock(t, {}, write) /\ Goto(t, "header") /\ UNCHANGED Tables
  BY DEF WriteSlices
<1>3. \A r \in write : \E s \in tx[t].plan :
        (r = <<"line", s.line>> \/ r = <<"receipts", s.line>>) /\ s.line \in LineId /\ owner[<<"line", s.line>>] = t
  BY <1>1, Arguments DEF TxOK, PlanOK
<1> HIDE DEF write
<1>4. \A r \in write : /\ r \in Resource
                       /\ r \in RangeLock \/ Free(t, r)
                       /\ \A o \in Po : r # <<"po", o>>
  <2> SUFFICES ASSUME NEW r \in write
               PROVE  /\ r \in Resource
                      /\ r \in RangeLock \/ Free(t, r)
                      /\ \A o \in Po : r # <<"po", o>>
    OBVIOUS
  <2>1. PICK s \in tx[t].plan :
          (r = <<"line", s.line>> \/ r = <<"receipts", s.line>>) /\ s.line \in LineId /\ owner[<<"line", s.line>>] = t
    BY <1>3
  <2>2. CASE r = <<"line", s.line>>
    BY <2>1, <2>2, Resources DEF Free
  <2>3. CASE r = <<"receipts", s.line>>
    BY <2>1, <2>3, Resources DEF RangeLock
  <2> QED
    BY <2>1, <2>2, <2>3
<1>9. Fits(t, "header", {}, write)
  BY <1>1, <1>2, <1>4 DEF Fits, MayLock, Statements, Planned, PastReceipt, PastLine
<1> QED
  BY <1>1, <1>2, <1>4, <1>9, GoStep

LEMMA AutoCloseLocksStep ==
  ASSUME ReceiveLocksAssumption, LocksInv, NEW t \in Tx, AutoCloseLocks(t)
  PROVE  Sound(t)
<1>1. TxOK(t) /\ tx[t].pc = "autoclose" /\ (\A r \in Needs(t) : Free(t, r))
  BY AtFree DEF LocksInv, AutoCloseLocks
<1>2. tx[t].kind = "Receive" /\ Needs(t) = {<<"po", tx[t].po>>} /\ Needs(t) \subseteq Resource
  BY <1>1, KindAt, NeedsAt, Arguments, Resources
<1>3. Lock(t, Needs(t), {}) /\ Goto(t, "check") /\ UNCHANGED Tables
  BY DEF AutoCloseLocks
<1>9. Fits(t, "check", Needs(t), {})
  BY <1>1, <1>2, <1>3 DEF Fits, MayLock, Statements, Planned, PastReceipt, PastLine
<1> QED
  BY <1>1, <1>2, <1>3, <1>9, GoStep

LEMMA LockReceiptStep ==
  ASSUME ReceiveLocksAssumption, LocksInv, NEW t \in Tx, LockReceipt(t)
  PROVE  Sound(t)
<1>1. TxOK(t) /\ tx[t].pc = "receipt" /\ (\A r \in Needs(t) : Free(t, r))
  BY AtFree DEF LocksInv, LockReceipt
<1>2. /\ tx[t].kind = "Cancel" /\ tx[t].plan = {}
      /\ Needs(t) = {<<"receipt", tx[t].receipt>>} /\ Needs(t) \subseteq Resource
  BY <1>1, KindAt, NeedsAt, Arguments, Resources DEF TxOK, PlanOK
<1>3. CASE Original(t).voided
  BY <1>3, RollbackStep DEF LockReceipt
<1>4. CASE ~Original(t).voided
  <2>1. Lock(t, Needs(t), {}) /\ Goto(t, "pull") /\ UNCHANGED Tables
    BY <1>4, Locking DEF LockReceipt
  <2>2. \A r \in receipts : r.id = tx[t].receipt => ~r.voided
    BY <1>2, <1>4, OriginalIs
  <2>9. Fits(t, "pull", Needs(t), {})
    BY <1>1, <1>2, <2>1, <2>2 DEF Fits, MayLock, Statements, Planned, PastReceipt, PastLine
  <2> QED
    BY <1>1, <1>2, <2>1, <2>2, <2>9, GoStep
<1> QED
  BY <1>3, <1>4

LEMMA WriteReversalStep ==
  ASSUME ReceiveLocksAssumption, LocksInv, NEW t \in Tx, WriteReversal(t)
  PROVE  Sound(t)
<1> DEFINE write == {<<"line", tx[t].line>>, <<"receipts", tx[t].line>>, <<"receipt", tx[t].receipt>>}
<1>1. TxOK(t) /\ tx[t].pc = "write" /\ tx[t].kind = "Cancel" /\ tx[t].plan = {}
  BY AtFree DEF LocksInv, WriteReversal, TxOK, PlanOK
<1>2. Lock(t, {}, write) /\ Goto(t, "reopen") /\ UNCHANGED Tables
  BY DEF WriteReversal
<1>3. tx[t].line \in LineId /\ tx[t].receipt \in ReceiptId
  BY <1>1, Arguments
<1>4. owner[<<"line", tx[t].line>>] = t /\ owner[<<"receipt", tx[t].receipt>>] = t
  BY <1>1 DEF TxOK, CancelOK, PastReceipt, PastLine
<1>5. write \subseteq Resource /\ \A r \in write : r \in RangeLock \/ Free(t, r)
  BY <1>3, <1>4, Resources DEF RangeLock, Free
<1> HIDE DEF write
<1>9. Fits(t, "reopen", {}, write)
  BY <1>1, <1>2, <1>5 DEF Fits, MayLock, Statements, Planned, PastReceipt, PastLine
<1> QED
  BY <1>1, <1>2, <1>5, <1>9, GoStep

LEMMA ReopenStep ==
  ASSUME ReceiveLocksAssumption, LocksInv, NEW t \in Tx, Reopen(t)
  PROVE  Sound(t)
<1> DEFINE write == IF header[tx[t].po].status = "closed" THEN Needs(t) ELSE {}
<1>1. TxOK(t) /\ tx[t].pc = "reopen" /\ (\A r \in Needs(t) : Free(t, r))
  BY AtFree DEF LocksInv, Reopen
<1>2. tx[t].kind = "Cancel" /\ tx[t].plan = {}
  BY <1>1, KindAt DEF TxOK, PlanOK
<1>3. Needs(t) \subseteq Resource
  BY <1>1, <1>2, NeedsAt, Arguments, Resources
<1>4. write \subseteq Resource /\ \A r \in write : Free(t, r)
  BY <1>1, <1>3
<1>5. Lock(t, {}, write) /\ Goto(t, "commit") /\ UNCHANGED Tables
  BY DEF Reopen
<1> HIDE DEF write
<1>9. Fits(t, "commit", {}, write)
  BY <1>1, <1>2, <1>4, <1>5 DEF Fits, MayLock, Statements, Planned, PastReceipt, PastLine
<1> QED
  BY <1>1, <1>2, <1>4, <1>5, <1>9, GoStep

LEMMA LockPoStep ==
  ASSUME ReceiveLocksAssumption, LocksInv, NEW t \in Tx, LockPo(t)
  PROVE  Sound(t)
<1>1. TxOK(t) /\ tx[t].pc = "po" /\ (\A r \in Needs(t) : Free(t, r))
  BY AtFree DEF LocksInv, LockPo
<1>2. /\ tx[t].kind \in {"ClosePo", "UpdatePo", "AddLine"} /\ tx[t].plan = {}
      /\ Needs(t) = {<<"po", tx[t].po>>} /\ Needs(t) \subseteq Resource
  BY <1>1, KindAt, NeedsAt, Arguments, Resources DEF TxOK, PlanOK
<1>3. CASE header[tx[t].po].status # "open"
  BY <1>3, RollbackStep DEF LockPo
<1>4. CASE header[tx[t].po].status = "open"
  <2>1. Lock(t, Needs(t), {}) /\ UNCHANGED Tables
    BY <1>4 DEF LockPo
  <2>2. CASE tx[t].kind = "ClosePo"
    <3>1. Goto(t, "sum")
      BY <1>4, <2>2 DEF LockPo
    <3>9. Fits(t, "sum", Needs(t), {})
      BY <1>1, <1>2, <2>1, <2>2, <3>1 DEF Fits, MayLock, Statements, Planned, PastReceipt, PastLine
    <3> QED
      BY <1>1, <1>2, <2>1, <2>2, <3>1, <3>9, GoStep
  <2>3. CASE tx[t].kind = "UpdatePo"
    <3>1. Goto(t, "count")
      BY <1>4, <2>3 DEF LockPo
    <3>9. Fits(t, "count", Needs(t), {})
      BY <1>1, <1>2, <2>1, <2>3, <3>1 DEF Fits, MayLock, Statements, Planned, PastReceipt, PastLine
    <3> QED
      BY <1>1, <1>2, <2>1, <2>3, <3>1, <3>9, GoStep
  <2>4. CASE tx[t].kind = "AddLine"
    <3>1. Goto(t, "insert")
      BY <1>4, <2>4 DEF LockPo
    <3>9. Fits(t, "insert", Needs(t), {})
      BY <1>1, <1>2, <2>1, <2>4, <3>1 DEF Fits, MayLock, Statements, Planned, PastReceipt, PastLine
    <3> QED
      BY <1>1, <1>2, <2>1, <2>4, <3>1, <3>9, GoStep
  <2> QED
    BY <1>2, <2>2, <2>3, <2>4
<1> QED
  BY <1>3, <1>4

LEMMA WriteHeaderStep ==
  ASSUME ReceiveLocksAssumption, LocksInv, NEW t \in Tx, WriteHeader(t)
  PROVE  Sound(t)
<1>1. TxOK(t) /\ tx[t].pc \in {"sum", "count"}
  BY AtFree DEF LocksInv, WriteHeader
<1>2. tx[t].kind \in {"ClosePo", "UpdatePo"} /\ tx[t].plan = {}
  BY <1>1, KindAt DEF TxOK, PlanOK, Planned
<1>3. /\ {<<"po", tx[t].po>>} \subseteq Resource
      /\ \A r \in {<<"po", tx[t].po>>} : Free(t, r)
  BY <1>1, <1>2, Arguments, Resources DEF TxOK, HeaderOK, Free
<1>4. Lock(t, {}, {<<"po", tx[t].po>>}) /\ Goto(t, "commit") /\ UNCHANGED Tables
  BY DEF WriteHeader
<1>9. Fits(t, "commit", {}, {<<"po", tx[t].po>>})
  BY <1>1, <1>2, <1>3, <1>4 DEF Fits, MayLock, Statements, Planned, PastReceipt, PastLine
<1> QED
  BY <1>1, <1>2, <1>3, <1>4, <1>9, GoStep

LEMMA InsertLineStep ==
  ASSUME ReceiveLocksAssumption, LocksInv, NEW t \in Tx, InsertLine(t)
  PROVE  Sound(t)
<1>1. TxOK(t) /\ tx[t].pc = "insert" /\ (\A r \in Needs(t) : Free(t, r))
  BY AtFree DEF LocksInv, InsertLine
<1>2. /\ tx[t].kind = "AddLine" /\ tx[t].plan = {}
      /\ Needs(t) = {<<"line", tx[t].line>>} /\ Needs(t) \subseteq Resource
  <2>1. tx[t].kind = "AddLine"
    BY <1>1, KindAt
  <2>2. Needs(t) = {<<"line", tx[t].line>>}
    BY <1>1, NeedsAt
  <2>3. tx[t].plan = {}
    BY <1>1 DEF TxOK, PlanOK, Planned
  <2> QED
    BY <2>1, <2>2, <2>3, Arguments, Resources
<1>3. CASE tx[t].line \in lines
  BY <1>3, RollbackStep DEF InsertLine
<1>4. CASE tx[t].line \notin lines
  <2>1. Lock(t, {}, Needs(t)) /\ Goto(t, "commit") /\ UNCHANGED Tables
    BY <1>4 DEF InsertLine
  <2>9. Fits(t, "commit", {}, Needs(t))
    BY <1>1, <1>2, <2>1 DEF Fits, MayLock, Statements, Planned, PastReceipt, PastLine
  <2> QED
    BY <1>1, <1>2, <2>1, <2>9, GoStep
<1> QED
  BY <1>3, <1>4

LEMMA LockLineStep ==
  ASSUME ReceiveLocksAssumption, LocksInv, NEW t \in Tx, LockLine(t)
  PROVE  Sound(t)
<1>1. TxOK(t) /\ tx[t].pc = "line" /\ (\A r \in Needs(t) : Free(t, r))
  BY AtFree DEF LocksInv, LockLine
<1>2. /\ tx[t].kind \in {"Cancel", "DeleteLine"} /\ tx[t].plan = {}
      /\ Needs(t) = {<<"line", tx[t].line>>} /\ Needs(t) \subseteq Resource
  <2>1. tx[t].kind \in {"Cancel", "DeleteLine"}
    BY <1>1, KindAt
  <2>2. Needs(t) = {<<"line", tx[t].line>>}
    BY <1>1, NeedsAt
  <2>3. tx[t].plan = {}
    BY <1>1 DEF TxOK, PlanOK, Planned
  <2> QED
    BY <2>1, <2>2, <2>3, Arguments, Resources
<1> DEFINE gone == tx[t].line \notin lines
                   \/ (tx[t].kind = "DeleteLine" /\ \E r \in receipts : r.line = tx[t].line)
<1>3. CASE gone
  BY <1>3, RollbackStep DEF LockLine
<1>4. CASE ~gone /\ tx[t].kind = "Cancel"
  <2>1. Lock(t, Needs(t), {}) /\ Goto(t, "write") /\ UNCHANGED Tables
    BY <1>4, Locking DEF LockLine
  <2> HIDE DEF gone
  <2>9. Fits(t, "write", Needs(t), {})
    BY <1>1, <1>2, <1>4, <2>1 DEF Fits, MayLock, Statements, Planned, PastReceipt, PastLine
  <2> QED
    BY <1>1, <1>2, <1>4, <2>1, <2>9, GoStep
<1>5. CASE ~gone /\ tx[t].kind = "DeleteLine"
  <2>1. Lock(t, Needs(t), Needs(t)) /\ Goto(t, "commit") /\ UNCHANGED Tables
    BY <1>5 DEF LockLine
  <2>2. \A r \in receipts : r.line # tx[t].line
    BY <1>5
  <2> HIDE DEF gone
  <2>9. Fits(t, "commit", Needs(t), Needs(t))
    BY <1>1, <1>2, <1>5, <2>1, <2>2 DEF Fits, MayLock, Statements, Planned, PastReceipt, PastLine
  <2> QED
    BY <1>1, <1>2, <1>5, <2>1, <2>2, <2>9, GoStep
<1> QED
  BY <1>2, <1>3, <1>4, <1>5

-----------------------------------------------------------------------------
(* The auto-close loop.                                                    *)
LEMMA AutoCloseNextStep ==
  ASSUME ReceiveLocksAssumption, LocksInv, NEW t \in Tx, AutoCloseNext(t)
  PROVE  Sound(t)
<1>1. Types /\ TxOK(t) /\ tx[t].pc = "header"
  BY AtFree DEF LocksInv, AutoCloseNext
<1>2. tx[t].kind = "Receive"
  BY <1>1, KindAt
<1>3. UNCHANGED <<Tables, owner, exclusive>>
  BY DEF AutoCloseNext
<1>4. CASE tx[t].todo = {}
  <2>1. Lock(t, {}, {})
    BY <1>1, <1>3 DEF Lock, Types
  <2>2. Goto(t, "commit") /\ UNCHANGED Tables
    BY <1>3, <1>4 DEF AutoCloseNext
  <2>3. Fits(t, "commit", {}, {})
    BY <1>2, <1>1 DEF Fits, MayLock, Statements, Planned
  <2> QED
    BY <2>1, <2>2, <2>3, GoStep
<1>5. CASE tx[t].todo # {}
  <2>1. PICK o \in tx[t].todo :
          tx' = [tx EXCEPT ![t].pc = "autoclose", ![t].po = o, ![t].todo = @ \ {o}]
    BY <1>5 DEF AutoCloseNext
  <2>2. /\ tx' = [u \in Tx |-> tx'[u]]
        /\ \A u \in Tx : tx'[u] = [f \in Fields |-> tx'[u][f]]
        /\ \A u \in Tx \ {t} : tx'[u] = tx[u]
    BY <1>1, <2>1 DEF Types, Fields
  <2>3. /\ tx'[t].pc = "autoclose" /\ tx'[t].po = o /\ tx'[t].todo = tx[t].todo \ {o}
        /\ tx'[t].kind = tx[t].kind /\ tx'[t].pull = tx[t].pull /\ tx'[t].item = tx[t].item
        /\ tx'[t].qty = tx[t].qty /\ tx'[t].serial = tx[t].serial
        /\ tx'[t].plan = tx[t].plan /\ tx'[t].closes = tx[t].closes
    BY <1>1, <2>1 DEF Types, Fields
  <2>4. Types'
    BY <1>1, <1>3, <2>2 DEF Types, Tables
  <2>5. \A u \in Tx \ {t} : Kept(u)
    BY <1>3, <2>2 DEF Kept
  <2>6. OpOK(t)'
    BY <1>1, <1>2, <1>3, <2>3 DEF TxOK, OpOK, Statements, Planned, Tables
  <2>7. IdleOK(t)' /\ CancelOK(t)' /\ LineOK(t)'
    BY <1>2, <2>3 DEF IdleOK, CancelOK, LineOK
  <2>8. PlanOK(t)'
    BY <1>1, <1>2, <1>3, <2>3 DEF TxOK, PlanOK, Planned, Tables, Remaining
  <2>9. HeaderOK(t)'
    BY <1>1, <1>2, <1>3, <2>3 DEF TxOK, HeaderOK, Planned
  <2> QED
    BY <1>2, <1>3, <2>3, <2>4, <2>5, <2>6, <2>7, <2>8, <2>9, StepFrame DEF TxOK, Tables
<1> QED
  BY <1>4, <1>5

(* A record of a transaction in which one field is set.                    *)
Shaped(m) == m = [u \in Tx |-> m[u]] /\ \A u \in Tx : m[u] = [f \in Fields |-> m[u][f]]

SetsPc(m, n, t, v) == n = [m EXCEPT ![t].pc = v]
SetsCloses(m, n, t, v) == n = [m EXCEPT ![t].closes = v]

LEMMA SetPc ==
  ASSUME NEW m, Shaped(m), NEW t \in Tx, NEW v, NEW n, SetsPc(m, n, t, v)
  PROVE  Shaped(n) /\ n[t].pc = v /\ \A f \in Fields \ {"pc"} : n[t][f] = m[t][f]
BY DEF Shaped, Fields, SetsPc

LEMMA SetCloses ==
  ASSUME NEW m, Shaped(m), NEW t \in Tx, NEW v, NEW n, SetsCloses(m, n, t, v)
  PROVE  n[t].closes = v /\ \A f \in Fields \ {"closes"} : n[t][f] = m[t][f]
BY DEF Shaped, Fields, SetsCloses

SetsTwo(m, n, t, pc, c) == n = [m EXCEPT ![t].pc = pc, ![t].closes = c]

LEMMA Closes ==
  ASSUME NEW m, Shaped(m), NEW t \in Tx, NEW pc, NEW c, NEW n,
         SetsTwo(m, n, t, pc, c)
  PROVE  /\ n[t].pc = pc /\ n[t].closes = c /\ n[t].todo = m[t].todo
         /\ n[t].kind = m[t].kind /\ n[t].pull = m[t].pull /\ n[t].item = m[t].item
         /\ n[t].qty = m[t].qty /\ n[t].serial = m[t].serial /\ n[t].plan = m[t].plan
<1>1. PICK mid : SetsPc(m, mid, t, pc)
  BY DEF SetsPc
<1>2. SetsCloses(mid, n, t, c)
  BY <1>1 DEF SetsTwo, SetsPc, SetsCloses
<1>3. Shaped(mid) /\ mid[t].pc = pc /\ \A f \in Fields \ {"pc"} : mid[t][f] = m[t][f]
  BY <1>1, SetPc
<1>4. Shaped(mid)
  BY <1>3
<1>5. n[t].closes = c /\ \A f \in Fields \ {"closes"} : n[t][f] = mid[t][f]
  BY <1>2, <1>4, SetCloses
<1> QED
  BY <1>3, <1>5 DEF Fields

LEMMA AutoCloseStep ==
  ASSUME ReceiveLocksAssumption, LocksInv, NEW t \in Tx, AutoClose(t)
  PROVE  Sound(t)
<1> PICK o : o = tx[t].po
  OBVIOUS
<1> DEFINE full == header[o].status = "open" /\ \A l \in LinesOf(o) : ~Short(t, l)
<1>1. Types /\ LocksTyped /\ TxOK(t) /\ tx[t].pc = "check"
  BY AtFree DEF LocksInv, Types, LocksTyped, AutoClose
<1>2. tx[t].kind = "Receive" /\ o \in Po /\ <<"po", o>> \in Resource
  BY <1>1, KindAt, Arguments, Resources
<1>3. owner[<<"po", o>>] = t /\ o \notin tx[t].todo \cup tx[t].closes /\ <<"po", o>> \notin exclusive
  BY <1>1, <1>2 DEF TxOK, HeaderOK
<1>4. CASE full
  <2>1. /\ Lock(t, {}, {<<"po", o>>}) /\ UNCHANGED Tables
        /\ tx' = [tx EXCEPT ![t].pc = "header", ![t].closes = tx[t].closes \cup {o}]
    BY <1>4 DEF AutoClose
  <2>2. /\ tx' = [u \in Tx |-> tx'[u]]
        /\ \A u \in Tx : tx'[u] = [f \in Fields |-> tx'[u][f]]
        /\ \A u \in Tx \ {t} : tx'[u] = tx[u]
    BY <1>1, <2>1 DEF Types, Fields
  <2> HIDE DEF full
  <2> PICK c : c = tx[t].closes \cup {o}
    OBVIOUS
  <2>13. tx' = [tx EXCEPT ![t].pc = "header", ![t].closes = c]
    BY <2>1
  <2>3. /\ tx'[t].pc = "header" /\ tx'[t].closes = tx[t].closes \cup {o} /\ tx'[t].todo = tx[t].todo
        /\ tx'[t].kind = tx[t].kind /\ tx'[t].pull = tx[t].pull /\ tx'[t].item = tx[t].item
        /\ tx'[t].qty = tx[t].qty /\ tx'[t].serial = tx[t].serial /\ tx'[t].plan = tx[t].plan
    <3>1. Shaped(tx)
      BY <1>1 DEF Types, Shaped
    <3>2. SetsTwo(tx, tx', t, "header", c)
      BY <2>13 DEF SetsTwo
    <3> QED
      BY <3>1, <3>2, Closes
  <2>4. /\ {} \subseteq Resource /\ {<<"po", o>>} \subseteq Resource
        /\ \A r \in {} \cup {<<"po", o>>} : Free(t, r)
    BY <1>2, <1>3 DEF Free
  <2>5. /\ LocksTyped'
        /\ \A r \in Resource : owner'[r] = t <=> owner[r] = t \/ r \in {} \cup {<<"po", o>>}
        /\ exclusive' = exclusive \cup {<<"po", o>>}
        /\ \A u \in Tx \ {t} : Kept(u)
    <3>1. MayLock(t, {}, {<<"po", o>>}) /\ OthersWait(t)
      BY <2>2, <2>4 DEF MayLock, OthersWait
    <3>2. Locked(t, {}, {<<"po", o>>})
      BY <1>1, <2>1, <3>1, LockFrame
    <3> QED
      BY <3>2 DEF Locked
  <2>6. Types'
    BY <1>1, <2>1, <2>2, <2>5 DEF Types, LocksTyped, Tables
  <2>7. OpOK(t)'
    <3>1. /\ tx[t].pull \in Pull /\ tx[t].item \in Item /\ tx[t].qty \in 1 .. MaxQty
          /\ tx[t].serial \in 1 .. begun' /\ tx[t].todo \subseteq Po
      BY <1>1, <1>2, <2>1 DEF TxOK, OpOK, Tables
    <3> QED
      BY <1>2, <3>1, <2>3 DEF OpOK, Statements, Planned, Kinds
  <2>8. IdleOK(t)' /\ CancelOK(t)' /\ LineOK(t)'
    BY <1>2, <2>3 DEF IdleOK, CancelOK, LineOK
  <2>9. PlanOK(t)'
    BY <1>1, <1>2, <2>1, <2>3, <2>5, Resources DEF TxOK, PlanOK, Planned, Tables, Remaining, Types
  <2>10. HeaderOK(t)'
    BY <1>1, <1>2, <1>3, <2>1, <2>3, <2>5, Resources DEF TxOK, HeaderOK, Planned
  <2> QED
    BY <1>2, <2>1, <2>3, <2>5, <2>6, <2>7, <2>8, <2>9, <2>10, StepFrame DEF TxOK, Tables
<1>5. CASE ~full
  <2>1. /\ owner' = [owner EXCEPT ![<<"po", o>>] = NoTx]
        /\ Goto(t, "header") /\ UNCHANGED exclusive /\ UNCHANGED Tables
    BY <1>5 DEF AutoClose
  <2>2. /\ tx' = [u \in Tx |-> tx'[u]]
        /\ \A u \in Tx : tx'[u] = [f \in Fields |-> tx'[u][f]]
        /\ tx'[t].pc = "header"
        /\ \A u \in Tx \ {t} : tx'[u] = tx[u]
    BY <1>1, <2>1, Goes
  <2>3. /\ tx'[t].closes = tx[t].closes /\ tx'[t].todo = tx[t].todo
        /\ tx'[t].kind = tx[t].kind /\ tx'[t].pull = tx[t].pull /\ tx'[t].item = tx[t].item
        /\ tx'[t].qty = tx[t].qty /\ tx'[t].serial = tx[t].serial /\ tx'[t].plan = tx[t].plan
    BY <1>1, <2>1, Goes DEF Fields
  <2>4. \A r \in Resource : owner'[r] = IF r = <<"po", o>> THEN NoTx ELSE owner[r]
    BY <1>1, <2>1 DEF Types
  <2>5. t # NoTx /\ NoTx \notin Tx
    BY DEF ReceiveLocksAssumption
  <2>6. LocksTyped'
    BY <1>1, <1>3, <2>1, <2>4 DEF LocksTyped
  <2>7. \A u \in Tx \ {t} : Kept(u)
    BY <1>3, <2>1, <2>2, <2>4, <2>5 DEF Kept
  <2>8. Types'
    BY <1>1, <2>1, <2>2, <2>6 DEF Types, LocksTyped, Tables
  <2>9. OpOK(t)'
    BY <1>1, <1>2, <2>1, <2>2, <2>3 DEF TxOK, OpOK, Statements, Planned, Tables
  <2>10. IdleOK(t)' /\ CancelOK(t)' /\ LineOK(t)'
    BY <1>2, <2>2, <2>3 DEF IdleOK, CancelOK, LineOK
  <2>11. PlanOK(t)'
    BY <1>1, <1>2, <2>1, <2>2, <2>3, <2>4, Resources DEF TxOK, PlanOK, Planned, Tables, Remaining, Types
  <2>12. HeaderOK(t)'
    BY <1>1, <1>2, <1>3, <2>1, <2>2, <2>3, <2>4, <2>5, Resources DEF TxOK, HeaderOK, Planned
  <2> QED
    BY <1>2, <2>1, <2>3, <2>7, <2>8, <2>9, <2>10, <2>11, <2>12, StepFrame DEF TxOK, Tables
<1> QED
  BY <1>4, <1>5

-----------------------------------------------------------------------------
(* The plan: what a slice is, for every item and quantity.                 *)
LEMMA PiecesType ==
  ASSUME ReceiveLocksAssumption, Types, NEW L \in SUBSET LineId
  PROVE  PiecesOn(L) \in Nat
<1>1. IsFiniteSet(L)
  BY FS_Subset DEF ReceiveLocksAssumption
<1>2. \A l \in L : [k \in LineId |-> Remaining(k)][l] \in Int
  BY DEF ReceiveLocksAssumption, Types, Remaining
<1> QED
  BY <1>1, <1>2, SumType DEF PiecesOn

LEMMA PlanFits ==
  ASSUME ReceiveLocksAssumption, Types, NEW i, NEW q \in Nat
  PROVE  \A s \in Plan(i, q) :
            /\ s.line \in lines /\ s.line \in LineId /\ Line[s.line].item = i
            /\ s.take \in Nat /\ s.take =< Remaining(s.line)
            /\ \A s2 \in Plan(i, q) : s2.line = s.line => s2 = s
<1> SUFFICES ASSUME NEW s \in Plan(i, q)
             PROVE  /\ s.line \in lines /\ s.line \in LineId /\ Line[s.line].item = i
                    /\ s.take \in Nat /\ s.take =< Remaining(s.line)
                    /\ \A s2 \in Plan(i, q) : s2.line = s.line => s2 = s
  OBVIOUS
<1>1. \A r \in Plan(i, q) : /\ r \in [line : Candidates(i), take : 1 .. MaxQty]
                            /\ r.take = Drawn(r.line, i, q)
  BY DEF Plan
<1>2. /\ s.line \in lines /\ s.line \in LineId /\ Line[s.line].item = i
      /\ Remaining(s.line) > 0 /\ Remaining(s.line) \in Int
  BY <1>1 DEF Candidates, LinesFor, Types, Remaining, ReceiveLocksAssumption
<1>3. s.take \in Nat /\ s.take = Drawn(s.line, i, q)
  BY <1>1 DEF ReceiveLocksAssumption
<1>4. s.take =< Remaining(s.line)
  <2> DEFINE ahead == PiecesOn({k \in Candidates(i) : Precedes(k, s.line)})
  <2>1. {k \in Candidates(i) : Precedes(k, s.line)} \in SUBSET LineId
    BY DEF Candidates, LinesFor, Types
  <2>2. ahead \in Nat
    BY <2>1, PiecesType
  <2>3. s.take = Greatest(0, Least(Remaining(s.line), q - ahead))
    BY <1>3 DEF Drawn
  <2> HIDE DEF ahead
  <2> QED
    BY <1>2, <2>2, <2>3 DEF Greatest, Least
<1>5. \A s2 \in Plan(i, q) : s2.line = s.line => s2 = s
  <2>1. \A s2 \in Plan(i, q) : s2.line = s.line => s2.take = s.take
    BY <1>1
  <2> QED
    BY <1>1, <2>1
<1> QED
  BY <1>2, <1>3, <1>4, <1>5

LEMMA ReadOpenPoLinesStep ==
  ASSUME ReceiveLocksAssumption, LocksInv, NEW t \in Tx, ReadOpenPoLines(t)
  PROVE  Sound(t)
<1>1. /\ Types /\ LocksTyped /\ TxOK(t) /\ tx[t].pc = "lines"
      /\ \A r \in Needs(t) : Free(t, r)
  BY AtFree DEF LocksInv, Types, LocksTyped, ReadOpenPoLines
<1>2. tx[t].kind = "Receive" /\ tx[t].qty \in Nat
  BY <1>1, KindAt DEF TxOK, OpOK
<1>3. /\ Needs(t) = {<<"line", l>> : l \in {k \in LineId : Line[k].item = tx[t].item}}
      /\ Needs(t) \subseteq Resource
  <2>1. Needs(t) = {<<"line", l>> : l \in {k \in LineId : Line[k].item = tx[t].item}}
    BY <1>1, NeedsAt DEF Hinted
  <2> QED
    BY <2>1, Resources
<1>4. CASE Available(tx[t].item) < tx[t].qty
  BY <1>4, RollbackStep DEF ReadOpenPoLines
<1>5. CASE ~(Available(tx[t].item) < tx[t].qty)
  <2> PICK plan : plan = Plan(tx[t].item, tx[t].qty)
    OBVIOUS
  <2> PICK todo : todo = {Line[s.line].po : s \in plan}
    OBVIOUS
  <2>1. /\ Lock(t, Needs(t), {}) /\ UNCHANGED Tables
        /\ tx' = [tx EXCEPT ![t].pc = "write", ![t].plan = plan, ![t].todo = todo]
    BY <1>5 DEF ReadOpenPoLines
  <2>2. /\ tx' = [u \in Tx |-> tx'[u]]
        /\ \A u \in Tx : tx'[u] = [f \in Fields |-> tx'[u][f]]
        /\ \A u \in Tx \ {t} : tx'[u] = tx[u]
    BY <1>1, <2>1 DEF Types, Fields
  <2>3. /\ tx'[t].pc = "write" /\ tx'[t].plan = plan /\ tx'[t].todo = todo
        /\ tx'[t].kind = tx[t].kind /\ tx'[t].pull = tx[t].pull /\ tx'[t].item = tx[t].item
        /\ tx'[t].qty = tx[t].qty /\ tx'[t].serial = tx[t].serial /\ tx'[t].closes = tx[t].closes
    BY <1>1, <2>1 DEF Types, Fields
  <2>4. Locked(t, Needs(t), {})
    <3>1. MayLock(t, Needs(t), {}) /\ OthersWait(t)
      BY <1>1, <1>3, <2>2 DEF MayLock, OthersWait
    <3> QED
      BY <1>1, <2>1, <3>1, LockFrame
  <2>5. Types'
    BY <1>1, <2>1, <2>2, <2>4 DEF Types, Locked, LocksTyped, Tables
  <2>6. /\ \A s \in plan : /\ s.line \in lines /\ s.line \in LineId
                           /\ <<"line", s.line>> \in Needs(t)
                           /\ s.take \in Nat /\ s.take =< Remaining(s.line)
                           /\ \A s2 \in plan : s2.line = s.line => s2 = s
        /\ todo \subseteq Po
    <3>1. \A s \in plan : /\ s.line \in lines /\ s.line \in LineId /\ Line[s.line].item = tx[t].item
                           /\ s.take \in Nat /\ s.take =< Remaining(s.line)
                           /\ \A s2 \in plan : s2.line = s.line => s2 = s
      BY <1>1, <1>2, PlanFits
    <3>2. todo \subseteq Po
      BY <3>1 DEF ReceiveLocksAssumption
    <3>3. \A l \in LineId : Line[l].item = tx[t].item => <<"line", l>> \in Needs(t)
      BY <1>3
    <3> QED
      BY <3>1, <3>2, <3>3
  <2>7. OpOK(t)'
    <3>1. /\ tx[t].pull \in Pull /\ tx[t].item \in Item /\ tx[t].qty \in 1 .. MaxQty
          /\ tx[t].serial \in 1 .. begun'
      BY <1>1, <1>2, <2>1 DEF TxOK, OpOK, Tables
    <3> QED
      BY <1>2, <2>3, <2>6, <3>1 DEF OpOK, Statements, Planned, Kinds
  <2>8. IdleOK(t)' /\ CancelOK(t)' /\ LineOK(t)'
    BY <1>2, <2>3 DEF IdleOK, CancelOK, LineOK
  <2>9. PlanOK(t)'
    <3>1. \A s \in plan : owner'[<<"line", s.line>>] = t
      BY <2>4, <2>6, Resources DEF Locked
    <3> QED
      BY <1>2, <2>1, <2>3, <2>6, <3>1 DEF PlanOK, Planned, Tables, Remaining
  <2>10. HeaderOK(t)'
    <3>1. tx[t].closes = {}
      BY <1>1 DEF TxOK, HeaderOK, Planned
    <3>2. exclusive' = exclusive
      BY <2>4 DEF Locked
    <3>3. \A o \in Po : owner'[<<"po", o>>] = t => owner[<<"po", o>>] = t
      BY <1>3, <2>4, Resources DEF Locked
    <3> QED
      BY <1>1, <1>2, <2>3, <3>1, <3>2, <3>3 DEF TxOK, HeaderOK
  <2> QED
    BY <1>2, <2>1, <2>3, <2>4, <2>5, <2>7, <2>8, <2>9, <2>10, StepFrame DEF TxOK, Tables, Locked
<1> QED
  BY <1>4, <1>5

-----------------------------------------------------------------------------
(* A call.                                                                 *)
Begun(t) ==
    /\ tx'[t].kind \in Kind /\ tx'[t].pc \in {"pull", "receipt", "po", "line"}
    /\ tx'[t].kind = "Cancel" => tx'[t].pc = "receipt"
    /\ tx'[t].plan = {} /\ tx'[t].closes = {}
    /\ UNCHANGED <<lines, taken, header, receipts, owner, exclusive>>

LEMMA BeginStep ==
  ASSUME ReceiveLocksAssumption, LocksInv, NEW t \in Tx, NEW op, NEW first,
         Begin(t, op, first), op = [f \in Fields |-> op[f]],
         op.plan = {}, op.todo = {}, op.closes = {},
         op.kind \in Kinds, first \in Statements(op.kind),
         first \in {"pull", "receipt", "po", "line"},
         op.kind = "Receive" =>
            /\ op.pull \in Pull /\ op.item \in Item /\ op.qty \in 1 .. MaxQty
            /\ op.serial = begun + 1,
         op.kind = "Cancel" =>
            /\ first = "receipt"
            /\ op.pull \in Pull /\ op.line \in LineId /\ op.po = Line[op.line].po
            /\ \E r \in receipts : r.id = op.receipt /\ r.line = op.line,
         op.kind \in {"ClosePo", "UpdatePo", "AddLine"} => first = "po",
         op.kind \in {"ClosePo", "UpdatePo"} => op.po \in Po,
         op.kind \in {"AddLine", "DeleteLine"} => op.line \in LineId /\ op.po = Line[op.line].po
  PROVE  Sound(t) /\ Begun(t)
<1>1. /\ Types /\ TxOK(t) /\ tx[t].pc = "idle" /\ begun' = begun + 1 /\ begun < MaxBegin
      /\ UNCHANGED <<lines, taken, receipts, owner, exclusive>>
  BY DEF LocksInv, Begin
<1>2. PICK x : x = [op EXCEPT !.pc = first]
  OBVIOUS
<1>3. x = [f \in Fields |-> x[f]] /\ x.pc = first /\ \A f \in Fields \ {"pc"} : x[f] = op[f]
  BY <1>2 DEF Fields
<1>4. tx' = [tx EXCEPT ![t] = x]
  BY <1>2 DEF Begin
<1>5. /\ tx' = [u \in Tx |-> tx'[u]]
      /\ \A u \in Tx : tx'[u] = [f \in Fields |-> tx'[u][f]]
      /\ tx'[t] = x
      /\ \A u \in Tx \ {t} : tx'[u] = tx[u]
  <2>1. tx'[t] = x /\ \A u \in Tx \ {t} : tx'[u] = tx[u]
    BY <1>1, <1>4 DEF Types
  <2>2. tx' = [u \in Tx |-> tx'[u]]
    BY <1>1, <1>4 DEF Types
  <2> QED
    BY <1>1, <1>3, <2>1, <2>2 DEF Types
<1>6. /\ tx'[t].pc = first /\ tx'[t].kind = op.kind /\ tx'[t].pull = op.pull /\ tx'[t].item = op.item
      /\ tx'[t].qty = op.qty /\ tx'[t].po = op.po /\ tx'[t].line = op.line
      /\ tx'[t].serial = op.serial /\ tx'[t].receipt = op.receipt
      /\ tx'[t].plan = {} /\ tx'[t].todo = {} /\ tx'[t].closes = {}
  BY <1>3, <1>5 DEF Fields
<1>7. Types'
  BY <1>1, <1>5 DEF Types, ReceiveLocksAssumption
<1>8. \A u \in Tx \ {t} : Kept(u)
  BY <1>1, <1>5 DEF Kept
<1>9. OpOK(t)'
  <2>1. begun \in Nat /\ receipts' = receipts /\ begun' = begun + 1
    BY <1>1 DEF Types
  <2> QED
    BY <1>6, <2>1 DEF OpOK, Kinds
<1>10. IdleOK(t)' /\ PlanOK(t)' /\ CancelOK(t)' /\ LineOK(t)'
  BY <1>6 DEF IdleOK, PlanOK, CancelOK, LineOK, PastReceipt, PastLine
<1>11. HeaderOK(t)'
  BY <1>1, <1>6, Resources DEF TxOK, HeaderOK, IdleOK
<1>12. \A u \in Tx \ {t} : TxOK(u)'
  BY <1>1, <1>8, OtherStays, TablesStay DEF LocksInv, Types
<1>13. ReceiptsOK'
  <2>1. begun \in Nat
    BY <1>1 DEF Types
  <2>2. \A r \in receipts : r.id[1] =< begun /\ r.id[1] \in Nat
    BY DEF LocksInv, ReceiptsOK, ReceiptId, ReceiveLocksAssumption
  <2> QED
    BY <1>1, <2>1, <2>2 DEF LocksInv, ReceiptsOK
<1>14. SerialsOK'
  <2>1. begun \in Nat
    BY <1>1 DEF Types
  <2>2. \A r \in receipts : r.id[1] # begun + 1
    BY <2>1 DEF LocksInv, ReceiptsOK, ReceiptId, ReceiveLocksAssumption
  <2>3. \A u \in Tx : tx[u].kind = "Receive" => tx[u].serial # begun + 1
    BY <2>1 DEF LocksInv, TxOK, OpOK
  <2> QED
    BY <1>1, <1>5, <1>6, <2>2, <2>3 DEF LocksInv, SerialsOK
<1>15. LedgerBalances'
  BY <1>1 DEF LocksInv, LedgerBalances
<1> QED
  <2>1. Sound(t)
    BY <1>7, <1>8, <1>9, <1>10, <1>11, <1>12, <1>13, <1>14, <1>15 DEF LocksInv, TxOK, Sound
  <2>2. Begun(t)
    BY <1>1, <1>6 DEF Begun, Begin
  <2> QED
    BY <2>1, <2>2

(* The operations are called with what is there.                           *)
LEMMA CallStep ==
  ASSUME ReceiveLocksAssumption, LocksInv, NEW t \in Tx, Call(t)
  PROVE  Sound(t) /\ Begun(t)
<1>1. begun \in Nat /\ lines \subseteq LineId
  BY DEF LocksInv, Types
<1>2. ASSUME NEW p \in Pull, NEW i \in Item, NEW q \in 1 .. MaxQty,
             Begin(t, [Idle EXCEPT !.kind = "Receive", !.pull = p, !.item = i, !.qty = q, !.serial = begun + 1], "pull")
      PROVE  Sound(t) /\ Begun(t)
  <2> PICK op : op = [Idle EXCEPT !.kind = "Receive", !.pull = p, !.item = i, !.qty = q, !.serial = begun + 1]
    OBVIOUS
  <2>1. /\ op = [f \in Fields |-> op[f]]
        /\ op.plan = {} /\ op.todo = {} /\ op.closes = {}
        /\ op.kind = "Receive" /\ op.pull = p /\ op.item = i /\ op.qty = q /\ op.serial = begun + 1
    BY DEF Idle, Fields
  <2>2. Begin(t, op, "pull")
    BY <1>2
  <2> QED
    BY <2>1, <2>2, BeginStep DEF Statements, Kinds
<1>3. ASSUME NEW r \in receipts,
             Begin(t, [Idle EXCEPT !.kind = "Cancel", !.pull = r.pull, !.receipt = r.id, !.line = r.line,
                                   !.po = Line[r.line].po], "receipt")
      PROVE  Sound(t) /\ Begun(t)
  <2> PICK op : op = [Idle EXCEPT !.kind = "Cancel", !.pull = r.pull, !.receipt = r.id, !.line = r.line,
                                  !.po = Line[r.line].po]
    OBVIOUS
  <2>1. /\ op = [f \in Fields |-> op[f]]
        /\ op.plan = {} /\ op.todo = {} /\ op.closes = {}
        /\ op.kind = "Cancel" /\ op.pull = r.pull /\ op.receipt = r.id /\ op.line = r.line
        /\ op.po = Line[r.line].po
    BY DEF Idle, Fields
  <2>2. Begin(t, op, "receipt")
    BY <1>3
  <2>3. r.pull \in Pull /\ r.line \in LineId
    BY <1>1 DEF LocksInv, ReceiptsOK
  <2> QED
    BY <2>1, <2>2, <2>3, BeginStep DEF Statements, Kinds
<1>4. ASSUME NEW o \in Po, Begin(t, [Idle EXCEPT !.kind = "ClosePo", !.po = o], "po")
      PROVE  Sound(t) /\ Begun(t)
  <2> PICK op : op = [Idle EXCEPT !.kind = "ClosePo", !.po = o]
    OBVIOUS
  <2>1. /\ op = [f \in Fields |-> op[f]]
        /\ op.plan = {} /\ op.todo = {} /\ op.closes = {}
        /\ op.kind = "ClosePo" /\ op.po = o
    BY DEF Idle, Fields
  <2>2. Begin(t, op, "po")
    BY <1>4
  <2> QED
    BY <2>1, <2>2, BeginStep DEF Statements, Kinds
<1>5. ASSUME NEW o \in Po, NEW d \in 0 .. MaxDate,
             Begin(t, [Idle EXCEPT !.kind = "UpdatePo", !.po = o, !.date = d], "po")
      PROVE  Sound(t) /\ Begun(t)
  <2> PICK op : op = [Idle EXCEPT !.kind = "UpdatePo", !.po = o, !.date = d]
    OBVIOUS
  <2>1. /\ op = [f \in Fields |-> op[f]]
        /\ op.plan = {} /\ op.todo = {} /\ op.closes = {}
        /\ op.kind = "UpdatePo" /\ op.po = o
    BY DEF Idle, Fields
  <2>2. Begin(t, op, "po")
    BY <1>5
  <2> QED
    BY <2>1, <2>2, BeginStep DEF Statements, Kinds
<1>6. ASSUME NEW l \in LineId \ lines,
             Begin(t, [Idle EXCEPT !.kind = "AddLine", !.po = Line[l].po, !.line = l], "po")
      PROVE  Sound(t) /\ Begun(t)
  <2> PICK op : op = [Idle EXCEPT !.kind = "AddLine", !.po = Line[l].po, !.line = l]
    OBVIOUS
  <2>1. /\ op = [f \in Fields |-> op[f]]
        /\ op.plan = {} /\ op.todo = {} /\ op.closes = {}
        /\ op.kind = "AddLine" /\ op.line = l /\ op.po = Line[l].po
    BY DEF Idle, Fields
  <2>2. Begin(t, op, "po")
    BY <1>6
  <2> QED
    BY <2>1, <2>2, BeginStep DEF Statements, Kinds
<1>7. ASSUME NEW l \in lines,
             Begin(t, [Idle EXCEPT !.kind = "DeleteLine", !.line = l, !.po = Line[l].po], "line")
      PROVE  Sound(t) /\ Begun(t)
  <2> PICK op : op = [Idle EXCEPT !.kind = "DeleteLine", !.line = l, !.po = Line[l].po]
    OBVIOUS
  <2>1. /\ op = [f \in Fields |-> op[f]]
        /\ op.plan = {} /\ op.todo = {} /\ op.closes = {}
        /\ op.kind = "DeleteLine" /\ op.line = l /\ op.po = Line[l].po
    BY DEF Idle, Fields
  <2>2. Begin(t, op, "line")
    BY <1>7
  <2> QED
    BY <1>1, <2>1, <2>2, BeginStep DEF Statements, Kinds
<1> QED
  BY <1>2, <1>3, <1>4, <1>5, <1>6, <1>7 DEF Call

-----------------------------------------------------------------------------
(* The commits.                                                            *)
LEMMA CommitLineStep ==
  ASSUME ReceiveLocksAssumption, LocksInv, NEW t \in Tx, CommitLine(t)
  PROVE  Sound(t)
<1>1. /\ Types /\ TxOK(t) /\ tx[t].pc = "commit" /\ tx[t].kind \in {"AddLine", "DeleteLine"}
      /\ UNCHANGED <<taken, header, receipts, begun>>
  BY AtFree DEF LocksInv, CommitLine
<1>2. tx[t].line \in LineId
  BY <1>1, Arguments
<1>3. lines \ {tx[t].line} \subseteq lines' /\ lines' \subseteq LineId
  BY <1>1, <1>2 DEF CommitLine, Types
<1>4. tx[t].kind = "AddLine" => lines \subseteq lines'
  BY DEF CommitLine
<1>5. owner[<<"line", tx[t].line>>] = t
  BY <1>1 DEF TxOK, LineOK
<1>6. \A u \in Tx \ {t} : TablesSuit(u)
  <2> SUFFICES ASSUME NEW u \in Tx \ {t}
               PROVE  TablesSuit(u)
    OBVIOUS
  <2>1. TxOK(u)
    BY DEF LocksInv
  <2>2. \A s \in tx[u].plan : s.line # tx[t].line /\ s.line \in lines
    BY <1>5, <2>1 DEF TxOK, PlanOK
  <2> QED
    BY <1>1, <1>3, <2>1, <2>2 DEF TablesSuit, TxOK, CancelOK, LineOK
<1>7. ReceiptsOK'
  <2>1. \A r \in receipts : r.line \in lines'
    BY <1>1, <1>3, <1>4 DEF LocksInv, ReceiptsOK, TxOK, LineOK
  <2> QED
    BY <1>1, <2>1 DEF LocksInv, ReceiptsOK
<1>8. LedgerBalances'
  BY <1>1 DEF LocksInv, LedgerBalances
<1>9. Release(t) /\ tx' = [tx EXCEPT ![t] = Idle]
  BY DEF CommitLine
<1> QED
  BY <1>1, <1>3, <1>6, <1>7, <1>8, <1>9, EndFrame DEF Types

(* What a receive draws on a line is what its one slice of it takes.       *)
LEMMA TakeIs ==
  ASSUME NEW t \in Tx, TxOK(t)
  PROVE  /\ \A s \in tx[t].plan : TakeOf(t, s.line) = s.take
         /\ \A l : (\A s \in tx[t].plan : s.line # l) => TakeOf(t, l) = 0
<1> DEFINE q == [s \in tx[t].plan |-> s.take]
<1>1. ASSUME NEW s \in tx[t].plan
      PROVE  TakeOf(t, s.line) = s.take
  <2>1. {s2 \in tx[t].plan : s2.line = s.line} = {s}
    BY DEF TxOK, PlanOK
  <2>2. q[s] = s.take /\ s.take \in Nat
    BY DEF TxOK, PlanOK
  <2>3. SumOf({s}, q) = Greatest(0, q[s])
    BY <2>2, SumSingleton
  <2>4. TakeOf(t, s.line) = SumOf({s}, q)
    BY <2>1 DEF TakeOf
  <2> QED
    BY <2>2, <2>3, <2>4 DEF Greatest
<1>2. ASSUME NEW l, \A s \in tx[t].plan : s.line # l
      PROVE  TakeOf(t, l) = 0
  <2>1. {s \in tx[t].plan : s.line = l} = {}
    BY <1>2
  <2> QED
    BY <2>1, SumEmpty DEF TakeOf
<1> QED
  BY <1>1, <1>2

(* There are no more receipts than numbers for them.                       *)
LEMMA ReceiptsFinite ==
  ASSUME ReceiveLocksAssumption, LocksInv
  PROVE  IsFiniteSet(receipts)
<1> DEFINE f == [r \in receipts |-> r.id]
<1>1. f \in Injection(receipts, ReceiptId)
  BY DEF LocksInv, ReceiptsOK, Injection, IsInjective
<1>2. IsFiniteSet(ReceiptId)
  <2>1. IsFiniteSet(1 .. MaxBegin)
    BY FS_Interval DEF ReceiveLocksAssumption
  <2> QED
    BY <2>1, FS_Product DEF ReceiveLocksAssumption, ReceiptId
<1> QED
  BY <1>1, <1>2, FS_Injection

Live(R, l) == {r \in R : r.line = l /\ ~r.voided}
Qty(R) == [r \in R |-> r.qty]

LEMMA LedgerAs ==
  LedgerBalances <=>
      \A l \in LineId : /\ taken[l] \in 0 .. Line[l].ordered
                        /\ taken[l] = SumOf(Live(receipts, l), Qty(receipts))
BY DEF LedgerBalances, Live, Qty

LEMMA CommitReceiveStep ==
  ASSUME ReceiveLocksAssumption, LocksInv, NEW t \in Tx, CommitReceive(t)
  PROVE  Sound(t)
<1> DEFINE Slice(s) == [id |-> <<tx[t].serial, s.line>>, line |-> s.line, qty |-> s.take,
                        pull |-> tx[t].pull, voided |-> FALSE]
           plan == tx[t].plan
<1>1. /\ Types /\ TxOK(t) /\ tx[t].pc = "commit" /\ tx[t].kind = "Receive"
      /\ UNCHANGED <<lines, begun>> /\ Release(t) /\ tx' = [tx EXCEPT ![t] = Idle]
      /\ taken' = [l \in LineId |-> taken[l] + TakeOf(t, l)]
      /\ receipts' = receipts \cup {Slice(s) : s \in plan}
  BY AtFree DEF LocksInv, CommitReceive
<1>2. /\ \A s \in plan : /\ s.line \in lines /\ s.line \in LineId /\ owner[<<"line", s.line>>] = t
                         /\ s.take \in Nat /\ s.take =< Remaining(s.line)
                         /\ TakeOf(t, s.line) = s.take
                         /\ \A s2 \in plan : s2.line = s.line => s2 = s
      /\ \A l \in LineId : (\A s \in plan : s.line # l) => TakeOf(t, l) = 0
  <2>1. \A s \in plan : /\ s.line \in lines /\ owner[<<"line", s.line>>] = t
                        /\ s.take \in Nat /\ s.take =< Remaining(s.line)
                        /\ \A s2 \in plan : s2.line = s.line => s2 = s
    BY <1>1 DEF TxOK, PlanOK
  <2>2. /\ \A s \in plan : TakeOf(t, s.line) = s.take
        /\ \A l : (\A s \in plan : s.line # l) => TakeOf(t, l) = 0
    BY <1>1, TakeIs
  <2> QED
    BY <1>1, <2>1, <2>2 DEF Types
<1>3. /\ tx[t].serial \in 1 .. MaxBegin /\ tx[t].serial =< begun /\ tx[t].pull \in Pull
      /\ \A r \in receipts : r.id[1] # tx[t].serial
  BY <1>1 DEF LocksInv, SerialsOK, TxOK, OpOK, Types, ReceiveLocksAssumption
<1>4. taken' \in [LineId -> Int]
  <2>1. ASSUME NEW l \in LineId
        PROVE  TakeOf(t, l) \in Int
    <3>1. CASE \A s \in plan : s.line # l
      BY <1>2, <3>1
    <3>2. CASE \E s \in plan : s.line = l
      <4>1. PICK s \in plan : s.line = l
        BY <3>2
      <4>2. TakeOf(t, s.line) = s.take /\ s.take \in Nat
        BY <1>2
      <4> QED
        BY <4>1, <4>2
    <3> QED
      BY <3>1, <3>2
  <2>2. \A l \in LineId : taken[l] + TakeOf(t, l) \in Int
    BY <1>1, <2>1 DEF Types
  <2> QED
    BY <1>1, <2>2
<1>5. \A s \in plan : LET n == Slice(s) IN
        /\ n = [f \in ReceiptFields |-> n[f]]
        /\ n.id = <<tx[t].serial, s.line>> /\ n.id \in ReceiptId
        /\ n.id[1] = tx[t].serial /\ n.id[2] = s.line
        /\ n.line = s.line /\ n.qty = s.take /\ n.pull = tx[t].pull /\ n.voided = FALSE
  BY <1>2, <1>3 DEF ReceiptFields, ReceiptId
<1>6. ReceiptsOK'
  <2> SUFFICES ASSUME NEW r \in receipts'
               PROVE  /\ r = [f \in ReceiptFields |-> r[f]]
                      /\ r.id \in ReceiptId /\ r.id[1] =< begun /\ r.id[2] = r.line
                      /\ r.qty \in Nat /\ r.pull \in Pull /\ r.voided \in BOOLEAN /\ r.line \in lines
                      /\ \A r2 \in receipts' : r2.id = r.id => r2 = r
    BY <1>1 DEF ReceiptsOK
  <2>1. CASE r \in receipts
    <3>1. /\ r = [f \in ReceiptFields |-> r[f]]
          /\ r.id \in ReceiptId /\ r.id[1] =< begun /\ r.id[2] = r.line
          /\ r.qty \in Nat /\ r.pull \in Pull /\ r.voided \in BOOLEAN /\ r.line \in lines
          /\ \A r2 \in receipts : r2.id = r.id => r2 = r
      BY <2>1 DEF LocksInv, ReceiptsOK
    <3>2. \A s \in plan : Slice(s).id # r.id
      BY <1>3, <1>5, <2>1
    <3> QED
      BY <1>1, <3>1, <3>2
  <2>2. CASE r \notin receipts
    <3>1. PICK s \in plan : r = Slice(s)
      BY <1>1, <2>2
    <3>2. \A r2 \in receipts : r2.id # r.id
      BY <1>3, <1>5, <3>1
    <3>3. \A s2 \in plan : Slice(s2).id = r.id => s2 = s
      BY <1>2, <1>5, <3>1
    <3>4. \A r2 \in receipts' : r2.id = r.id => r2 = r
      BY <1>1, <3>1, <3>2, <3>3
    <3>5. /\ r = [f \in ReceiptFields |-> r[f]]
          /\ r.id \in ReceiptId /\ r.id[1] =< begun /\ r.id[2] = r.line
          /\ r.qty \in Nat /\ r.pull \in Pull /\ r.voided \in BOOLEAN /\ r.line \in lines
      BY <1>2, <1>3, <1>5, <3>1
    <3> QED
      BY <3>4, <3>5
  <2> QED
    BY <2>1, <2>2
<1>7. \A u \in Tx \ {t} : TablesSuit(u)
  <2> SUFFICES ASSUME NEW u \in Tx \ {t}
               PROVE  TablesSuit(u)
    OBVIOUS
  <2>1. TxOK(u)
    BY DEF LocksInv
  <2>2. \A s \in tx[u].plan : s.line \in lines' /\ taken'[s.line] = taken[s.line]
    <3> SUFFICES ASSUME NEW s \in tx[u].plan
                 PROVE  s.line \in lines' /\ taken'[s.line] = taken[s.line]
      OBVIOUS
    <3>1. s.line \in lines /\ s.line \in LineId /\ owner[<<"line", s.line>>] = u
      BY <1>1, <2>1 DEF TxOK, PlanOK, Types
    <3>2. TakeOf(t, s.line) = 0
      BY <1>2, <3>1
    <3>3. taken'[s.line] = taken[s.line] + TakeOf(t, s.line) /\ taken[s.line] \in Int
      BY <1>1, <3>1 DEF Types
    <3> QED
      BY <1>1, <3>1, <3>2, <3>3
  <2>3. \A r \in receipts' : r \in receipts \/ \E s \in plan : r.voided = FALSE /\ r.line = s.line
    BY <1>1, <1>5
  <2>4. tx[u].kind = "DeleteLine" /\ tx[u].pc = "commit" => \A s \in plan : s.line # tx[u].line
    BY <1>2, <2>1 DEF TxOK, LineOK
  <2>5. receipts \subseteq receipts'
    BY <1>1
  <2> HIDE DEF Slice, plan
  <2> QED
    BY <2>1, <2>2, <2>3, <2>4, <2>5 DEF TablesSuit, TxOK, CancelOK, LineOK
<1>8. LedgerBalances'
  <2> SUFFICES ASSUME NEW l \in LineId
               PROVE  /\ taken'[l] \in 0 .. Line[l].ordered
                      /\ taken'[l] = SumOf(Live(receipts', l), Qty(receipts'))
    BY DEF LedgerBalances, Live, Qty
  <2>1. /\ taken[l] \in 0 .. Line[l].ordered /\ Line[l].ordered \in Nat
        /\ taken[l] = SumOf(Live(receipts, l), Qty(receipts))
    BY LedgerAs DEF LocksInv, ReceiveLocksAssumption
  <2>2. taken'[l] = taken[l] + TakeOf(t, l)
    BY <1>1
  <2>3. /\ IsFiniteSet(Live(receipts, l))
        /\ \A r \in Live(receipts, l) : r \in receipts /\ r.qty \in Nat
    <3>1. Live(receipts, l) \in SUBSET receipts
      BY DEF Live
    <3> QED
      BY <3>1, ReceiptsFinite, FS_Subset DEF LocksInv, ReceiptsOK
  <2>4. SumOf(Live(receipts, l), Qty(receipts)) = SumOf(Live(receipts, l), Qty(receipts'))
    <3>1. \A r \in Live(receipts, l) : Qty(receipts)[r] = Qty(receipts')[r]
      BY <1>1, <2>3 DEF Qty
    <3> QED
      BY <3>1, SumCongruent
  <2>5. CASE \A s \in plan : s.line # l
    <3>1. Live(receipts', l) = Live(receipts, l)
      BY <1>1, <1>5, <2>5 DEF Live
    <3> QED
      BY <1>2, <2>1, <2>2, <2>4, <2>5, <3>1
  <2>6. ASSUME NEW s \in plan, s.line = l
        PROVE  /\ taken'[l] \in 0 .. Line[l].ordered
               /\ taken'[l] = SumOf(Live(receipts', l), Qty(receipts'))
    <3> DEFINE n == Slice(s)
    <3>1. n \in receipts' /\ n.line = l /\ n.qty = s.take /\ n.voided = FALSE
      BY <1>1, <1>5, <2>6
    <3>2. n \notin Live(receipts, l)
      BY <1>3, <1>5 DEF Live
    <3>3. \A s2 \in plan : Slice(s2).line = l => Slice(s2) = n
      BY <1>2, <1>5, <2>6
    <3>4. Live(receipts', l) = Live(receipts, l) \cup {n}
      BY <1>1, <3>1, <3>3 DEF Live
    <3>a. s.take \in Nat /\ s.take =< Remaining(l) /\ TakeOf(t, l) = s.take
      BY <1>2, <2>6
    <3>b. receipts \subseteq receipts'
      BY <1>1
    <3> HIDE DEF n, Slice, plan
    <3>c. Qty(receipts')[n] = s.take
      BY <3>1 DEF Qty
    <3>5. \A r \in Live(receipts, l) \cup {n} : Qty(receipts')[r] \in Int
      <4>1. \A r \in Live(receipts, l) : Qty(receipts')[r] = r.qty
        BY <2>3, <3>b DEF Qty
      <4> QED
        BY <2>3, <3>a, <3>c, <4>1
    <3>6. SumOf(Live(receipts, l) \cup {n}, Qty(receipts'))
            = SumOf(Live(receipts, l), Qty(receipts')) + Greatest(0, Qty(receipts')[n])
      BY <2>3, <3>2, <3>5, SumAdd
    <3>7. Greatest(0, Qty(receipts')[n]) = s.take /\ TakeOf(t, l) = s.take /\ s.take \in Nat
      BY <3>a, <3>c DEF Greatest
    <3>8. taken'[l] = SumOf(Live(receipts', l), Qty(receipts'))
      BY <2>1, <2>2, <2>4, <3>4, <3>6, <3>7
    <3>9. taken'[l] \in 0 .. Line[l].ordered
      BY <2>1, <2>2, <3>a DEF Remaining
    <3> QED
      BY <3>8, <3>9
  <2> QED
    BY <2>5, <2>6
<1>9. \A r2 \in receipts' : (\E r \in receipts : r2.id = r.id) \/ r2.id[1] = tx[t].serial
  BY <1>1, <1>5
<1> HIDE DEF Slice, plan
<1> QED
  BY <1>1, <1>4, <1>6, <1>7, <1>8, <1>9, EndFrame DEF Types

LEMMA CommitCancelStep ==
  ASSUME ReceiveLocksAssumption, LocksInv, NEW t \in Tx, CommitCancel(t)
  PROVE  Sound(t)
<1> DEFINE r == Original(t)
           w == [Original(t) EXCEPT !.voided = TRUE]
           k == tx[t].line
<1>1. /\ Types /\ TxOK(t) /\ tx[t].pc = "commit" /\ tx[t].kind = "Cancel"
      /\ UNCHANGED <<lines, begun>> /\ Release(t) /\ tx' = [tx EXCEPT ![t] = Idle]
      /\ taken' = [taken EXCEPT ![r.line] = @ - r.qty]
      /\ receipts' = (receipts \ {r}) \cup {w}
  BY AtFree DEF LocksInv, CommitCancel
<1>2. /\ r \in receipts /\ r.id = tx[t].receipt /\ r.line = k
      /\ \A r2 \in receipts : r2.id = r.id => r2 = r
  BY <1>1, OriginalIs
<1>3. /\ k \in LineId /\ owner[<<"line", k>>] = t
      /\ owner[<<"receipt", tx[t].receipt>>] = t /\ r.voided = FALSE
  <2>1. owner[<<"line", k>>] = t /\ owner[<<"receipt", tx[t].receipt>>] = t /\ ~r.voided
    BY <1>1, <1>2 DEF TxOK, CancelOK, PastReceipt, PastLine
  <2>2. r.voided \in BOOLEAN /\ k \in LineId
    BY <1>1, <1>2 DEF LocksInv, ReceiptsOK, TxOK, OpOK
  <2> QED
    BY <2>1, <2>2
<1>4. /\ r = [f \in ReceiptFields |-> r[f]]
      /\ r.id \in ReceiptId /\ r.id[1] =< begun /\ r.id[2] = r.line
      /\ r.qty \in Nat /\ r.pull \in Pull /\ r.line \in lines
  BY <1>2 DEF LocksInv, ReceiptsOK
<1>5. /\ w = [f \in ReceiptFields |-> w[f]]
      /\ w.id = r.id /\ w.line = r.line /\ w.qty = r.qty /\ w.pull = r.pull /\ w.voided = TRUE
  <2> HIDE DEF r
  <2>1. w = [r EXCEPT !.voided = TRUE]
    BY DEF r
  <2> HIDE DEF w
  <2> QED
    BY <1>4, <2>1 DEF ReceiptFields
<1> HIDE DEF r, w, k
<1>6. w \notin receipts
  BY <1>2, <1>3, <1>5
<1>7. taken' \in [LineId -> Int] /\ \A l \in LineId \ {k} : taken'[l] = taken[l]
  BY <1>1, <1>2, <1>3, <1>4 DEF Types
<1>8. ReceiptsOK'
  <2>1. \A r2 \in receipts : r2 \in receipts' => r2.id # w.id
    BY <1>1, <1>2, <1>5, <1>6
  <2>2. \A r2 \in receipts' : r2 \in receipts \/ r2 = w
    BY <1>1
  <2>3. /\ w.id \in ReceiptId /\ w.id[1] =< begun /\ w.id[2] = w.line
        /\ w.qty \in Nat /\ w.pull \in Pull /\ w.voided \in BOOLEAN /\ w.line \in lines
    BY <1>4, <1>5
  <2> QED
    BY <1>1, <1>5, <2>1, <2>2, <2>3 DEF LocksInv, ReceiptsOK
<1>9. \A u \in Tx \ {t} : TablesSuit(u)
  <2> SUFFICES ASSUME NEW u \in Tx \ {t}
               PROVE  TablesSuit(u)
    OBVIOUS
  <2>1. TxOK(u)
    BY DEF LocksInv
  <2>2. \A s \in tx[u].plan : s.line \in lines' /\ taken'[s.line] = taken[s.line]
    <3>1. \A s \in tx[u].plan : s.line \in lines /\ s.line # k
      BY <1>3, <2>1 DEF TxOK, PlanOK
    <3> QED
      BY <1>1, <1>7, <3>1 DEF Types
  <2>3. \A r2 \in receipts : \E r3 \in receipts' : r3.id = r2.id /\ r3.line = r2.line
    BY <1>1, <1>5
  <2>4. tx[u].kind = "Cancel" /\ tx[u].pc \in PastReceipt =>
            \A r2 \in receipts' : r2.id = tx[u].receipt => ~r2.voided
    BY <1>1, <1>2, <1>3, <1>5, <2>1 DEF TxOK, CancelOK
  <2>5. tx[u].kind = "DeleteLine" /\ tx[u].pc = "commit" => \A r2 \in receipts' : r2.line # tx[u].line
    BY <1>1, <1>2, <1>5, <2>1 DEF TxOK, LineOK
  <2> QED
    BY <2>2, <2>3, <2>4, <2>5 DEF TablesSuit
<1>10. LedgerBalances'
  <2> SUFFICES ASSUME NEW l \in LineId
               PROVE  /\ taken'[l] \in 0 .. Line[l].ordered
                      /\ taken'[l] = SumOf(Live(receipts', l), Qty(receipts'))
    BY DEF LedgerBalances, Live, Qty
  <2>1. /\ taken[l] \in 0 .. Line[l].ordered /\ Line[l].ordered \in Nat
        /\ taken[l] = SumOf(Live(receipts, l), Qty(receipts))
    BY LedgerAs DEF LocksInv, ReceiveLocksAssumption
  <2>2. /\ IsFiniteSet(Live(receipts, l))
        /\ \A r2 \in Live(receipts, l) : r2 \in receipts /\ r2.qty \in Nat /\ Qty(receipts)[r2] = r2.qty
    <3>1. Live(receipts, l) \in SUBSET receipts
      BY DEF Live
    <3> QED
      BY <3>1, ReceiptsFinite, FS_Subset DEF LocksInv, ReceiptsOK, Qty
  <2>3. Live(receipts', l) = Live(receipts, l) \ {r}
    BY <1>1, <1>5, <1>6 DEF Live
  <2>4. SumOf(Live(receipts', l), Qty(receipts')) = SumOf(Live(receipts, l) \ {r}, Qty(receipts))
    <3>1. \A r2 \in Live(receipts', l) : Qty(receipts')[r2] = Qty(receipts)[r2]
      BY <1>1, <2>2, <2>3 DEF Qty
    <3> QED
      BY <2>3, <3>1, SumCongruent
  <2>5. CASE l # k
    <3>1. Live(receipts, l) \ {r} = Live(receipts, l)
      BY <1>2, <2>5 DEF Live
    <3> QED
      BY <1>7, <2>1, <2>4, <2>5, <3>1
  <2>6. CASE l = k
    <3>1. r \in Live(receipts, l)
      BY <1>2, <1>3, <2>6 DEF Live
    <3>2. SumOf(Live(receipts, l) \ {r}, Qty(receipts))
            = SumOf(Live(receipts, l), Qty(receipts)) - Greatest(0, Qty(receipts)[r])
      BY <2>2, <3>1, SumRemove
    <3>3. Greatest(0, Qty(receipts)[r]) = r.qty
      BY <1>4, <2>2, <3>1 DEF Greatest
    <3>4. taken'[l] = taken[l] - r.qty
      BY <1>1, <1>2, <2>6 DEF Types
    <3>5. SumOf(Live(receipts, l) \ {r}, Qty(receipts)) \in Nat
      <4>1. IsFiniteSet(Live(receipts, l) \ {r})
        BY <2>2, FS_Subset
      <4>2. \A r2 \in Live(receipts, l) \ {r} : Qty(receipts)[r2] \in Int
        BY <2>2
      <4> QED
        BY <4>1, <4>2, SumType
    <3> QED
      BY <1>4, <2>1, <2>4, <3>2, <3>3, <3>4, <3>5
  <2> QED
    BY <2>5, <2>6
<1>11. \A r2 \in receipts' : \E r3 \in receipts : r2.id = r3.id
  BY <1>1, <1>2, <1>5
<1> QED
  BY <1>1, <1>7, <1>8, <1>9, <1>10, <1>11, EndFrame DEF Types

-----------------------------------------------------------------------------
LEMMA TxStep ==
  ASSUME ReceiveLocksAssumption, LocksInv, NEW t \in Tx, Call(t) \/ Proceeds(t)
  PROVE  Sound(t)
<1>1. CASE Call(t)
  BY <1>1, CallStep
<1>2. CASE LockPull(t) \/ ReadOpenPoLines(t) \/ WriteSlices(t) \/ AutoCloseNext(t)
  BY <1>2, LockPullStep, ReadOpenPoLinesStep, WriteSlicesStep, AutoCloseNextStep
<1>3. CASE AutoCloseLocks(t) \/ AutoClose(t) \/ CommitReceive(t)
  BY <1>3, AutoCloseLocksStep, AutoCloseStep, CommitReceiveStep
<1>4. CASE LockReceipt(t) \/ WriteReversal(t) \/ Reopen(t) \/ CommitCancel(t)
  BY <1>4, LockReceiptStep, WriteReversalStep, ReopenStep, CommitCancelStep
<1>5. CASE LockPo(t) \/ WriteHeader(t) \/ CommitHeader(t) \/ InsertLine(t)
  BY <1>5, LockPoStep, WriteHeaderStep, CommitHeaderStep, InsertLineStep
<1>6. CASE LockLine(t) \/ CommitLine(t)
  BY <1>6, LockLineStep, CommitLineStep
<1>7. CASE Referenced(t) \/ Victim(t)
  BY <1>7, RollbackStep DEF Referenced, Victim
<1> QED
  BY <1>1, <1>2, <1>3, <1>4, <1>5, <1>6, <1>7 DEF Proceeds

LEMMA LocksStep ==
  ReceiveLocksAssumption /\ LocksInv /\ [Next]_vars => LocksInv'
<1> SUFFICES ASSUME ReceiveLocksAssumption, LocksInv, [Next]_vars
             PROVE  LocksInv'
  OBVIOUS
<1>1. CASE Next
  BY <1>1, TxStep DEF Next, Sound
<1>2. CASE UNCHANGED vars
  <2>1. Types' /\ ReceiptsOK' /\ SerialsOK' /\ LedgerBalances'
    BY <1>2 DEF LocksInv, vars, Types, ReceiptsOK, SerialsOK, LedgerBalances
  <2>2. \A t \in Tx : TxOK(t)'
    BY <1>2 DEF LocksInv, vars, TxOK, OpOK, IdleOK, PlanOK, HeaderOK, CancelOK, LineOK, Remaining
  <2> QED
    BY <2>1, <2>2 DEF LocksInv
<1> QED
  BY <1>1, <1>2

LEMMA LocksInvariant ==
  ASSUME ReceiveLocksAssumption
  PROVE  Spec => []LocksInv
<1>1. Init => LocksInv
  BY LocksInit
<1>2. LocksInv /\ [Next]_vars => LocksInv'
  BY LocksStep
<1> QED
  BY <1>1, <1>2, PTL DEF Spec

LEMMA LocksMean ==
  LocksInv => TypeOK /\ LedgerBalances /\ ReceiptsHaveLines
<1> SUFFICES ASSUME LocksInv
             PROVE  TypeOK /\ ReceiptsHaveLines
  BY DEF LocksInv
<1>1. TypeOK
  BY DEF LocksInv, Types, TxOK, IdleOK, TypeOK
<1>2. ReceiptsHaveLines
  BY DEF LocksInv, ReceiptsOK, TxOK, PlanOK, ReceiptsHaveLines
<1> QED
  BY <1>1, <1>2

(* TypeOK: locks have an owner, and who has no transaction has no lock.    *)
THEOREM LocksTypeCorrect ==
  ASSUME ReceiveLocksAssumption
  PROVE  Spec => []TypeOK
BY LocksInvariant, LocksMean, PTL

(* LedgerBalances: however the statements of receives, cancels and edits   *)
(* of POs fall together, the cache of a line is the sum of its receipts    *)
(* and within what was ordered.                                            *)
THEOREM LedgerCorrect ==
  ASSUME ReceiveLocksAssumption
  PROVE  Spec => []LedgerBalances
BY LocksInvariant, LocksMean, PTL

(* ReceiptsHaveLines: no line goes while a receipt is or will be on it.    *)
THEOREM ReceiptsCorrect ==
  ASSUME ReceiveLocksAssumption
  PROVE  Spec => []ReceiptsHaveLines
BY LocksInvariant, LocksMean, PTL

-----------------------------------------------------------------------------
(* The plan, while only receives, cancels and edits of lines run.          *)
LEMMA SamePlan ==
  ASSUME NEW i, NEW q, LinesFor(i) \subseteq LineId, Candidates(i)' = Candidates(i),
         \A l \in Candidates(i) : Remaining(l)' = Remaining(l),
         \A k, l \in Candidates(i) : Precedes(k, l)' = Precedes(k, l)
  PROVE  Plan(i, q)' = Plan(i, q)
<1>1. \A l \in Candidates(i) : Drawn(l, i, q)' = Drawn(l, i, q)
  <2> SUFFICES ASSUME NEW l \in Candidates(i)
               PROVE  Drawn(l, i, q)' = Drawn(l, i, q)
    OBVIOUS
  <2> DEFINE A == {k \in Candidates(i) : Precedes(k, l)}
             f == [k \in LineId |-> Remaining(k)]
  <2>1. A' = A
    OBVIOUS
  <2>2. \A k \in A : f'[k] = f[k]
    BY DEF Candidates
  <2>3. SumOf(A, f) = SumOf(A, f')
    BY <2>2, SumCongruent
  <2>4. PiecesOn(A)' = PiecesOn(A)
    BY <2>1, <2>3 DEF PiecesOn
  <2>5. Drawn(l, i, q) = Greatest(0, Least(Remaining(l), q - PiecesOn(A)))
    BY DEF Drawn
  <2>6. Drawn(l, i, q)' = Greatest(0, Least(Remaining(l)', q - PiecesOn(A)'))
    BY DEF Drawn
  <2> QED
    BY <2>4, <2>5, <2>6
<1> QED
  BY <1>1 DEF Plan

LEMMA PlanStays ==
  ASSUME Types, UNCHANGED <<lines, taken, header>>, NEW i, NEW q
  PROVE  Plan(i, q)' = Plan(i, q)
<1>1. LinesFor(i) \subseteq LineId
  BY DEF Types, LinesFor
<1>2. Candidates(i)' = Candidates(i)
  BY DEF Candidates, LinesFor, Remaining
<1>3. \A l \in Candidates(i) : Remaining(l)' = Remaining(l)
  BY DEF Remaining
<1>4. \A k, l \in Candidates(i) : Precedes(k, l)' = Precedes(k, l)
  BY DEF Precedes
<1> QED
  BY <1>1, <1>2, <1>3, <1>4, SamePlan

(* The lines a cancel or an edit works on, and the sums, are typed.        *)
LEMMA CancelsLine ==
  ASSUME LocksInv, NEW t \in Tx, tx[t].kind = "Cancel"
  PROVE  tx[t].line \in lines
BY DEF LocksInv, TxOK, OpOK, ReceiptsOK

PlanContext == ReceiveLocksAssumption /\ HeadersStay /\ LocksInv /\ PlanInv

(* Where nothing is written, the others have the plan they had.            *)
LEMMA PlanFrame ==
  ASSUME PlanContext, NEW t \in Tx, Sound(t),
         UNCHANGED <<lines, taken, header>>, PlanTxOK(t)',
         \A u \in Tx \ {t} : tx[u].kind = "Cancel" /\ tx[u].pc = "commit" => tx[u].po \notin tx'[t].closes
  PROVE  PlanInv'
<1> USE DEF PlanContext
<1>1. HeaderTypes' /\ ClosedIsFull'
  BY DEF PlanInv, HeaderTypes, ClosedIsFull, LinesOf, Remaining
<1>2. ASSUME NEW u \in Tx \ {t}
      PROVE  PlanTxOK(u)'
  <2>1. PlanTxOK(u) /\ TxOK(u) /\ Kept(u) /\ Types
    BY DEF PlanInv, LocksInv, Sound
  <2>2. tx'[u] = tx[u]
    BY <2>1 DEF Kept
  <2>3. tx[u].kind \in Kind \cup {"none"}
    BY <2>1 DEF PlanTxOK
  <2>4. tx[u].kind = "Receive" /\ tx[u].pc \in Planned =>
          /\ \A l \in LineId : Line[l].item = tx[u].item => owner'[<<"line", l>>] = u
          /\ tx[u].plan = Plan(tx[u].item, tx[u].qty)'
    <3> PICK i, q : i = tx[u].item /\ q = tx[u].qty
      OBVIOUS
    <3>1. Plan(i, q)' = Plan(i, q)
      BY <2>1, <2>2, PlanStays
    <3>2. tx'[u].item = i /\ tx'[u].qty = q
      BY <2>1, <2>2
    <3>3. Plan(tx[u].item, tx[u].qty)' = Plan(i, q)'
      BY <3>2
    <3> QED
      BY <2>1, <2>2, <3>1, <3>3, Resources DEF PlanTxOK, Kept, RangeLock
  <2>5. \A o \in tx[u].closes :
          /\ o \in Po /\ owner'[<<"po", o>>] = u
          /\ \A l \in LinesOf(o)' : Remaining(l)' =< TakeOf(u, l)'
    <3>1. \A l : TakeOf(u, l)' = TakeOf(u, l) /\ Remaining(l)' = Remaining(l)
      BY <2>2 DEF TakeOf, Remaining
    <3>2. \A o : LinesOf(o)' = LinesOf(o)
      BY DEF LinesOf
    <3> QED
      BY <2>1, <3>1, <3>2, Resources DEF PlanTxOK, Kept, RangeLock
  <2>6. tx[u].kind = "AddLine" /\ tx[u].pc \in {"insert", "commit"} => header'[tx[u].po].status = "open"
    BY <2>1 DEF PlanTxOK
  <2>7. tx[u].kind = "Cancel" /\ tx[u].pc \in {"reopen", "commit"} => <<"line", tx[u].line>> \in exclusive'
    <3>1. tx[u].kind = "Cancel" => tx[u].line \in LineId
      BY Arguments
    <3>2. tx[u].kind = "Cancel" /\ tx[u].pc \in {"reopen", "commit"} => owner[<<"line", tx[u].line>>] = u
      BY <2>1 DEF TxOK, CancelOK, PastLine
    <3> QED
      BY <2>1, <3>1, <3>2, Resources DEF PlanTxOK, Kept, RangeLock
  <2>8. tx[u].kind = "Cancel" /\ tx[u].pc = "commit" => \A v \in Tx : tx[u].po \notin tx'[v].closes
    <3>1. \A v \in Tx \ {t} : tx'[v] = tx[v]
      BY DEF Sound, Kept
    <3> QED
      BY <2>1, <3>1 DEF PlanTxOK
  <2> QED
    BY <2>2, <2>3, <2>4, <2>5, <2>6, <2>7, <2>8 DEF PlanTxOK
<1> QED
  BY <1>1, <1>2 DEF PlanInv

(* A transaction that goes on to a statement of the kind it is at.         *)
GoesOn(t, pc, write) ==
    LET x == tx[t] IN
    /\ x.kind = "Receive" /\ pc \in Planned => x.pc \in Planned
    /\ x.kind = "AddLine" /\ pc \in {"insert", "commit"} =>
          x.pc = "insert" \/ header[x.po].status = "open"
    /\ x.kind = "Cancel" /\ pc \in {"reopen", "commit"} =>
          x.pc = "reopen" \/ <<"line", x.line>> \in write
    /\ x.kind = "Cancel" /\ pc = "commit" => \A u \in Tx : x.po \notin tx[u].closes

LEMMA PlanGoStep ==
  ASSUME PlanContext, NEW t \in Tx, NEW pc, NEW update, NEW write, Sound(t),
         Goto(t, pc), Lock(t, update, write), UNCHANGED Tables, GoesOn(t, pc, write)
  PROVE  PlanInv'
<1> USE DEF PlanContext
<1>1. Types /\ TxOK(t) /\ PlanTxOK(t)
  BY DEF LocksInv, PlanInv
<1>2. /\ tx'[t].pc = pc /\ tx'[t].kind = tx[t].kind /\ tx'[t].item = tx[t].item
      /\ tx'[t].qty = tx[t].qty /\ tx'[t].po = tx[t].po /\ tx'[t].line = tx[t].line
      /\ tx'[t].plan = tx[t].plan /\ tx'[t].closes = tx[t].closes
      /\ \A u \in Tx \ {t} : tx'[u] = tx[u]
  BY <1>1, Goes DEF Fields
<1>3. /\ \A r \in Resource : owner[r] = t => owner'[r] = t
      /\ exclusive' = exclusive \cup write
      /\ UNCHANGED <<lines, taken, header>>
  BY DEF Lock, Tables
<1>4. PlanTxOK(t)'
  <2>1. tx[t].kind \in Kind \cup {"none"}
    BY <1>1 DEF PlanTxOK
  <2>2. tx[t].kind = "Receive" /\ pc \in Planned =>
          /\ \A l \in LineId : Line[l].item = tx[t].item => owner'[<<"line", l>>] = t
          /\ tx[t].plan = Plan(tx[t].item, tx[t].qty)'
    <3> PICK i, q : i = tx[t].item /\ q = tx[t].qty
      OBVIOUS
    <3>1. Plan(i, q)' = Plan(i, q)
      BY <1>1, <1>2, <1>3, PlanStays
    <3>2. tx'[t].item = i /\ tx'[t].qty = q
      BY <1>1, <1>2, <1>3
    <3>3. Plan(tx[t].item, tx[t].qty)' = Plan(i, q)'
      BY <3>2
    <3> QED
      BY <1>1, <1>2, <1>3, <3>1, <3>3, Resources DEF PlanTxOK, GoesOn
  <2>3. \A o \in tx[t].closes :
          /\ o \in Po /\ owner'[<<"po", o>>] = t
          /\ \A l \in LinesOf(o)' : Remaining(l)' =< TakeOf(t, l)'
    <3>1. \A l : TakeOf(t, l)' = TakeOf(t, l) /\ Remaining(l)' = Remaining(l)
      BY <1>2, <1>3 DEF TakeOf, Remaining
    <3>2. \A o : LinesOf(o)' = LinesOf(o)
      BY <1>3 DEF LinesOf
    <3> QED
      BY <1>1, <1>3, <3>1, <3>2, Resources DEF PlanTxOK
  <2>4. tx[t].kind = "AddLine" /\ pc \in {"insert", "commit"} => header'[tx[t].po].status = "open"
    BY <1>1, <1>3 DEF PlanTxOK, GoesOn
  <2>5. tx[t].kind = "Cancel" /\ pc \in {"reopen", "commit"} => <<"line", tx[t].line>> \in exclusive'
    BY <1>1, <1>3 DEF PlanTxOK, GoesOn
  <2>6. tx[t].kind = "Cancel" /\ pc = "commit" => \A v \in Tx : tx[t].po \notin tx'[v].closes
    BY <1>2 DEF GoesOn
  <2> QED
    BY <1>2, <2>1, <2>2, <2>3, <2>4, <2>5, <2>6 DEF PlanTxOK
<1>5. \A u \in Tx \ {t} : tx[u].kind = "Cancel" /\ tx[u].pc = "commit" => tx[u].po \notin tx'[t].closes
  BY <1>2 DEF PlanInv, PlanTxOK
<1> QED
  BY <1>3, <1>4, <1>5, PlanFrame

(* A transaction that is over asks for nothing.                            *)
LEMMA PlanIdle ==
  ASSUME NEW t \in Tx, tx[t].kind = "none", tx[t].plan = {}, tx[t].closes = {}
  PROVE  PlanTxOK(t)
BY DEF PlanTxOK

LEMMA PlanRollback ==
  ASSUME PlanContext, NEW t \in Tx, Sound(t), Rollback(t)
  PROVE  PlanInv'
<1>1. tx'[t].kind = "none" /\ tx'[t].plan = {} /\ tx'[t].closes = {}
  BY Ends DEF PlanContext, LocksInv, Rollback
<1>2. PlanTxOK(t)'
  BY <1>1 DEF PlanTxOK
<1> QED
  BY <1>1, <1>2, PlanFrame DEF Rollback

LEMMA PlanInit == ReceiveLocksAssumption /\ Init => PlanInv
<1> SUFFICES ASSUME ReceiveLocksAssumption, Init
             PROVE  PlanInv
  OBVIOUS
<1>1. HeaderTypes /\ ClosedIsFull
  BY DEF Init, HeaderTypes, ClosedIsFull
<1>2. \A t \in Tx : tx[t].kind = "none" /\ tx[t].plan = {} /\ tx[t].closes = {}
  BY DEF Init, Idle
<1> QED
  BY <1>1, <1>2, PlanIdle DEF PlanInv

(* A receive between its writes keeps the plan it has.                     *)
LEMMA PlanTxStays ==
  ASSUME Types, NEW t \in Tx, PlanTxOK(t), tx[t].kind = "Receive", tx[t].pc \in Planned,
         UNCHANGED <<lines, taken, header>>,
         tx'[t].kind = tx[t].kind, tx'[t].item = tx[t].item, tx'[t].qty = tx[t].qty,
         tx'[t].plan = tx[t].plan, tx'[t].closes = tx[t].closes,
         \A l \in LineId : owner[<<"line", l>>] = t => owner'[<<"line", l>>] = t,
         \A o \in tx[t].closes : owner'[<<"po", o>>] = t
  PROVE  PlanTxOK(t)'
<1>1. /\ \A l \in LineId : Line[l].item = tx[t].item => owner'[<<"line", l>>] = t
      /\ tx[t].kind \in Kind \cup {"none"}
  BY DEF PlanTxOK
<1>2. tx'[t].plan = Plan(tx[t].item, tx[t].qty)'
  <2> PICK i, q : i = tx[t].item /\ q = tx[t].qty
    OBVIOUS
  <2>1. Plan(i, q)' = Plan(i, q)
    BY PlanStays
  <2>2. Plan(tx[t].item, tx[t].qty)' = Plan(i, q)'
    OBVIOUS
  <2>3. tx[t].plan = Plan(i, q)
    BY DEF PlanTxOK
  <2> QED
    BY <2>1, <2>2, <2>3
<1>3. \A o \in tx[t].closes :
        /\ o \in Po /\ owner'[<<"po", o>>] = t
        /\ \A l \in LinesOf(o)' : Remaining(l)' =< TakeOf(t, l)'
  <2>1. \A l : TakeOf(t, l)' = TakeOf(t, l) /\ Remaining(l)' = Remaining(l)
    BY DEF TakeOf, Remaining
  <2>2. \A o : LinesOf(o)' = LinesOf(o)
    BY DEF LinesOf
  <2> QED
    BY <2>1, <2>2 DEF PlanTxOK
<1> QED
  BY <1>1, <1>2, <1>3 DEF PlanTxOK

LEMMA PlanCall ==
  ASSUME PlanContext, NEW t \in Tx, Call(t)
  PROVE  PlanInv'
<1>1. Sound(t) /\ Begun(t)
  BY CallStep DEF PlanContext
<1>2. PlanTxOK(t)'
  BY <1>1 DEF Begun, PlanTxOK, Planned
<1> QED
  BY <1>1, <1>2, PlanFrame DEF Begun

LEMMA PlanOfLocks ==
  ASSUME PlanContext, NEW t \in Tx, Sound(t),
         LockPull(t) \/ WriteSlices(t) \/ AutoCloseLocks(t) \/ LockReceipt(t) \/ WriteReversal(t)
  PROVE  PlanInv'
<1>1. TxOK(t)
  BY DEF PlanContext, LocksInv
<1>2. CASE LockPull(t)
  <2> PICK pc : pc = IF tx[t].kind = "Receive" THEN "lines" ELSE AfterLock("pull")
    OBVIOUS
  <2>1. Goto(t, pc) /\ Lock(t, Needs(t), {}) /\ UNCHANGED Tables /\ pc \in {"lines", "line"}
    BY <1>2, Locking DEF LockPull
  <2>2. GoesOn(t, pc, {})
    BY <2>1 DEF GoesOn, Planned
  <2> QED
    BY <2>1, <2>2, PlanGoStep
<1>3. CASE WriteSlices(t)
  <2> DEFINE write == {<<table, s.line>> : table \in {"line", "receipts"}, s \in tx[t].plan}
  <2>1. Goto(t, "header") /\ Lock(t, {}, write) /\ UNCHANGED Tables
    BY <1>3 DEF WriteSlices
  <2> HIDE DEF write
  <2>2. tx[t].pc = "write"
    BY <1>3, AtFree DEF WriteSlices
  <2>3. GoesOn(t, "header", write)
    BY <2>2 DEF GoesOn, Planned
  <2> QED
    BY <2>1, <2>3, PlanGoStep
<1>4. CASE AutoCloseLocks(t)
  <2>1. Goto(t, "check") /\ Lock(t, Needs(t), {}) /\ UNCHANGED Tables /\ tx[t].pc = "autoclose"
    BY <1>4, AtFree DEF AutoCloseLocks
  <2>2. GoesOn(t, "check", {})
    BY <2>1 DEF GoesOn, Planned
  <2> QED
    BY <2>1, <2>2, PlanGoStep
<1>5. CASE LockReceipt(t)
  <2>1. CASE Original(t).voided
    BY <1>5, <2>1, PlanRollback DEF LockReceipt
  <2>2. CASE ~Original(t).voided
    <3>1. Goto(t, "pull") /\ Lock(t, Needs(t), {}) /\ UNCHANGED Tables
      BY <1>5, <2>2, Locking DEF LockReceipt
    <3>2. GoesOn(t, "pull", {})
      BY DEF GoesOn, Planned
    <3> QED
      BY <3>1, <3>2, PlanGoStep
  <2> QED
    BY <2>1, <2>2
<1>6. CASE WriteReversal(t)
  <2> PICK write : write = {<<"line", tx[t].line>>, <<"receipts", tx[t].line>>, <<"receipt", tx[t].receipt>>}
    OBVIOUS
  <2>1. Goto(t, "reopen") /\ Lock(t, {}, write) /\ UNCHANGED Tables /\ tx[t].kind = "Cancel"
    BY <1>6 DEF WriteReversal
  <2>2. GoesOn(t, "reopen", write)
    BY <2>1 DEF GoesOn, Planned
  <2> QED
    BY <2>1, <2>2, PlanGoStep
<1> QED
  BY <1>2, <1>3, <1>4, <1>5, <1>6

(* A cancel that goes on to reopen its PO has it locked, so no receive is  *)
(* closing it.                                                             *)
LEMMA PlanReopen ==
  ASSUME PlanContext, NEW t \in Tx, Sound(t), Reopen(t)
  PROVE  PlanInv'
<1> PICK write : write = IF header[tx[t].po].status = "closed" THEN Needs(t) ELSE {}
  OBVIOUS
<1>1. TxOK(t) /\ tx[t].pc = "reopen" /\ (\A r \in Needs(t) : Free(t, r))
  BY AtFree DEF PlanContext, LocksInv, Reopen
<1>2. tx[t].kind = "Cancel" /\ Needs(t) = {<<"po", tx[t].po>>}
  BY <1>1, KindAt, NeedsAt
<1>3. Goto(t, "commit") /\ Lock(t, {}, write) /\ UNCHANGED Tables
  BY DEF Reopen
<1>4. \A u \in Tx : tx[t].po \notin tx[u].closes
  <2>1. owner[<<"po", tx[t].po>>] \in {NoTx, t} /\ NoTx \notin Tx
    BY <1>1, <1>2 DEF Free, PlanContext, ReceiveLocksAssumption
  <2>2. tx[t].closes = {}
    BY <1>1, <1>2 DEF TxOK, HeaderOK
  <2>3. ASSUME NEW u \in Tx, tx[t].po \in tx[u].closes
        PROVE  FALSE
    <3>1. PlanTxOK(u)
      BY DEF PlanContext, PlanInv
    <3>2. owner[<<"po", tx[t].po>>] = u
      BY <2>3, <3>1 DEF PlanTxOK
    <3> QED
      BY <2>1, <2>2, <2>3, <3>2
  <2> QED
    BY <2>3
<1>5. GoesOn(t, "commit", write)
  BY <1>1, <1>2, <1>4 DEF GoesOn
<1> QED
  BY <1>3, <1>5, PlanGoStep

LEMMA PlanEdits ==
  ASSUME PlanContext, NEW t \in Tx, Sound(t), LockPo(t) \/ InsertLine(t) \/ LockLine(t) \/ WriteHeader(t)
  PROVE  PlanInv'
<1>1. TxOK(t) /\ tx[t].kind \notin {"ClosePo", "UpdatePo"}
  <2>1. TxOK(t) /\ PlanTxOK(t)
    BY DEF PlanContext, LocksInv, PlanInv
  <2> QED
    BY <2>1 DEF PlanContext, HeadersStay, PlanTxOK
<1>2. CASE LockPo(t)
  <2>1. tx[t].pc = "po" /\ tx[t].kind = "AddLine"
    BY <1>1, <1>2, AtFree, KindAt DEF LockPo
  <2>2. CASE header[tx[t].po].status # "open"
    BY <1>2, <2>2, PlanRollback DEF LockPo
  <2>3. CASE header[tx[t].po].status = "open"
    <3>1. Goto(t, "insert") /\ Lock(t, Needs(t), {}) /\ UNCHANGED Tables
      BY <1>2, <2>1, <2>3 DEF LockPo
    <3>2. GoesOn(t, "insert", {})
      BY <2>1, <2>3 DEF GoesOn
    <3> QED
      BY <3>1, <3>2, PlanGoStep
  <2> QED
    BY <2>2, <2>3
<1>3. CASE InsertLine(t)
  <2>1. tx[t].pc = "insert" /\ tx[t].kind = "AddLine"
    BY <1>1, <1>3, AtFree, KindAt DEF InsertLine
  <2>2. CASE tx[t].line \in lines
    BY <1>3, <2>2, PlanRollback DEF InsertLine
  <2>3. CASE tx[t].line \notin lines
    <3>1. Goto(t, "commit") /\ Lock(t, {}, Needs(t)) /\ UNCHANGED Tables
      BY <1>3, <2>3 DEF InsertLine
    <3>2. GoesOn(t, "commit", Needs(t))
      BY <2>1 DEF GoesOn
    <3> QED
      BY <3>1, <3>2, PlanGoStep
  <2> QED
    BY <2>2, <2>3
<1>4. CASE LockLine(t)
  <2>1. tx[t].pc = "line" /\ tx[t].kind \in {"Cancel", "DeleteLine"}
    BY <1>1, <1>4, AtFree, KindAt DEF LockLine
  <2> DEFINE gone == tx[t].line \notin lines
                     \/ (tx[t].kind = "DeleteLine" /\ \E r \in receipts : r.line = tx[t].line)
  <2>2. CASE gone
    BY <1>4, <2>2, PlanRollback DEF LockLine
  <2>3. CASE ~gone
    <3> PICK pc, write : /\ pc = IF tx[t].kind = "DeleteLine" THEN "commit" ELSE AfterLock("line")
                         /\ write = IF tx[t].kind = "DeleteLine" THEN Needs(t) ELSE {}
      OBVIOUS
    <3>1. Goto(t, pc) /\ Lock(t, Needs(t), write) /\ UNCHANGED Tables
      BY <1>4, <2>3 DEF LockLine
    <3> HIDE DEF gone
    <3>2. GoesOn(t, pc, write)
      BY <2>1, Locking DEF GoesOn
    <3> QED
      BY <3>1, <3>2, PlanGoStep
  <2> QED
    BY <2>2, <2>3
<1>5. CASE WriteHeader(t)
  <2>1. tx[t].pc \in {"sum", "count"}
    BY <1>5, AtFree DEF WriteHeader
  <2> QED
    BY <1>1, <2>1, KindAt
<1> QED
  BY <1>2, <1>3, <1>4, <1>5

LEMMA PlanAutoCloseNext ==
  ASSUME PlanContext, NEW t \in Tx, Sound(t), AutoCloseNext(t)
  PROVE  PlanInv'
<1>1. Types /\ TxOK(t) /\ PlanTxOK(t) /\ tx[t].pc = "header"
  BY AtFree DEF PlanContext, LocksInv, PlanInv, AutoCloseNext
<1>2. tx[t].kind = "Receive"
  BY <1>1, KindAt
<1>3. UNCHANGED <<Tables, owner, exclusive>>
  BY DEF AutoCloseNext
<1>4. CASE tx[t].todo = {}
  <2>1. Lock(t, {}, {}) /\ Goto(t, "commit") /\ UNCHANGED Tables
    BY <1>1, <1>3, <1>4 DEF Lock, Types, AutoCloseNext
  <2>2. GoesOn(t, "commit", {})
    BY <1>1, <1>2 DEF GoesOn, Planned
  <2> QED
    BY <2>1, <2>2, PlanGoStep
<1>5. CASE tx[t].todo # {}
  <2>1. PICK o \in tx[t].todo :
          tx' = [tx EXCEPT ![t].pc = "autoclose", ![t].po = o, ![t].todo = @ \ {o}]
    BY <1>5 DEF AutoCloseNext
  <2>2. /\ tx'[t].pc = "autoclose"
        /\ tx'[t].kind = tx[t].kind /\ tx'[t].item = tx[t].item /\ tx'[t].qty = tx[t].qty
        /\ tx'[t].plan = tx[t].plan /\ tx'[t].closes = tx[t].closes
    BY <1>1, <2>1 DEF Types, Fields
  <2>3. UNCHANGED <<lines, taken, header, owner>>
    BY <1>3 DEF Tables
  <2>4. PlanTxOK(t)'
    <3>1. \A p \in tx[t].closes : owner'[<<"po", p>>] = t
      BY <1>1, <2>3 DEF PlanTxOK
    <3>2. tx[t].pc \in Planned
      BY <1>1 DEF Planned
    <3>3. \A l \in LineId : owner[<<"line", l>>] = t => owner'[<<"line", l>>] = t
      BY <2>3
    <3>4. Types /\ PlanTxOK(t) /\ UNCHANGED <<lines, taken, header>>
      BY <1>1, <2>3
    <3> QED
      BY <1>2, <2>2, <3>1, <3>2, <3>3, <3>4, PlanTxStays
  <2>5. \A u \in Tx \ {t} : tx[u].kind = "Cancel" /\ tx[u].pc = "commit" => tx[u].po \notin tx'[t].closes
    BY <2>2 DEF PlanContext, PlanInv, PlanTxOK
  <2> QED
    BY <2>3, <2>4, <2>5, PlanFrame
<1> QED
  BY <1>4, <1>5

LEMMA TakeType ==
  ASSUME NEW t \in Tx, TxOK(t), NEW l
  PROVE  TakeOf(t, l) \in Nat
<1>1. CASE \A s \in tx[t].plan : s.line # l
  BY <1>1, TakeIs
<1>2. CASE \E s \in tx[t].plan : s.line = l
  <2>1. PICK s \in tx[t].plan : s.line = l
    BY <1>2
  <2>2. s.take \in Nat /\ TakeOf(t, s.line) = s.take
    BY TakeIs DEF TxOK, PlanOK
  <2> QED
    BY <2>1, <2>2
<1> QED
  BY <1>1, <1>2

(* The header a receive closes has no line that is short; a cancel past    *)
(* its reversal would have kept the receive from reading its line.         *)
LEMMA PlanAutoClose ==
  ASSUME PlanContext, NEW t \in Tx, Sound(t), AutoClose(t)
  PROVE  PlanInv'
<1> PICK o : o = tx[t].po
  OBVIOUS
<1> DEFINE full == header[o].status = "open" /\ \A l \in LinesOf(o) : ~Short(t, l)
<1>1. /\ Types /\ TxOK(t) /\ PlanTxOK(t) /\ tx[t].pc = "check" /\ ReceiveLocksAssumption /\ LocksInv
      /\ \A r \in Reads(t) : Readable(t, r)
  BY AtFree DEF PlanContext, LocksInv, PlanInv, AutoClose
<1>2. tx[t].kind = "Receive" /\ o \in Po /\ owner[<<"po", o>>] = t /\ o \notin tx[t].closes
  BY <1>1, KindAt, Arguments DEF TxOK, HeaderOK
<1>3. CASE full
  <2>1. /\ Lock(t, {}, {<<"po", o>>}) /\ UNCHANGED Tables
        /\ tx' = [tx EXCEPT ![t].pc = "header", ![t].closes = tx[t].closes \cup {o}]
    BY <1>3 DEF AutoClose
  <2> PICK c : c = tx[t].closes \cup {o}
    OBVIOUS
  <2>2. /\ tx'[t].pc = "header" /\ tx'[t].closes = c
        /\ tx'[t].kind = tx[t].kind /\ tx'[t].item = tx[t].item
        /\ tx'[t].qty = tx[t].qty /\ tx'[t].plan = tx[t].plan
    <3>1. Shaped(tx)
      BY <1>1 DEF Types, Shaped
    <3>2. SetsTwo(tx, tx', t, "header", c)
      BY <2>1 DEF SetsTwo
    <3> QED
      BY <3>1, <3>2, Closes
  <2>3. /\ \A r \in Resource : owner[r] = t => owner'[r] = t
        /\ UNCHANGED <<lines, taken, header>>
    BY <2>1 DEF Lock, Tables
  <2>4. \A l \in LinesOf(o) : Remaining(l) =< TakeOf(t, l)
    <3> SUFFICES ASSUME NEW l \in LinesOf(o)
                 PROVE  Remaining(l) =< TakeOf(t, l)
      OBVIOUS
    <3>1. ~(Remaining(l) > TakeOf(t, l))
      BY <1>2, <1>3 DEF Short
    <3>2. Remaining(l) \in Int
      BY <1>1 DEF Types, Remaining, LinesOf, ReceiveLocksAssumption
    <3>3. TakeOf(t, l) \in Nat
      BY <1>1, TakeType
    <3> QED
      BY <3>1, <3>2, <3>3
  <2>5. Reads(t) = {<<"line", l>> : l \in LinesOf(o)}
    BY <1>1, <1>3 DEF Reads
  <2> HIDE DEF full
  <2>6. PlanTxOK(t)'
    <3>1. /\ tx[t].kind \in Kind \cup {"none"}
          /\ \A l \in LineId : Line[l].item = tx[t].item => owner'[<<"line", l>>] = t
          /\ tx[t].plan = Plan(tx[t].item, tx[t].qty)
      BY <1>1, <1>2, <2>3, Resources DEF PlanTxOK, Planned
    <3>2. tx'[t].plan = Plan(tx[t].item, tx[t].qty)'
      <4> PICK i, q : i = tx[t].item /\ q = tx[t].qty
        OBVIOUS
      <4>1. Plan(i, q)' = Plan(i, q)
        BY <1>1, <2>3, PlanStays
      <4>2. Plan(tx[t].item, tx[t].qty)' = Plan(i, q)'
        BY <2>2
      <4> QED
        BY <2>2, <3>1, <4>1, <4>2
    <3>3. \A p \in c : /\ p \in Po /\ owner'[<<"po", p>>] = t
                       /\ \A l \in LinesOf(p) : Remaining(l) =< TakeOf(t, l)
      BY <1>1, <1>2, <2>3, <2>4, Resources DEF PlanTxOK
    <3>4. \A l : TakeOf(t, l)' = TakeOf(t, l) /\ Remaining(l)' = Remaining(l)
      BY <2>2, <2>3 DEF TakeOf, Remaining
    <3>5. \A p : LinesOf(p)' = LinesOf(p)
      BY <2>3 DEF LinesOf
    <3> QED
      BY <1>2, <2>2, <3>1, <3>2, <3>3, <3>4, <3>5 DEF PlanTxOK
  <2>7. ASSUME NEW u \in Tx \ {t}, tx[u].kind = "Cancel", tx[u].pc = "commit"
        PROVE  tx[u].po \notin tx'[t].closes
    <3>1. PlanTxOK(u) /\ TxOK(u)
      BY DEF PlanContext, PlanInv, LocksInv
    <3>2. tx[u].po \notin tx[t].closes
      BY <2>7, <3>1 DEF PlanTxOK
    <3>3. tx[u].po # o
      <4> SUFFICES ASSUME tx[u].po = o
                   PROVE  FALSE
        OBVIOUS
      <4>1. tx[u].line \in LinesOf(o)
        BY <1>1, <2>7, <3>1, CancelsLine DEF TxOK, OpOK, LinesOf
      <4>2. Readable(t, <<"line", tx[u].line>>)
        BY <1>1, <2>5, <4>1
      <4>3. owner[<<"line", tx[u].line>>] = u /\ <<"line", tx[u].line>> \in exclusive
        BY <2>7, <3>1 DEF TxOK, CancelOK, PastLine, PlanTxOK
      <4> QED
        BY <1>1, <4>2, <4>3 DEF Readable, Free, ReceiveLocksAssumption
    <3> QED
      BY <2>2, <3>2, <3>3
  <2> QED
    BY <2>3, <2>6, <2>7, PlanFrame
<1>4. CASE ~full
  <2>1. /\ owner' = [owner EXCEPT ![<<"po", o>>] = NoTx]
        /\ Goto(t, "header") /\ UNCHANGED Tables
    BY <1>4 DEF AutoClose
  <2> HIDE DEF full
  <2>2. /\ tx'[t].pc = "header" /\ tx'[t].closes = tx[t].closes
        /\ tx'[t].kind = tx[t].kind /\ tx'[t].item = tx[t].item
        /\ tx'[t].qty = tx[t].qty /\ tx'[t].plan = tx[t].plan
    BY <1>1, <2>1, Goes DEF Fields
  <2>3. \A r \in Resource : r # <<"po", o>> => owner'[r] = owner[r]
    BY <1>1, <2>1 DEF Types
  <2>4. UNCHANGED <<lines, taken, header>>
    BY <2>1 DEF Tables
  <2>5. PlanTxOK(t)'
    <3>1. \A p \in tx[t].closes : owner'[<<"po", p>>] = t
      BY <1>1, <1>2, <2>3, Resources DEF PlanTxOK
    <3>2. tx[t].pc \in Planned
      BY <1>1 DEF Planned
    <3>3. \A l \in LineId : owner[<<"line", l>>] = t => owner'[<<"line", l>>] = t
      BY <2>3, Resources
    <3>4. Types /\ PlanTxOK(t)
      BY <1>1
    <3> QED
      BY <1>2, <2>2, <2>4, <3>1, <3>2, <3>3, <3>4, PlanTxStays
  <2>6. \A u \in Tx \ {t} : tx[u].kind = "Cancel" /\ tx[u].pc = "commit" => tx[u].po \notin tx'[t].closes
    BY <2>2 DEF PlanContext, PlanInv, PlanTxOK
  <2> QED
    BY <2>4, <2>5, <2>6, PlanFrame
<1> QED
  BY <1>3, <1>4

LEMMA PlanReadOpenPoLines ==
  ASSUME PlanContext, NEW t \in Tx, Sound(t), ReadOpenPoLines(t)
  PROVE  PlanInv'
<1>1. /\ Types /\ TxOK(t) /\ PlanTxOK(t) /\ tx[t].pc = "lines"
  BY AtFree DEF PlanContext, LocksInv, PlanInv, ReadOpenPoLines
<1>2. tx[t].kind = "Receive" /\ tx[t].closes = {}
  BY <1>1, KindAt DEF TxOK, HeaderOK, Planned
<1>3. CASE Available(tx[t].item) < tx[t].qty
  BY <1>3, PlanRollback DEF ReadOpenPoLines
<1>4. CASE ~(Available(tx[t].item) < tx[t].qty)
  <2> PICK i, q : i = tx[t].item /\ q = tx[t].qty
    OBVIOUS
  <2> PICK plan : plan = Plan(i, q)
    OBVIOUS
  <2> PICK todo : todo = {Line[s.line].po : s \in plan}
    OBVIOUS
  <2>1. /\ Lock(t, Needs(t), {}) /\ UNCHANGED Tables
        /\ tx' = [tx EXCEPT ![t].pc = "write", ![t].plan = plan, ![t].todo = todo]
    BY <1>4 DEF ReadOpenPoLines
  <2>2. /\ tx'[t].pc = "write" /\ tx'[t].plan = plan /\ tx'[t].kind = tx[t].kind
        /\ tx'[t].item = i /\ tx'[t].qty = q /\ tx'[t].closes = tx[t].closes
    BY <1>1, <2>1 DEF Types, Fields
  <2>3. \A l \in LineId : Line[l].item = i => owner'[<<"line", l>>] = t
    BY <1>1, <2>1, NeedsAt, Resources DEF Hinted, Lock
  <2>4. UNCHANGED <<lines, taken, header>>
    BY <2>1 DEF Tables
  <2>5. PlanTxOK(t)'
    <3>1. Plan(i, q)' = Plan(i, q)
      BY <1>1, <2>4, PlanStays
    <3>2. Plan(tx[t].item, tx[t].qty)' = Plan(i, q)'
      BY <2>2
    <3>3. tx[t].kind \in Kind \cup {"none"}
      BY <1>1 DEF PlanTxOK
    <3> QED
      BY <1>2, <2>2, <2>3, <3>1, <3>2, <3>3 DEF PlanTxOK
  <2>6. \A u \in Tx \ {t} : tx[u].kind = "Cancel" /\ tx[u].pc = "commit" => tx[u].po \notin tx'[t].closes
    BY <1>2, <2>2
  <2> QED
    BY <2>4, <2>5, <2>6, PlanFrame
<1> QED
  BY <1>3, <1>4

(* What a commit leaves alone: the lines its transaction has not locked,   *)
(* the status of the headers over those that are still short, and every    *)
(* order date.                                                             *)
Untouched(t) ==
    /\ \A l \in LineId : owner[<<"line", l>>] # t =>
          /\ l \in lines' <=> l \in lines
          /\ taken'[l] = taken[l]
          /\ l \in lines /\ Remaining(l) > 0 =>
                (header'[Line[l].po].status = "open" <=> header[Line[l].po].status = "open")
    /\ \A o \in Po : header'[o].date = header[o].date

LEMMA PlanUntouched ==
  ASSUME ReceiveLocksAssumption, Types, NEW t \in Tx, Untouched(t), lines' \subseteq LineId, NEW i, NEW q,
         \A l \in LineId : Line[l].item = i => owner[<<"line", l>>] # t
  PROVE  Plan(i, q)' = Plan(i, q)
<1>1. LinesFor(i) \subseteq LineId /\ LinesFor(i)' \subseteq LineId
  BY DEF Types, LinesFor
<1>2. \A l \in LineId : Line[l].item = i =>
        /\ l \in lines' <=> l \in lines
        /\ Remaining(l)' = Remaining(l)
        /\ l \in lines /\ Remaining(l) > 0 =>
              (header'[Line[l].po].status = "open" <=> header[Line[l].po].status = "open")
  BY DEF Untouched, Remaining
<1>3. Candidates(i)' = Candidates(i)
  BY <1>1, <1>2 DEF Candidates, LinesFor
<1>4. \A l \in Candidates(i) : l \in LineId /\ Line[l].item = i
  BY <1>1 DEF Candidates, LinesFor
<1>5. \A l \in Candidates(i) : Remaining(l)' = Remaining(l)
  BY <1>2, <1>4
<1>6. \A k, l \in Candidates(i) : Precedes(k, l)' = Precedes(k, l)
  <2>1. \A k \in Candidates(i) : header'[Line[k].po].date = header[Line[k].po].date
    BY <1>4 DEF Untouched, ReceiveLocksAssumption
  <2> QED
    BY <2>1 DEF Precedes
<1> QED
  BY <1>1, <1>3, <1>5, <1>6, SamePlan

LEMMA CommitFrame ==
  ASSUME PlanContext, NEW t \in Tx, Sound(t), tx' = [tx EXCEPT ![t] = Idle],
         Untouched(t), HeaderTypes', ClosedIsFull',
         \A u \in Tx \ {t} : \A o \in tx[u].closes : \A l \in LinesOf(o)' :
            l \in LinesOf(o) /\ Remaining(l)' =< Remaining(l),
         \A u \in Tx \ {t} : tx[u].kind = "AddLine" /\ tx[u].pc \in {"insert", "commit"} =>
            header'[tx[u].po].status = "open"
  PROVE  PlanInv'
<1>1. Types /\ Types' /\ ReceiveLocksAssumption /\ LocksInv
  BY DEF PlanContext, Sound, LocksInv
<1>2. /\ tx'[t].kind = "none" /\ tx'[t].plan = {} /\ tx'[t].closes = {}
      /\ \A u \in Tx \ {t} : tx'[u] = tx[u]
  BY <1>1, Ends
<1>3. PlanTxOK(t)'
  BY <1>2 DEF PlanTxOK
<1>4. ASSUME NEW u \in Tx \ {t}
      PROVE  PlanTxOK(u)'
  <2>1. PlanTxOK(u) /\ TxOK(u) /\ Kept(u)
    BY DEF PlanContext, PlanInv, LocksInv, Sound
  <2>2. tx'[u] = tx[u]
    BY <1>2
  <2>3. tx[u].kind \in Kind \cup {"none"}
    BY <2>1 DEF PlanTxOK
  <2>4. tx[u].kind = "Receive" /\ tx[u].pc \in Planned =>
          /\ \A l \in LineId : Line[l].item = tx[u].item => owner'[<<"line", l>>] = u
          /\ tx[u].plan = Plan(tx[u].item, tx[u].qty)'
    <3> SUFFICES ASSUME tx[u].kind = "Receive", tx[u].pc \in Planned
                 PROVE  /\ \A l \in LineId : Line[l].item = tx[u].item => owner'[<<"line", l>>] = u
                        /\ tx[u].plan = Plan(tx[u].item, tx[u].qty)'
      OBVIOUS
    <3> PICK i, q : i = tx[u].item /\ q = tx[u].qty
      OBVIOUS
    <3>1. \A l \in LineId : Line[l].item = i => owner[<<"line", l>>] = u
      BY <2>1 DEF PlanTxOK
    <3>2. Plan(i, q)' = Plan(i, q)
      <4>1. \A l \in LineId : Line[l].item = i => owner[<<"line", l>>] # t
        BY <3>1
      <4>2. lines' \subseteq LineId
        BY <1>1 DEF Types
      <4> QED
        BY <1>1, <4>1, <4>2, PlanUntouched
    <3>3. Plan(tx[u].item, tx[u].qty)' = Plan(i, q)'
      BY <2>2
    <3>4. \A l \in LineId : Line[l].item = i => owner'[<<"line", l>>] = u
      BY <2>1, <3>1, Resources DEF Kept, RangeLock
    <3>5. tx[u].plan = Plan(i, q)
      BY <2>1 DEF PlanTxOK
    <3> QED
      BY <3>2, <3>3, <3>4, <3>5
  <2>5. \A o \in tx[u].closes :
          /\ o \in Po /\ owner'[<<"po", o>>] = u
          /\ \A l \in LinesOf(o)' : Remaining(l)' =< TakeOf(u, l)'
    <3> SUFFICES ASSUME NEW o \in tx[u].closes
                 PROVE  /\ o \in Po /\ owner'[<<"po", o>>] = u
                        /\ \A l \in LinesOf(o)' : Remaining(l)' =< TakeOf(u, l)'
      OBVIOUS
    <3>1. o \in Po /\ owner[<<"po", o>>] = u /\ \A l \in LinesOf(o) : Remaining(l) =< TakeOf(u, l)
      BY <2>1 DEF PlanTxOK
    <3>2. owner'[<<"po", o>>] = u
      BY <2>1, <3>1, Resources DEF Kept, RangeLock
    <3>3. \A l : TakeOf(u, l)' = TakeOf(u, l)
      BY <2>2 DEF TakeOf
    <3>4. ASSUME NEW l \in LinesOf(o)'
          PROVE  Remaining(l)' =< TakeOf(u, l)
      <4>1. l \in LinesOf(o) /\ Remaining(l)' =< Remaining(l)
        OBVIOUS
      <4>2. Remaining(l)' \in Int /\ Remaining(l) \in Int
        BY <1>1, <4>1 DEF Types, Remaining, LinesOf, ReceiveLocksAssumption
      <4>3. TakeOf(u, l) \in Nat
        BY <2>1, TakeType
      <4> QED
        BY <3>1, <4>1, <4>2, <4>3
    <3> QED
      BY <3>1, <3>2, <3>3, <3>4
  <2>6. tx[u].kind = "Cancel" /\ tx[u].pc \in {"reopen", "commit"} => <<"line", tx[u].line>> \in exclusive'
    <3>1. tx[u].kind = "Cancel" => tx[u].line \in LineId
      BY <1>1, Arguments
    <3>2. tx[u].kind = "Cancel" /\ tx[u].pc \in {"reopen", "commit"} => owner[<<"line", tx[u].line>>] = u
      BY <2>1 DEF TxOK, CancelOK, PastLine
    <3> QED
      BY <2>1, <3>1, <3>2, Resources DEF PlanTxOK, Kept, RangeLock
  <2>7. tx[u].kind = "Cancel" /\ tx[u].pc = "commit" => \A v \in Tx : tx[u].po \notin tx'[v].closes
    BY <1>2, <2>1 DEF PlanTxOK
  <2> QED
    BY <2>2, <2>3, <2>4, <2>5, <2>6, <2>7 DEF PlanTxOK
<1> QED
  BY <1>3, <1>4 DEF PlanInv

LEMMA PlanCommitLine ==
  ASSUME PlanContext, NEW t \in Tx, Sound(t), CommitLine(t)
  PROVE  PlanInv'
<1>1. /\ Types /\ Types' /\ TxOK(t) /\ PlanTxOK(t) /\ tx[t].pc = "commit"
      /\ tx[t].kind \in {"AddLine", "DeleteLine"}
      /\ UNCHANGED <<taken, header>> /\ tx' = [tx EXCEPT ![t] = Idle]
      /\ ReceiveLocksAssumption /\ LocksInv
  BY AtFree DEF PlanContext, Sound, LocksInv, PlanInv, CommitLine
<1>2. tx[t].line \in LineId /\ tx[t].po = Line[tx[t].line].po
  BY <1>1 DEF TxOK, OpOK
<1>3. owner[<<"line", tx[t].line>>] = t
  BY <1>1 DEF TxOK, LineOK
<1>4. \A l \in LineId \ {tx[t].line} : l \in lines' <=> l \in lines
  BY <1>1 DEF CommitLine
<1>5. Untouched(t)
  BY <1>1, <1>3, <1>4 DEF Untouched
<1>6. tx[t].kind = "AddLine" => header[tx[t].po].status = "open" /\ owner[<<"po", tx[t].po>>] = t
  BY <1>1 DEF TxOK, HeaderOK, PlanTxOK
<1>7. \A o, l : l \in LinesOf(o)' =>
        Remaining(l)' = Remaining(l) /\ (l \in LinesOf(o) \/ (l = tx[t].line /\ o = tx[t].po /\ tx[t].kind = "AddLine"))
  BY <1>1, <1>2, <1>4 DEF LinesOf, Remaining, CommitLine
<1>8. HeaderTypes' /\ ClosedIsFull'
  BY <1>1, <1>6, <1>7 DEF PlanContext, PlanInv, HeaderTypes, ClosedIsFull
<1>9. \A u \in Tx \ {t} : \A o \in tx[u].closes : \A l \in LinesOf(o)' :
        l \in LinesOf(o) /\ Remaining(l)' =< Remaining(l)
  <2>1. \A u \in Tx \ {t} : \A o \in tx[u].closes : owner[<<"po", o>>] = u
    BY DEF PlanContext, PlanInv, PlanTxOK
  <2>2. \A u \in Tx \ {t} : \A o \in tx[u].closes : \A l \in LinesOf(o)' : l \in LinesOf(o)
    BY <1>6, <1>7, <2>1
  <2>3. \A o : \A l \in LinesOf(o) : Remaining(l) \in Int
    BY <1>1 DEF LinesOf, Types, Remaining, ReceiveLocksAssumption
  <2>4. \A o : \A l \in LinesOf(o) : Remaining(l) =< Remaining(l)
    BY <2>3
  <2> QED
    BY <1>7, <2>2, <2>4
<1>10. \A u \in Tx \ {t} : tx[u].kind = "AddLine" /\ tx[u].pc \in {"insert", "commit"} =>
         header'[tx[u].po].status = "open"
  BY <1>1 DEF PlanContext, PlanInv, PlanTxOK
<1> QED
  BY <1>1, <1>5, <1>8, <1>9, <1>10, CommitFrame

LEMMA PlanCommitReceive ==
  ASSUME PlanContext, NEW t \in Tx, Sound(t), CommitReceive(t)
  PROVE  PlanInv'
<1>1. /\ Types /\ TxOK(t) /\ PlanTxOK(t) /\ ReceiveLocksAssumption /\ LocksInv /\ PlanInv
      /\ tx' = [tx EXCEPT ![t] = Idle] /\ lines' = lines
      /\ taken' = [l \in LineId |-> taken[l] + TakeOf(t, l)]
      /\ header' = [o \in Po |-> IF o \in tx[t].closes THEN [header[o] EXCEPT !.status = "closed"] ELSE header[o]]
  BY DEF PlanContext, LocksInv, PlanInv, CommitReceive
<1>2. \A l \in LineId : /\ TakeOf(t, l) \in Nat /\ Remaining(l) \in Int
                        /\ Remaining(l)' = Remaining(l) - TakeOf(t, l)
                        /\ owner[<<"line", l>>] # t => TakeOf(t, l) = 0
  <2> SUFFICES ASSUME NEW l \in LineId
               PROVE  /\ TakeOf(t, l) \in Nat /\ Remaining(l) \in Int
                      /\ Remaining(l)' = Remaining(l) - TakeOf(t, l)
                      /\ owner[<<"line", l>>] # t => TakeOf(t, l) = 0
    OBVIOUS
  <2>1. TakeOf(t, l) \in Nat
    BY <1>1, TakeType
  <2>2. Remaining(l) \in Int /\ Remaining(l)' = Remaining(l) - TakeOf(t, l)
    BY <1>1, <2>1 DEF Remaining, Types, ReceiveLocksAssumption
  <2>3. ASSUME owner[<<"line", l>>] # t
        PROVE  TakeOf(t, l) = 0
    <3>1. \A s \in tx[t].plan : s.line # l
      BY <1>1, <2>3 DEF TxOK, PlanOK
    <3> QED
      BY <1>1, <3>1, TakeIs
  <2> QED
    BY <2>1, <2>2, <2>3
<1>3. HeaderTypes
  BY <1>1 DEF PlanInv
<1>4. \A o \in Po : /\ header'[o] = [f \in {"status", "date"} |-> header'[o][f]]
                    /\ header'[o].date = header[o].date
                    /\ header'[o].status = IF o \in tx[t].closes THEN "closed" ELSE header[o].status
  BY <1>1, <1>3 DEF HeaderTypes
<1>5. \A o \in tx[t].closes :
        /\ o \in Po /\ owner[<<"po", o>>] = t
        /\ \A l \in LinesOf(o) : Remaining(l) =< TakeOf(t, l)
  BY <1>1 DEF PlanTxOK
<1>6. \A o : LinesOf(o)' = LinesOf(o) /\ LinesOf(o) \subseteq LineId
  BY <1>1 DEF LinesOf, Types
<1>7. HeaderTypes'
  BY <1>1, <1>4 DEF HeaderTypes
<1>8. ClosedIsFull'
  <2> SUFFICES ASSUME NEW o \in Po, header'[o].status # "open", NEW l \in LinesOf(o)
               PROVE  Remaining(l)' =< 0
    BY <1>6 DEF ClosedIsFull
  <2>0. l \in LineId
    BY <1>6
  <2> PICK left, drawn, rest : left = Remaining(l) /\ drawn = TakeOf(t, l) /\ rest = Remaining(l)'
    OBVIOUS
  <2>a. left \in Int /\ drawn \in Nat /\ rest = left - drawn
    BY <1>2, <2>0
  <2>1. CASE o \in tx[t].closes
    <3>1. left =< drawn
      BY <1>5, <2>1
    <3> QED
      BY <2>a, <3>1
  <2>2. CASE o \notin tx[t].closes
    <3>1. left =< 0
      BY <1>1, <1>4, <2>2 DEF PlanInv, ClosedIsFull
    <3> QED
      BY <2>a, <3>1
  <2> QED
    BY <2>1, <2>2
<1>9. Untouched(t)
  <2> SUFFICES ASSUME NEW l \in LineId, owner[<<"line", l>>] # t
               PROVE  /\ l \in lines' <=> l \in lines
                      /\ taken'[l] = taken[l]
                      /\ l \in lines /\ Remaining(l) > 0 =>
                            (header'[Line[l].po].status = "open" <=> header[Line[l].po].status = "open")
    BY <1>4 DEF Untouched
  <2>1. TakeOf(t, l) = 0
    BY <1>2
  <2>2. taken'[l] = taken[l]
    BY <1>1, <2>1 DEF Types
  <2>3. l \in lines /\ Remaining(l) > 0 => Line[l].po \notin tx[t].closes
    <3>1. l \in lines /\ Line[l].po \in tx[t].closes => Remaining(l) =< 0
      BY <1>5, <2>1 DEF LinesOf
    <3> QED
      BY <1>2, <3>1
  <2>4. Line[l].po \in Po
    BY <1>1 DEF ReceiveLocksAssumption
  <2> QED
    BY <1>1, <1>4, <2>2, <2>3, <2>4
<1>10. \A u \in Tx \ {t} : \A o \in tx[u].closes : \A l \in LinesOf(o)' :
         l \in LinesOf(o) /\ Remaining(l)' =< Remaining(l)
  <2>1. \A l \in LineId : Remaining(l)' =< Remaining(l)
    <3> SUFFICES ASSUME NEW l \in LineId
                 PROVE  Remaining(l)' =< Remaining(l)
      OBVIOUS
    <3> PICK left, drawn, rest : left = Remaining(l) /\ drawn = TakeOf(t, l) /\ rest = Remaining(l)'
      OBVIOUS
    <3>1. left \in Int /\ drawn \in Nat /\ rest = left - drawn
      BY <1>2
    <3> QED
      BY <3>1
  <2> QED
    BY <1>6, <2>1
<1>11. ASSUME NEW u \in Tx \ {t}, tx[u].kind = "AddLine", tx[u].pc \in {"insert", "commit"}
       PROVE  header'[tx[u].po].status = "open"
  <2>1. TxOK(u) /\ PlanTxOK(u) /\ tx[u].po \in Po
    BY <1>1, <1>11, Arguments DEF LocksInv, PlanInv
  <2>2. owner[<<"po", tx[u].po>>] = u /\ header[tx[u].po].status = "open"
    BY <1>11, <2>1 DEF TxOK, HeaderOK, PlanTxOK
  <2>3. tx[u].po \notin tx[t].closes
    BY <1>5, <2>2
  <2> QED
    BY <1>4, <2>1, <2>2, <2>3
<1> QED
  BY <1>1, <1>7, <1>8, <1>9, <1>10, <1>11, CommitFrame

LEMMA PlanCommitCancel ==
  ASSUME PlanContext, NEW t \in Tx, Sound(t), CommitCancel(t)
  PROVE  PlanInv'
<1> PICK k, p : k = tx[t].line /\ p = tx[t].po
  OBVIOUS
<1>1. /\ Types /\ Types' /\ TxOK(t) /\ PlanTxOK(t) /\ ReceiveLocksAssumption /\ LocksInv /\ PlanInv
      /\ tx[t].kind = "Cancel" /\ tx[t].pc = "commit"
      /\ tx' = [tx EXCEPT ![t] = Idle] /\ lines' = lines
      /\ taken' = [taken EXCEPT ![Original(t).line] = @ - Original(t).qty]
      /\ header' = [header EXCEPT ![p].status = "open"]
  BY AtFree DEF PlanContext, Sound, LocksInv, PlanInv, CommitCancel
<1>2. /\ k \in LineId /\ p = Line[k].po /\ p \in Po /\ owner[<<"line", k>>] = t
      /\ Original(t).line = k
      /\ \A u \in Tx : p \notin tx[u].closes
  BY <1>1, Arguments, OriginalIs DEF TxOK, OpOK, CancelOK, PastLine, PlanTxOK
<1>3. \A l \in LineId \ {k} : taken'[l] = taken[l]
  BY <1>1, <1>2 DEF Types
<1>4. HeaderTypes
  BY <1>1 DEF PlanInv
<1>5. /\ \A o \in Po : /\ header'[o] = [f \in {"status", "date"} |-> header'[o][f]]
                       /\ header'[o].date = header[o].date
                       /\ o # p => header'[o].status = header[o].status
      /\ header'[p].status = "open"
      /\ header' = [o \in Po |-> header'[o]]
  BY <1>1, <1>2, <1>4 DEF HeaderTypes
<1>6. \A o : LinesOf(o)' = LinesOf(o) /\ LinesOf(o) \subseteq LineId
  BY <1>1 DEF LinesOf, Types
<1>7. \A o : \A l \in LinesOf(o) : o # p => Remaining(l)' = Remaining(l) /\ Remaining(l) \in Int
  <2> SUFFICES ASSUME NEW o, NEW l \in LinesOf(o), o # p
               PROVE  Remaining(l)' = Remaining(l) /\ Remaining(l) \in Int
    OBVIOUS
  <2>1. l # k /\ l \in LineId
    BY <1>2, <1>6 DEF LinesOf
  <2> QED
    BY <1>1, <1>3, <2>1 DEF Remaining, Types, ReceiveLocksAssumption
<1>8. HeaderTypes'
  BY <1>5 DEF HeaderTypes
<1>9. ClosedIsFull'
  BY <1>1, <1>5, <1>6, <1>7 DEF PlanInv, ClosedIsFull
<1>10. Untouched(t)
  <2> SUFFICES ASSUME NEW l \in LineId, owner[<<"line", l>>] # t
               PROVE  /\ l \in lines' <=> l \in lines
                      /\ taken'[l] = taken[l]
                      /\ l \in lines /\ Remaining(l) > 0 =>
                            (header'[Line[l].po].status = "open" <=> header[Line[l].po].status = "open")
    BY <1>5 DEF Untouched
  <2>1. l # k /\ Line[l].po \in Po
    BY <1>1, <1>2 DEF ReceiveLocksAssumption
  <2>2. Remaining(l) \in Int
    BY <1>1 DEF Remaining, Types, ReceiveLocksAssumption
  <2>3. l \in lines /\ Remaining(l) > 0 => header[Line[l].po].status = "open"
    <3>1. l \in lines /\ header[Line[l].po].status # "open" => Remaining(l) =< 0
      BY <1>1, <2>1 DEF PlanInv, ClosedIsFull, LinesOf
    <3> QED
      BY <2>2, <3>1
  <2> QED
    BY <1>1, <1>3, <1>5, <2>1, <2>3
<1>11. \A u \in Tx \ {t} : \A o \in tx[u].closes : \A l \in LinesOf(o)' :
         l \in LinesOf(o) /\ Remaining(l)' =< Remaining(l)
  <2> SUFFICES ASSUME NEW u \in Tx \ {t}, NEW o \in tx[u].closes, NEW l \in LinesOf(o)
               PROVE  Remaining(l)' =< Remaining(l)
    BY <1>6
  <2>1. o # p
    BY <1>2
  <2>2. Remaining(l)' = Remaining(l) /\ Remaining(l) \in Int
    BY <1>7, <2>1
  <2> QED
    BY <2>2
<1>12. \A u \in Tx \ {t} : tx[u].kind = "AddLine" /\ tx[u].pc \in {"insert", "commit"} =>
         header'[tx[u].po].status = "open"
  <2> SUFFICES ASSUME NEW u \in Tx \ {t}, tx[u].kind = "AddLine", tx[u].pc \in {"insert", "commit"}
               PROVE  header'[tx[u].po].status = "open"
    OBVIOUS
  <2>1. tx[u].po \in Po /\ header[tx[u].po].status = "open"
    BY <1>1, Arguments DEF PlanInv, PlanTxOK
  <2> QED
    BY <1>5, <2>1
<1> QED
  BY <1>1, <1>8, <1>9, <1>10, <1>11, <1>12, CommitFrame

LEMMA PlanStep ==
  ReceiveLocksAssumption /\ HeadersStay /\ LocksInv /\ PlanInv /\ [Next]_vars => PlanInv'
<1> SUFFICES ASSUME PlanContext, [Next]_vars
             PROVE  PlanInv'
  BY DEF PlanContext
<1>1. ASSUME NEW t \in Tx, Proceeds(t)
      PROVE  PlanInv'
  <2>1. Sound(t)
    BY <1>1, TxStep DEF PlanContext
  <2>2. CASE LockPull(t) \/ WriteSlices(t) \/ AutoCloseLocks(t) \/ LockReceipt(t) \/ WriteReversal(t)
    BY <2>1, <2>2, PlanOfLocks
  <2>3. CASE LockPo(t) \/ InsertLine(t) \/ LockLine(t) \/ WriteHeader(t)
    BY <2>1, <2>3, PlanEdits
  <2>4. CASE ReadOpenPoLines(t) \/ AutoCloseNext(t) \/ AutoClose(t) \/ Reopen(t)
    BY <2>1, <2>4, PlanReadOpenPoLines, PlanAutoCloseNext, PlanAutoClose, PlanReopen
  <2>5. CASE CommitReceive(t) \/ CommitCancel(t) \/ CommitLine(t)
    BY <2>1, <2>5, PlanCommitReceive, PlanCommitCancel, PlanCommitLine
  <2>6. CASE CommitHeader(t)
    <3>1. PlanTxOK(t) /\ tx[t].kind \in {"ClosePo", "UpdatePo"}
      BY <2>6 DEF PlanContext, PlanInv, CommitHeader
    <3> QED
      BY <3>1 DEF PlanContext, HeadersStay, PlanTxOK
  <2>7. CASE Referenced(t) \/ Victim(t)
    BY <2>1, <2>7, PlanRollback DEF Referenced, Victim
  <2> QED
    BY <1>1, <2>2, <2>3, <2>4, <2>5, <2>6, <2>7 DEF Proceeds
<1>2. CASE UNCHANGED vars
  <2>1. HeaderTypes' /\ ClosedIsFull'
    BY <1>2 DEF PlanContext, PlanInv, vars, HeaderTypes, ClosedIsFull, LinesOf, Remaining
  <2>2. \A t \in Tx : PlanTxOK(t)'
    <3> SUFFICES ASSUME NEW t \in Tx
                 PROVE  PlanTxOK(t)'
      OBVIOUS
    <3>1. PlanTxOK(t) /\ Types
      BY DEF PlanContext, PlanInv, LocksInv
    <3>2. \A l : TakeOf(t, l)' = TakeOf(t, l) /\ Remaining(l)' = Remaining(l)
      BY <1>2 DEF vars, TakeOf, Remaining
    <3>3. \A o : LinesOf(o)' = LinesOf(o)
      BY <1>2 DEF vars, LinesOf
    <3> PICK i, q : i = tx[t].item /\ q = tx[t].qty
      OBVIOUS
    <3>4. Plan(i, q)' = Plan(i, q)
      BY <1>2, <3>1, PlanStays DEF vars
    <3>5. Plan(tx[t].item, tx[t].qty)' = Plan(i, q)'
      BY <1>2 DEF vars
    <3>6. Plan(tx[t].item, tx[t].qty) = Plan(i, q)
      OBVIOUS
    <3> QED
      BY <1>2, <3>1, <3>2, <3>3, <3>4, <3>5, <3>6 DEF vars, PlanTxOK
  <2> QED
    BY <2>1, <2>2 DEF PlanInv
<1> QED
  BY <1>1, <1>2, PlanCall DEF Next

LEMMA PlanMeans == PlanInv => PlanHolds
BY DEF PlanInv, PlanTxOK, PlanHolds, Planned

(* PlanHolds: while no header is edited from outside, the plan a receive   *)
(* made under its locks is the plan it would make again at every later     *)
(* statement, whatever receives, cancels and line edits run beside it.     *)
THEOREM PlanCorrect ==
  ASSUME ReceiveLocksAssumption, HeadersStay
  PROVE  Spec => []PlanHolds
<1>1. Init => LocksInv /\ PlanInv
  BY LocksInit, PlanInit
<1>2. (LocksInv /\ PlanInv) /\ [Next]_vars => (LocksInv /\ PlanInv)'
  BY LocksStep, PlanStep
<1> QED
  BY <1>1, <1>2, PlanMeans, PTL DEF Spec

-----------------------------------------------------------------------------
(* Deadlock, where receives and cancels work on one item.                  *)
HoldContext == ReceiveLocksAssumption /\ OneItem /\ LocksInv /\ HoldsInv

LEMMA HoldsFrame ==
  ASSUME HoldContext, NEW t \in Tx, Sound(t), Holds(t)'
  PROVE  HoldsInv'
<1>1. ASSUME NEW u \in Tx \ {t}
      PROVE  Holds(u)'
  <2>1. Holds(u) /\ Kept(u)
    BY DEF HoldContext, HoldsInv, Sound
  <2>2. \A l \in LineId : owner[<<"line", l>>] = u => owner'[<<"line", l>>] = u
    BY <2>1, Resources DEF Kept, RangeLock
  <2> QED
    BY <2>1, <2>2 DEF Holds, Kept
<1> QED
  BY <1>1 DEF HoldsInv

(* At the end nothing is held.                                             *)
LEMMA HoldsEnd ==
  ASSUME HoldContext, NEW t \in Tx, Sound(t), tx' = [tx EXCEPT ![t] = Idle]
  PROVE  HoldsInv'
<1>1. tx'[t].kind = "none" /\ tx'[t].pc = "idle"
  BY Ends DEF HoldContext, LocksInv
<1>2. \A r \in Resource : owner'[r] # t
  BY <1>1 DEF Sound, LocksInv, TxOK, IdleOK
<1>3. Holds(t)'
  BY <1>1, <1>2 DEF Holds
<1> QED
  BY <1>3, HoldsFrame

(* What is held may still be held at the next statement, and what it locks *)
(* may be.                                                                 *)
MayGo(t, pc, set) ==
    LET x == tx[t] IN
    /\ x.kind = "Receive" /\ pc \in Planned =>
          x.pc \in Planned \/ (LineId # {} /\ \A l \in LineId : <<"line", l>> \in set)
    /\ \A r \in Resource : MayHold(x.kind, x.pc, r) \/ r \in set => MayHold(x.kind, pc, r)

LEMMA HoldsGo ==
  ASSUME HoldContext, NEW t \in Tx, Sound(t), NEW pc, NEW update, NEW write,
         Goto(t, pc), Lock(t, update, write), MayGo(t, pc, update \cup write)
  PROVE  HoldsInv'
<1>1. Types /\ Holds(t)
  BY DEF HoldContext, HoldsInv, LocksInv
<1>2. tx'[t].pc = pc /\ tx'[t].kind = tx[t].kind
  BY <1>1, Goes DEF Fields
<1>3. \A r \in Resource : owner'[r] = IF r \in update \cup write THEN t ELSE owner[r]
  BY DEF Lock
<1>4. Holds(t)'
  <2>1. tx[t].kind = "Receive" /\ pc \in Planned =>
          LineId # {} /\ \A l \in LineId : owner'[<<"line", l>>] = t
    BY <1>1, <1>3, Resources DEF Holds, MayGo
  <2>2. \A r \in Resource : owner'[r] = t => MayHold(tx[t].kind, pc, r)
    BY <1>1, <1>3 DEF Holds, MayGo
  <2> QED
    BY <1>1, <1>2, <2>1, <2>2 DEF Holds
<1> QED
  BY <1>4, HoldsFrame

LEMMA HoldsLock ==
  ASSUME HoldContext, NEW t \in Tx, Sound(t),
         LockPull(t) \/ WriteSlices(t) \/ AutoCloseLocks(t) \/ LockReceipt(t) \/ WriteReversal(t)
         \/ Reopen(t) \/ LockLine(t)
  PROVE  HoldsInv'
<1>1. Types /\ TxOK(t) /\ Holds(t) /\ ReceiveLocksAssumption /\ LocksInv
  BY DEF HoldContext, HoldsInv, LocksInv
<1>2. CASE LockPull(t)
  <2>1. tx[t].pc = "pull" /\ Needs(t) = {<<"pull", tx[t].pull>>} /\ tx[t].kind \in {"Receive", "Cancel"}
    BY <1>1, <1>2, AtFree, NeedsAt, KindAt DEF LockPull
  <2> PICK pc : pc = IF tx[t].kind = "Receive" THEN "lines" ELSE "line"
    OBVIOUS
  <2>2. Goto(t, pc) /\ Lock(t, Needs(t), {})
    BY <1>2, Locking DEF LockPull
  <2>3. MayGo(t, pc, Needs(t) \cup {})
    BY <2>1 DEF MayGo, MayHold, Planned, PastReceipt, PastLine
  <2> QED
    BY <2>2, <2>3, HoldsGo
<1>3. CASE WriteSlices(t)
  <2> DEFINE write == {<<table, s.line>> : table \in {"line", "receipts"}, s \in tx[t].plan}
  <2>1. Goto(t, "header") /\ Lock(t, {}, write)
    BY <1>3 DEF WriteSlices
  <2>2. tx[t].pc = "write" /\ tx[t].kind = "Receive"
    BY <1>3, AtFree DEF WriteSlices
  <2>3. \A r \in write : r[1] \in {"line", "receipts"}
    OBVIOUS
  <2> HIDE DEF write
  <2>4. MayGo(t, "header", {} \cup write)
    BY <2>2, <2>3 DEF MayGo, MayHold, Planned, PastReceipt, PastLine
  <2> QED
    BY <2>1, <2>4, HoldsGo
<1>4. CASE AutoCloseLocks(t)
  <2>1. tx[t].pc = "autoclose" /\ Needs(t) = {<<"po", tx[t].po>>} /\ tx[t].kind = "Receive"
    BY <1>1, <1>4, AtFree, NeedsAt, KindAt DEF AutoCloseLocks
  <2>2. Goto(t, "check") /\ Lock(t, Needs(t), {})
    BY <1>4 DEF AutoCloseLocks
  <2>3. MayGo(t, "check", Needs(t) \cup {})
    BY <2>1 DEF MayGo, MayHold, Planned, PastReceipt, PastLine
  <2> QED
    BY <2>2, <2>3, HoldsGo
<1>5. CASE LockReceipt(t)
  <2>1. tx[t].pc = "receipt" /\ Needs(t) = {<<"receipt", tx[t].receipt>>} /\ tx[t].kind = "Cancel"
    BY <1>1, <1>5, AtFree, NeedsAt, KindAt DEF LockReceipt
  <2>2. CASE Original(t).voided
    BY <1>5, <2>2, HoldsEnd DEF LockReceipt, Rollback
  <2>3. CASE ~Original(t).voided
    <3>1. Goto(t, "pull") /\ Lock(t, Needs(t), {})
      BY <1>5, <2>3, Locking DEF LockReceipt
    <3>2. MayGo(t, "pull", Needs(t) \cup {})
      BY <2>1 DEF MayGo, MayHold, Planned, PastReceipt, PastLine
    <3> QED
      BY <3>1, <3>2, HoldsGo
  <2> QED
    BY <2>2, <2>3
<1>6. CASE WriteReversal(t)
  <2> DEFINE write == {<<"line", tx[t].line>>, <<"receipts", tx[t].line>>, <<"receipt", tx[t].receipt>>}
  <2>1. Goto(t, "reopen") /\ Lock(t, {}, write) /\ tx[t].kind = "Cancel" /\ tx[t].pc = "write"
    BY <1>6, AtFree DEF WriteReversal
  <2>2. \A r \in write : r[1] \in {"line", "receipts", "receipt"}
    OBVIOUS
  <2> HIDE DEF write
  <2>3. MayGo(t, "reopen", {} \cup write)
    BY <2>1, <2>2 DEF MayGo, MayHold, Planned, PastReceipt, PastLine
  <2> QED
    BY <2>1, <2>3, HoldsGo
<1>7. CASE Reopen(t)
  <2> PICK write : write = IF header[tx[t].po].status = "closed" THEN Needs(t) ELSE {}
    OBVIOUS
  <2>1. Goto(t, "commit") /\ Lock(t, {}, write)
    BY <1>7 DEF Reopen
  <2>2. tx[t].pc = "reopen" /\ Needs(t) = {<<"po", tx[t].po>>} /\ tx[t].kind = "Cancel"
    BY <1>1, <1>7, AtFree, NeedsAt, KindAt DEF Reopen
  <2>3. \A r \in write : r = <<"po", tx[t].po>>
    BY <2>2
  <2>4. MayGo(t, "commit", {} \cup write)
    BY <2>2, <2>3 DEF MayGo, MayHold, Planned, PastReceipt, PastLine
  <2> QED
    BY <2>1, <2>4, HoldsGo
<1>8. CASE LockLine(t)
  <2>1. tx[t].pc = "line" /\ Needs(t) = {<<"line", tx[t].line>>} /\ tx[t].kind = "Cancel"
    BY <1>1, <1>8, AtFree, NeedsAt, KindAt DEF LockLine, Holds
  <2>2. CASE tx[t].line \notin lines
    BY <1>8, <2>2, HoldsEnd DEF LockLine, Rollback
  <2>3. CASE tx[t].line \in lines
    <3>1. Goto(t, "write") /\ Lock(t, Needs(t), {})
      BY <1>8, <2>1, <2>3, Locking DEF LockLine
    <3>2. MayGo(t, "write", Needs(t) \cup {})
      BY <2>1 DEF MayGo, MayHold, Planned, PastReceipt, PastLine
    <3> QED
      BY <3>1, <3>2, HoldsGo
  <2> QED
    BY <2>2, <2>3
<1> QED
  BY <1>2, <1>3, <1>4, <1>5, <1>6, <1>7, <1>8

LEMMA HoldsReadOpenPoLines ==
  ASSUME HoldContext, NEW t \in Tx, Sound(t), ReadOpenPoLines(t)
  PROVE  HoldsInv'
<1>1. /\ Types /\ TxOK(t) /\ Holds(t) /\ ReceiveLocksAssumption
      /\ tx[t].pc = "lines" /\ Needs(t) = Hinted(tx[t].item)
  BY AtFree, NeedsAt DEF HoldContext, HoldsInv, LocksInv, ReadOpenPoLines
<1>2. tx[t].kind = "Receive" /\ tx[t].qty \in 1 .. MaxQty
  BY <1>1, KindAt DEF TxOK, OpOK
<1>3. CASE Available(tx[t].item) < tx[t].qty
  BY <1>3, HoldsEnd DEF ReadOpenPoLines, Rollback
<1>4. CASE ~(Available(tx[t].item) < tx[t].qty)
  <2> PICK plan, todo : /\ plan = Plan(tx[t].item, tx[t].qty)
                        /\ todo = {Line[s.line].po : s \in plan}
    OBVIOUS
  <2>1. /\ Lock(t, Needs(t), {})
        /\ tx' = [tx EXCEPT ![t].pc = "write", ![t].plan = plan, ![t].todo = todo]
    BY <1>4 DEF ReadOpenPoLines
  <2>2. tx'[t].pc = "write" /\ tx'[t].kind = "Receive"
    BY <1>1, <1>2, <2>1 DEF Types, Fields
  <2>3. LinesFor(tx[t].item) # {} /\ LinesFor(tx[t].item) \subseteq LineId
    <3>1. CASE LinesFor(tx[t].item) = {}
      <4>1. Candidates(tx[t].item) = {}
        BY <3>1 DEF Candidates
      <4>2. Available(tx[t].item) = 0
        BY <4>1, SumEmpty DEF Available, PiecesOn
      <4>3. tx[t].qty \in Int /\ tx[t].qty >= 1
        BY <1>1, <1>2 DEF ReceiveLocksAssumption
      <4> QED
        BY <1>4, <4>2, <4>3
    <3>2. LinesFor(tx[t].item) \subseteq LineId
      BY <1>1 DEF Types, LinesFor
    <3> QED
      BY <3>1, <3>2
  <2>4. \A l \in LineId : Line[l].item = tx[t].item
    BY <2>3 DEF LinesFor, HoldContext, OneItem
  <2>5. \A l \in LineId : <<"line", l>> \in Needs(t)
    BY <1>1, <2>4 DEF Hinted
  <2>6. \A r \in Needs(t) : r[1] = "line"
    BY <1>1 DEF Hinted
  <2>7. \A r \in Resource : owner'[r] = IF r \in Needs(t) THEN t ELSE owner[r]
    BY <2>1 DEF Lock
  <2>8. Holds(t)'
    <3>1. LineId # {}
      BY <2>3
    <3>2. \A l \in LineId : owner'[<<"line", l>>] = t
      BY <2>5, <2>7, Resources
    <3>3. \A r \in Resource : owner'[r] = t => MayHold("Receive", "write", r)
      BY <1>1, <1>2, <2>6, <2>7 DEF Holds, MayHold, Planned, PastReceipt, PastLine
    <3> QED
      BY <2>2, <3>1, <3>2, <3>3 DEF Holds
  <2> QED
    BY <2>8, HoldsFrame
<1> QED
  BY <1>3, <1>4

LEMMA HoldsAutoClose ==
  ASSUME HoldContext, NEW t \in Tx, Sound(t), AutoCloseNext(t) \/ AutoClose(t)
  PROVE  HoldsInv'
<1> PICK o : o = tx[t].po
  OBVIOUS
<1>1. Types /\ TxOK(t) /\ Holds(t) /\ ReceiveLocksAssumption /\ LocksInv
  BY DEF HoldContext, HoldsInv, LocksInv
<1>2. tx[t].kind = "Receive" /\ tx[t].pc \in {"header", "check"}
  BY <1>1, AtFree, KindAt DEF AutoCloseNext, AutoClose
<1>3. tx'[t].kind = "Receive" /\ tx'[t].pc \in {"header", "autoclose", "commit"}
  <2>1. CASE AutoCloseNext(t)
    <3>1. CASE tx[t].todo = {}
      BY <1>1, <1>2, <2>1, <3>1 DEF Types, Fields, Goto, AutoCloseNext
    <3>2. CASE tx[t].todo # {}
      <4>1. PICK p \in tx[t].todo :
              tx' = [tx EXCEPT ![t].pc = "autoclose", ![t].po = p, ![t].todo = @ \ {p}]
        BY <2>1, <3>2 DEF AutoCloseNext
      <4> QED
        BY <1>1, <1>2, <4>1 DEF Types, Fields
    <3> QED
      BY <3>1, <3>2
  <2>2. CASE AutoClose(t)
    <3>1. CASE tx' = [tx EXCEPT ![t].pc = "header", ![t].closes = tx[t].closes \cup {o}]
      <4>1. Shaped(tx)
        BY <1>1 DEF Types, Shaped
      <4>2. SetsTwo(tx, tx', t, "header", tx[t].closes \cup {o})
        BY <3>1 DEF SetsTwo
      <4> QED
        BY <1>2, <4>1, <4>2, Closes
    <3>2. CASE Goto(t, "header")
      BY <1>1, <1>2, <3>2, Goes DEF Fields
    <3> QED
      BY <2>2, <3>1, <3>2 DEF AutoClose
  <2> QED
    BY <2>1, <2>2
<1>4. \A r \in Resource : \/ owner'[r] = owner[r]
                          \/ r = <<"po", o>>
  BY <1>1 DEF Types, AutoCloseNext, AutoClose, Lock, Tables
<1>5. Holds(t)'
  <2>1. LineId # {} /\ \A l \in LineId : owner'[<<"line", l>>] = t
    BY <1>1, <1>2, <1>4, Resources DEF Holds, Planned
  <2>2. \A r \in Resource : owner'[r] = t => MayHold(tx'[t].kind, tx'[t].pc, r)
    BY <1>1, <1>2, <1>3, <1>4 DEF Holds, MayHold, Planned, PastReceipt, PastLine
  <2> QED
    BY <1>3, <2>1, <2>2 DEF Holds
<1> QED
  BY <1>5, HoldsFrame

LEMMA HoldsCall ==
  ASSUME HoldContext, NEW t \in Tx, Call(t)
  PROVE  HoldsInv'
<1>1. Sound(t) /\ Begun(t)
  BY CallStep DEF HoldContext
<1>2. /\ tx'[t].kind \in {"Receive", "Cancel"} /\ tx'[t].pc \in {"pull", "receipt", "po", "line"}
      /\ UNCHANGED owner
  BY <1>1 DEF Begun, HoldContext, OneItem
<1>3. tx[t].pc = "idle"
  BY DEF Call, Begin
<1>4. \A r \in Resource : owner'[r] # t
  BY <1>2, <1>3 DEF HoldContext, LocksInv, TxOK, IdleOK
<1>5. Holds(t)'
  BY <1>2, <1>4 DEF Holds, Planned
<1> QED
  BY <1>1, <1>5, HoldsFrame

LEMMA HoldsInit == ReceiveLocksAssumption /\ Init => HoldsInv
<1> SUFFICES ASSUME ReceiveLocksAssumption, Init, NEW t \in Tx
             PROVE  Holds(t)
  BY DEF HoldsInv
<1>1. tx[t].kind = "none" /\ \A r \in Resource : owner[r] # t
  BY DEF ReceiveLocksAssumption, Init, Idle
<1> QED
  BY <1>1 DEF Holds

LEMMA HoldsStep ==
  ReceiveLocksAssumption /\ OneItem /\ LocksInv /\ HoldsInv /\ [Next]_vars => HoldsInv'
<1> SUFFICES ASSUME HoldContext, [Next]_vars
             PROVE  HoldsInv'
  BY DEF HoldContext
<1>1. ASSUME NEW t \in Tx, Proceeds(t)
      PROVE  HoldsInv'
  <2>1. Sound(t) /\ TxOK(t) /\ tx[t].kind \in {"none", "Receive", "Cancel"}
    BY <1>1, TxStep DEF HoldContext, LocksInv, HoldsInv, Holds
  <2>2. CASE LockPull(t) \/ WriteSlices(t) \/ AutoCloseLocks(t) \/ LockReceipt(t) \/ WriteReversal(t)
             \/ Reopen(t) \/ LockLine(t)
    BY <2>1, <2>2, HoldsLock
  <2>3. CASE ReadOpenPoLines(t)
    BY <2>1, <2>3, HoldsReadOpenPoLines
  <2>4. CASE AutoCloseNext(t) \/ AutoClose(t)
    BY <2>1, <2>4, HoldsAutoClose
  <2>5. CASE CommitReceive(t) \/ CommitCancel(t) \/ CommitLine(t) \/ CommitHeader(t)
    BY <2>1, <2>5, HoldsEnd DEF CommitReceive, CommitCancel, CommitLine, CommitHeader
  <2>6. CASE Referenced(t) \/ Victim(t)
    BY <2>1, <2>6, HoldsEnd DEF Referenced, Victim, Rollback
  <2>7. CASE LockPo(t) \/ InsertLine(t) \/ WriteHeader(t)
    <3>1. tx[t].pc \in {"po", "insert", "sum", "count"}
      BY <2>7, AtFree DEF LockPo, InsertLine, WriteHeader
    <3> QED
      BY <2>1, <3>1, KindAt
  <2> QED
    BY <1>1, <2>2, <2>3, <2>4, <2>5, <2>6, <2>7 DEF Proceeds
<1>2. CASE UNCHANGED vars
  BY <1>2 DEF HoldContext, HoldsInv, Holds, vars
<1> QED
  BY <1>1, <1>2, HoldsCall DEF Next

(* Who waits, and for whom: each waits only for one that is further on.    *)
Waiting == {"receipt", "pull", "lines", "line", "reopen"}

LEMMA OthersHaveNone ==
  ASSUME HoldContext, NEW t \in Tx, NEW u \in Tx \ {t},
         tx[t].kind = "Receive", tx[t].pc \in Planned
  PROVE  ~(tx[u].kind = "Receive" /\ tx[u].pc \in Planned) /\ ~(tx[u].kind = "Cancel" /\ tx[u].pc \in PastLine)
<1>1. Holds(t) /\ Holds(u) /\ TxOK(u) /\ LocksInv
  BY DEF HoldContext, HoldsInv, LocksInv
<1>2. LineId # {} /\ \A l \in LineId : owner[<<"line", l>>] = t
  BY <1>1 DEF Holds
<1>3. tx[u].kind = "Cancel" => tx[u].line \in LineId
  BY <1>1, Arguments DEF HoldContext
<1>4. tx[u].kind = "Cancel" /\ tx[u].pc \in PastLine => owner[<<"line", tx[u].line>>] = u
  BY <1>1 DEF TxOK, CancelOK
<1>5. PICK l \in LineId : owner[<<"line", l>>] = t
  BY <1>2
<1>6. ~(tx[u].kind = "Receive" /\ tx[u].pc \in Planned)
  BY <1>1, <1>5 DEF Holds
<1>7. ~(tx[u].kind = "Cancel" /\ tx[u].pc \in PastLine)
  BY <1>2, <1>3, <1>4
<1> QED
  BY <1>6, <1>7

LEMMA WaitsFor ==
  ASSUME HoldContext, NEW t \in Tx, NEW u \in Tx, u \in Blockers(t)
  PROVE  /\ tx[t].pc \in Waiting
         /\ tx[t].pc = "reopen" => tx[u].pc = "commit"
         /\ tx[t].pc \in {"line", "lines"} => tx[u].pc \in Planned \cup PastLine
         /\ tx[t].pc = "pull" => tx[u].pc \in {"lines", "line"} \cup Planned \cup PastLine
         /\ tx[t].pc = "receipt" => tx[u].pc \in PastReceipt
<1>1. /\ TxOK(t) /\ TxOK(u) /\ Holds(t) /\ Holds(u) /\ Types /\ LocksInv /\ ReceiveLocksAssumption
  BY DEF HoldContext, LocksInv, HoldsInv
<1>2. PICK r \in Needs(t) \cup Reads(t) : owner[r] = u /\ ~Free(t, r)
  BY DEF Blockers, Readable
<1>3. u # t
  BY <1>2 DEF Free
<1>4. r \in Resource => MayHold(tx[u].kind, tx[u].pc, r)
  BY <1>1, <1>2 DEF Holds
<1>5. tx[t].kind \in {"none", "Receive", "Cancel"} /\ tx[t].pc \in Statements(tx[t].kind)
  BY <1>1 DEF Holds, TxOK, OpOK
<1>6. CASE tx[t].pc = "receipt"
  <2>1. r = <<"receipt", tx[t].receipt>> /\ tx[t].kind = "Cancel"
    BY <1>1, <1>2, <1>6, NeedsAt, KindAt DEF Reads
  <2>2. r \in Resource
    BY <1>1, <2>1, Arguments, Resources
  <2> QED
    BY <1>4, <1>6, <2>1, <2>2 DEF MayHold, Waiting
<1>7. CASE tx[t].pc = "pull"
  <2>1. r = <<"pull", tx[t].pull>> /\ tx[t].kind \in {"Receive", "Cancel"}
    BY <1>1, <1>2, <1>7, NeedsAt, KindAt DEF Reads
  <2>2. r \in Resource
    BY <1>1, <2>1, Arguments, Resources
  <2>3. tx[u].kind = "Receive" /\ tx[u].pc # "pull" => tx[u].pc \in {"lines"} \cup Planned
    BY <1>1 DEF TxOK, OpOK, Statements
  <2> QED
    BY <1>4, <1>7, <2>1, <2>2, <2>3 DEF MayHold, Waiting
<1>8. CASE tx[t].pc = "lines"
  <2>1. r \in Hinted(tx[t].item) \cup {<<"po", Line[l].po>> : l \in LinesFor(tx[t].item)}
    BY <1>2, <1>8, NeedsAt DEF Reads
  <2>2. LinesFor(tx[t].item) \subseteq LineId
    BY <1>1 DEF Types, LinesFor
  <2>3. r \in Resource /\ r[1] \in {"line", "po"}
    <3>1. CASE r \in Hinted(tx[t].item)
      <4>1. PICK l \in LineId : r = <<"line", l>>
        BY <3>1 DEF Hinted
      <4> QED
        BY <4>1, Resources
    <3>2. CASE r \in {<<"po", Line[l].po>> : l \in LinesFor(tx[t].item)}
      <4>1. PICK l \in LineId : r = <<"po", Line[l].po>>
        BY <2>2, <3>2
      <4>2. Line[l].po \in Po
        BY <1>1 DEF ReceiveLocksAssumption
      <4> QED
        BY <4>1, <4>2, Resources
    <3> QED
      BY <2>1, <3>1, <3>2
  <2> QED
    BY <1>4, <1>8, <2>3 DEF MayHold, Waiting, PastLine
<1>9. CASE tx[t].pc = "line"
  <2>1. r \in {<<"line", tx[t].line>>, <<"po", tx[t].po>>} /\ tx[t].kind = "Cancel"
    BY <1>1, <1>2, <1>5, <1>9, NeedsAt, KindAt DEF Reads
  <2>2. r \in Resource /\ r[1] \in {"line", "po"}
    <3>1. tx[t].line \in LineId /\ tx[t].po \in Po
      BY <1>1, <2>1, Arguments
    <3>2. <<"line", tx[t].line>> \in Resource /\ <<"po", tx[t].po>> \in Resource
      BY <3>1, Resources
    <3>3. r = <<"line", tx[t].line>> \/ r = <<"po", tx[t].po>>
      BY <2>1
    <3> QED
      BY <3>2, <3>3
  <2> QED
    BY <1>4, <1>9, <2>2 DEF MayHold, Waiting, PastLine
<1>10. CASE tx[t].pc = "reopen"
  <2>1. r = <<"po", tx[t].po>> /\ tx[t].kind = "Cancel"
    BY <1>1, <1>2, <1>10, NeedsAt, KindAt DEF Reads
  <2>2. r \in Resource
    BY <1>1, <2>1, Arguments, Resources
  <2>3. ~(tx[u].kind = "Receive" /\ tx[u].pc \in Planned)
    <3>1. tx[t].pc \in PastLine
      BY <1>10 DEF PastLine
    <3> QED
      BY <1>3, <2>1, <3>1, OthersHaveNone
  <2> QED
    BY <1>4, <1>10, <2>1, <2>2, <2>3 DEF MayHold, Waiting
<1>11. CASE tx[t].pc = "write"
  <2>1. r \in {<<"line", s.line>> : s \in tx[t].plan}
    BY <1>2, <1>11, NeedsAt DEF Reads
  <2>2. owner[r] = t
    BY <1>1, <2>1 DEF TxOK, PlanOK
  <2> QED
    BY <1>2, <1>3, <2>2
<1>12. CASE tx[t].pc = "autoclose"
  <2>1. r = <<"po", tx[t].po>> /\ tx[t].kind = "Receive" /\ tx[t].pc \in Planned
    BY <1>1, <1>2, <1>12, NeedsAt, KindAt DEF Reads, Planned
  <2>2. r \in Resource
    BY <1>1, <1>12, <2>1, Arguments, Resources
  <2>3. ~(tx[u].kind = "Receive" /\ tx[u].pc \in Planned) /\ ~(tx[u].kind = "Cancel" /\ tx[u].pc \in PastLine)
    BY <1>3, <2>1, OthersHaveNone
  <2> QED
    BY <1>4, <2>1, <2>2, <2>3 DEF MayHold, PastLine
<1>13. CASE tx[t].pc = "check"
  <2>1. tx[t].kind = "Receive" /\ tx[t].pc \in Planned
    BY <1>1, <1>13, KindAt DEF Planned
  <2>2. r \in {<<"line", l>> : l \in LinesOf(tx[t].po)}
    BY <1>2, <1>13 DEF Reads, Needs
  <2>3. owner[r] = t
    BY <1>1, <2>1, <2>2 DEF Holds, LinesOf, Types
  <2> QED
    BY <1>2, <1>3, <2>3
<1>14. CASE tx[t].pc \in {"idle", "header", "commit"}
  <2>1. Needs(t) = {} /\ Reads(t) = {}
    BY <1>14 DEF Needs, Reads
  <2> QED
    BY <1>2, <2>1
<1> QED
  BY <1>5, <1>6, <1>7, <1>8, <1>9, <1>10, <1>11, <1>12, <1>13, <1>14
     DEF Statements, Planned, PastReceipt

LEMMA NoCircle ==
  ReceiveLocksAssumption /\ OneItem /\ LocksInv /\ HoldsInv => NoDeadlock
<1> SUFFICES ASSUME HoldContext, NEW D \in SUBSET Tx, Circle(D)
             PROVE  FALSE
  BY DEF HoldContext, NoDeadlock, Victims
<1>1. ASSUME NEW t \in D
      PROVE  \E u \in D : u \in Blockers(t)
  BY DEF Circle
<1>2. \A t \in D : tx[t].pc \in Waiting
  BY <1>1, WaitsFor
<1>3. \A t \in D : tx[t].pc # "reopen"
  BY <1>1, <1>2, WaitsFor DEF Waiting
<1>4. \A t \in D : tx[t].pc \notin {"line", "lines"}
  BY <1>1, <1>2, <1>3, WaitsFor DEF Waiting, Planned, PastLine
<1>5. \A t \in D : tx[t].pc # "pull"
  BY <1>1, <1>2, <1>3, <1>4, WaitsFor DEF Waiting, Planned, PastLine
<1>6. \A t \in D : tx[t].pc # "receipt"
  BY <1>1, <1>2, <1>3, <1>4, <1>5, WaitsFor DEF Waiting, PastReceipt
<1>7. D # {}
  BY DEF Circle
<1> QED
  BY <1>2, <1>3, <1>4, <1>5, <1>6, <1>7 DEF Waiting

(* NoDeadlock: receives and cancels of one item, in any number, never wait *)
(* for each other in a circle, because all of them lock the receipt, the   *)
(* pull, the lines and the headers in that order.                          *)
THEOREM NoDeadlockCorrect ==
  ASSUME ReceiveLocksAssumption, OneItem
  PROVE  Spec => []NoDeadlock
<1>1. Init => LocksInv /\ HoldsInv
  BY LocksInit, HoldsInit
<1>2. (LocksInv /\ HoldsInv) /\ [Next]_vars => (LocksInv /\ HoldsInv)'
  BY LocksStep, HoldsStep
<1>3. LocksInv /\ HoldsInv => NoDeadlock
  BY NoCircle
<1> QED
  BY <1>1, <1>2, <1>3, PTL DEF Spec

=============================================================================
