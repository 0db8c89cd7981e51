------------------------------ MODULE MCServer ------------------------------
(***************************************************************************)
(* The background jobs and the receiving transactions for TLC.  Apart from *)
(* the pulls and orders, which Receiving has together, they share no       *)
(* state: a property of one says nothing about another.  So a behaviour    *)
(* has one of them running, the scene, and m1 .. m11 are its variables;     *)
(* what it does not need stays 0.  A component has a scene for every       *)
(* choice of its constants.  Where its lemmas are in a module of their     *)
(* own, that module is what is instantiated, for ServerProofs to cite.     *)
(***************************************************************************)
EXTENDS Integers

CONSTANTS
    Scene, \* those of the run
    w1, w2, a, b, p1, p2,
    Export, MaxRetry, MaxCrash \* exports: any number of them, of retries and crashes

VARIABLES scene, m1, m2, m3, m4, m5, m6, m7, m8, m9, m10, m11

vars == <<scene, m1, m2, m3, m4, m5, m6, m7, m8, m9, m10, m11>>

-----------------------------------------------------------------------------
(* Two workers, two sources, two jobs of two attempts, two faults; and one *)
(* attempt more than a job may have, with the insert of the row failing.   *)
Sync == INSTANCE ErpSyncProofs WITH
    Worker <- {w1, w2}, Source <- {1, 2}, MaxJob <- 2, MaxAttempt <- 2,
    InsertMayFail <- FALSE, MaxFault <- 2,
    mutex <- m1, jobs <- m2, at <- m3, rows <- m4, skips <- m5, faults <- m6
SyncFails == INSTANCE ErpSyncProofs WITH
    Worker <- {w1, w2}, Source <- {1}, MaxJob <- 2, MaxAttempt <- 2,
    InsertMayFail <- TRUE, MaxFault <- 2,
    mutex <- m1, jobs <- m2, at <- m3, rows <- m4, skips <- m5, faults <- m6

(* Two items; rows on two days, one without an hour, two of one window.    *)
RowOf(i, h, q, d) == [item |-> i, hour |-> h, qty |-> q, day |-> d]
Rows == {RowOf(a, 7, 1, 0), RowOf(a, -1, 1, 1), RowOf(a, 8, 1, 1), RowOf(b, 7, 1, 0)}
FewRows == {RowOf(a, 7, 1, 0), RowOf(b, -1, 1, 1)}
Upsert == INSTANCE UpsertProofs WITH
    Item <- {a, b}, Hour <- {7, 8}, DefaultHour <- 7, Row <- Rows,
    Backfill <- 0, MaxDay <- 1, MaxFault <- 1,
    erp <- m1, today <- m2, pull <- m3, item <- m4, expected <- m5, received <- m6,
    last <- m7, faults <- m8
UpsertFew == INSTANCE ErpUpsert WITH
    Item <- {a, b}, Hour <- {7, 8}, DefaultHour <- 7, Row <- FewRows,
    Backfill <- 0, MaxDay <- 1, MaxFault <- 1,
    erp <- m1, today <- m2, pull <- m3, item <- m4, expected <- m5, received <- m6,
    last <- m7, faults <- m8

(* Two POs: the first with a line of each of two items, the second with a  *)
(* line of the first item; or lines of one item only.                      *)
LineOf(o, i) == [po |-> o, item |-> i, ordered |-> 1]
Lines == <<LineOf(1, a), LineOf(1, b), LineOf(2, a)>>
OneItem == <<LineOf(1, a), LineOf(2, a), LineOf(2, a)>>
Locks == INSTANCE LocksProofs WITH
    Tx <- {1, 2}, Pull <- {p1, p2}, Item <- {a, b}, Po <- {1, 2}, Line <- Lines,
    Kind <- {"Receive", "Cancel", "ClosePo", "UpdatePo", "AddLine", "DeleteLine"},
    FirstLine <- {1, 2}, MaxQty <- 2, MaxDate <- 1, MaxBegin <- 3,
    lines <- m1, taken <- m2, header <- m3, receipts <- m4, owner <- m5, exclusive <- m6,
    tx <- m7, begun <- m8
LocksLines == INSTANCE LocksProofs WITH
    Tx <- {1, 2}, Pull <- {p1, p2}, Item <- {a, b}, Po <- {1, 2}, Line <- Lines,
    Kind <- {"Receive", "Cancel", "AddLine", "DeleteLine"},
    FirstLine <- {2, 3}, MaxQty <- 2, MaxDate <- 1, MaxBegin <- 3,
    lines <- m1, taken <- m2, header <- m3, receipts <- m4, owner <- m5, exclusive <- m6,
    tx <- m7, begun <- m8
LocksOneItem == INSTANCE LocksProofs WITH
    Tx <- {1, 2}, Pull <- {p1, p2}, Item <- {a}, Po <- {1, 2}, Line <- OneItem,
    Kind <- {"Receive", "Cancel"},
    FirstLine <- {1, 2, 3}, MaxQty <- 2, MaxDate <- 1, MaxBegin <- 4,
    lines <- m1, taken <- m2, header <- m3, receipts <- m4, owner <- m5, exclusive <- m6,
    tx <- m7, begun <- m8
LocksFew == INSTANCE ReceiveLocks WITH
    Tx <- {1, 2}, Pull <- {p1, p2}, Item <- {a, b}, Po <- {1, 2}, Line <- Lines,
    Kind <- {"Receive", "Cancel", "ClosePo"},
    FirstLine <- {1, 2}, MaxQty <- 1, MaxDate <- 0, MaxBegin <- 3,
    lines <- m1, taken <- m2, header <- m3, receipts <- m4, owner <- m5, exclusive <- m6,
    tx <- m7, begun <- m8

(* Exports, with statements that fail.                                     *)
Exp == INSTANCE Exports WITH
    status <- m1, runs <- m2, grabbed <- m3, request <- m4, job <- m5, tries <- m6,
    file <- m7, told <- m8, crashes <- m9, unwritten <- m10, smtp <- m11

(* A plain key and a secret, a flat key of an older release and the nested *)
(* one it became; tables of that release, files that still have the flat   *)
(* key and files that have not.                                            *)
Keys == {"plain", "secret", "flat", "nested"}
Fresh == [k \in Keys |-> "absent"]
Tables ==
    {Fresh, [Fresh EXCEPT !["flat"] = "v2"],
     [Fresh EXCEPT !["flat"] = "cleared", !["plain"] = "v2"],
     [k \in Keys |-> IF k = "nested" THEN "absent" ELSE "v2"]}
Files == {[k \in Keys |-> "v1"], [k \in Keys |-> IF k = "flat" THEN "unset" ELSE "v1"]}
Values == {"v1", "v2"}
Admins == {1, 2}
Sections == {{"plain", "secret"}, {"nested"}}
Hidden == {"secret"}
Becomes == [k \in {"flat"} |-> "nested"]
Conf == INSTANCE AppSettings WITH
    Value <- Values, Admin <- Admins, Section <- Sections, Secret <- Hidden, Successor <- Becomes,
    Earlier <- Tables, Shipped <- Files, MaxRequest <- 2, MaxFault <- 3, MaxDeploy <- 1,
    row <- m1, file <- m2, env <- m3, pc <- m4, todo <- m5, request <- m6,
    requests <- m7, faults <- m8, deploys <- m9

ASSUME ConstantsFit ==
    /\ Conf!AppSettingsAssumption
    /\ Sync!ErpSyncRunAssumption /\ SyncFails!ErpSyncRunAssumption
    /\ Upsert!ErpUpsertAssumption /\ UpsertFew!ErpUpsertAssumption
    /\ Locks!ReceiveLocksAssumption /\ LocksLines!ReceiveLocksAssumption
    /\ LocksOneItem!ReceiveLocksAssumption /\ LocksFew!ReceiveLocksAssumption
    /\ Exp!ExportAssumption

-----------------------------------------------------------------------------
On(s) == scene = s
Step(s) == scene = s /\ UNCHANGED scene

Init ==
    /\ scene \in Scene
    /\ \/ On("sync") /\ Sync!Init /\ m7 = 0 /\ m8 = 0 /\ m9 = 0 /\ m10 = 0 /\ m11 = 0
       \/ On("syncFails") /\ SyncFails!Init /\ m7 = 0 /\ m8 = 0 /\ m9 = 0 /\ m10 = 0 /\ m11 = 0
       \/ On("upsert") /\ Upsert!Init /\ m9 = 0 /\ m10 = 0 /\ m11 = 0
       \/ On("upsertFew") /\ UpsertFew!Init /\ m9 = 0 /\ m10 = 0 /\ m11 = 0
       \/ On("locks") /\ Locks!Init /\ m9 = 0 /\ m10 = 0 /\ m11 = 0
       \/ On("locksLines") /\ LocksLines!Init /\ m9 = 0 /\ m10 = 0 /\ m11 = 0
       \/ On("locksOneItem") /\ LocksOneItem!Init /\ m9 = 0 /\ m10 = 0 /\ m11 = 0
       \/ On("locksFew") /\ LocksFew!Init /\ m9 = 0 /\ m10 = 0 /\ m11 = 0
       \/ On("exports") /\ Exp!Init
       \/ On("settings") /\ Conf!Init /\ m10 = 0 /\ m11 = 0

Next ==
    \/ Step("sync") /\ Sync!Next /\ UNCHANGED <<m7, m8, m9, m10, m11>>
    \/ Step("syncFails") /\ SyncFails!Next /\ UNCHANGED <<m7, m8, m9, m10, m11>>
    \/ Step("upsert") /\ Upsert!Next /\ UNCHANGED <<m9, m10, m11>>
    \/ Step("upsertFew") /\ UpsertFew!Next /\ UNCHANGED <<m9, m10, m11>>
    \/ Step("locks") /\ Locks!Next /\ UNCHANGED <<m9, m10, m11>>
    \/ Step("locksLines") /\ LocksLines!Next /\ UNCHANGED <<m9, m10, m11>>
    \/ Step("locksOneItem") /\ LocksOneItem!Next /\ UNCHANGED <<m9, m10, m11>>
    \/ Step("locksFew") /\ LocksFew!Next /\ UNCHANGED <<m9, m10, m11>>
    \/ Step("exports") /\ Exp!Next
    \/ Step("settings") /\ Conf!Next /\ UNCHANGED <<m10, m11>>

Behaviour == Init /\ [][Next]_vars

(* A scheduled job is run, a transaction goes on, an upsert comes again.   *)
Spec ==
    /\ Behaviour
    /\ \A w \in {w1, w2} : WF_vars(Step("syncFails") /\ SyncFails!Runs(w) /\ UNCHANGED <<m7, m8, m9, m10, m11>>)
    /\ WF_vars(Step("upsertFew") /\ UpsertFew!Upsert /\ UNCHANGED <<m9, m10, m11>>)
    /\ \A t \in {1, 2} : WF_vars(Step("locksFew") /\ LocksFew!Proceeds(t) /\ UNCHANGED <<m9, m10, m11>>)
    /\ \A e \in Export : WF_vars(Step("exports") /\ Exp!Work(e))

-----------------------------------------------------------------------------
(* Each component's state is what its module says.                         *)
TypeOK ==
    /\ On("sync") => Sync!TypeOK
    /\ On("syncFails") => SyncFails!TypeOK
    /\ On("upsert") => Upsert!TypeOK
    /\ On("locks") => Locks!TypeOK
    /\ On("locksLines") => LocksLines!TypeOK
    /\ On("exports") => Exp!TypeOK
    /\ On("settings") => Conf!TypeOK

(* ErpSyncJob: one sync runs at a time, whatever triggered it; the mutex   *)
(* is taken exactly while one does, however it ends; and a row says        *)
(* succeeded only when every source was gone through.                      *)
OneSync ==
    /\ On("sync") => Sync!OneSync /\ Sync!MutexInUse /\ Sync!RowsAreTrue /\ Sync!SkippedWhenBusy
    /\ On("syncFails") => SyncFails!OneSync

(* ErpUpsertService: no revision of the ERP plans less than was received,  *)
(* and a pull that was signed stays complete until it is reopened.         *)
CapKept == On("upsert") => Upsert!CapKept /\ Upsert!SignedStands

(* A sync that repeats one changes nothing.                                *)
Idempotent == On("upsert") => Upsert!Idempotent

(* What a step leaves of the decisions of operators.                       *)
Decided ==
    /\ On("upsert") => Upsert!KeepsCanceled
    /\ On("settings") => Conf!SavedStands /\ Conf!StartKeepsValues /\ Conf!FlatIsGone'

(* What a job or a start finds decided stands: a canceled item stays so    *)
(* until an operator says otherwise, and so does a setting an admin has    *)
(* saved; a start changes nothing of what the settings are read as, leaves *)
(* nothing to migrate, and loses no value it moves, wherever it dies.      *)
OperatorsDecide == [][Decided]_vars

(* ReceiptService and PurchaseOrderAdminService: however the statements of *)
(* two transactions fall together, every line carries the sum of its       *)
(* receipts within its order, and no receipt is left without its line.     *)
LedgerBalances ==
    /\ On("locks") => Locks!LedgerBalances /\ Locks!ReceiptsHaveLines
    /\ On("locksLines") => LocksLines!LedgerBalances /\ LocksLines!ReceiptsHaveLines

(* ReadOpenPoLinesAsync: the plan a receive made under its locks is still  *)
(* the one it would make when it commits, unless a header was edited.      *)
PlanHolds == On("locksLines") => LocksLines!PlanHolds

(* Receives and cancels of one item never wait for each other in a circle. *)
NoDeadlock == On("locksOneItem") => LocksOneItem!NoDeadlock

(* TransactionsExportJob: what says succeeded, or was downloaded, has had  *)
(* its workbook written and its link sent as the process can; a job that   *)
(* is over has a row that says how.                                        *)
SucceededIsSent == On("exports") => Exp!SucceededIsSent /\ Exp!RowTellsJob

(* Crashes, failing statements and retries included, the rows of the job   *)
(* implement the life of an export as its readers know it.                 *)
Life == INSTANCE ExportLife WITH
    MaxRun <- MaxRetry + 1 + MaxCrash,
    status <- IF On("exports") THEN m1 ELSE [e \in Export |-> "none"],
    runs <- IF On("exports") THEN m2 ELSE [e \in Export |-> 0],
    grabbed <- IF On("exports") THEN m3 ELSE [e \in Export |-> FALSE]
ImplementsLife == Life!Spec

(* What was begun ends: a job of Hangfire, a transaction even after a      *)
(* deadlock, an export; and what the ERP asks for gets into the plan.      *)
Queued(j) == On("syncFails") /\ m2[j].state = "queued"
Over(j) == On("syncFails") /\ m2[j].state \in {"done", "failed"}
Busy(t) == On("locksFew") /\ m7[t].pc # "idle"
Quiet(t) == On("locksFew") /\ m7[t].pc = "idle"
Handed(e) == On("exports") /\ m5[e] = "enqueued"
Settled(e) == On("exports") /\ m5[e] \in {"succeeded", "failed"}
Asked(w) == On("upsertFew") /\ UpsertFew!Draft[w] > 0 /\ m3 # "closed"
Planned(w) == On("upsertFew") /\ (m5[w] >= UpsertFew!Draft[w] \/ m3 = "closed")
WorkEnds ==
    /\ \A j \in 1 .. 2 : Queued(j) ~> Over(j)
    /\ \A t \in 1 .. 2 : Busy(t) ~> Quiet(t)
    /\ \A e \in Export : Handed(e) ~> Settled(e)
    /\ \A w \in UpsertFew!Window : Asked(w) ~> Planned(w)
-----------------------------------------------------------------------------
(* What comments and documents say of the program and the code does not do.*)

(* "serializable range protection for the FIFO query": made again before   *)
(* the receive commits, the query gives the plan that is carried out, also *)
(* when the header of a PO is edited beside it.                            *)
FifoQueryRepeats == On("locksFew") => LocksFew!PlanHolds
=============================================================================
