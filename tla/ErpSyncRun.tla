----------------------------- MODULE ErpSyncRun -----------------------------
(***************************************************************************)
(* The job that reads the ERP (ErpSyncJob.cs): scheduled or triggered, run *)
(* by Hangfire's workers under a lock per method, excluded by a mutex of   *)
(* the process (ErpSyncMutex.cs), with a row in dbo.ErpSyncLog for each    *)
(* attempt.  Statements fail, the process dies and is started again, and   *)
(* Hangfire tries failed jobs again.                                       *)
(***************************************************************************)
EXTENDS Integers, FiniteSets

CONSTANTS
    Worker,     \* Hangfire's workers
    Source,     \* the enabled sources, 1 .. n in their order
    MaxJob,     \* bound on the jobs
    MaxAttempt, \* attempts of a job
    InsertMayFail, \* whether the insert of the row may fail
    MaxFault    \* bound on the statements that fail and the crashes

ErpSyncRunAssumption ==
    /\ Source \subseteq Nat /\ MaxJob \in Nat /\ MaxAttempt \in Nat \ {0}
    /\ InsertMayFail \in BOOLEAN /\ MaxFault \in Nat

VARIABLES
    mutex,  \* _running
    jobs,   \* Hangfire: method, state and attempt of each job
    at,     \* what each worker does: the job, the statement, the sources applied
    rows,   \* dbo.ErpSyncLog: status, sources applied, by job and attempt
    skips,  \* the jobs that found the mutex taken, and whether it was in use
    faults

vars == <<mutex, jobs, at, rows, skips, faults>>

Job == 1 .. MaxJob
NoJob == [method |-> "none", state |-> "none", attempt |-> 0]
Idle == [job |-> 0, pc |-> "idle", applied |-> {}, failed |-> FALSE]
NoRow == [status |-> "none", applied |-> {}]

Inside(w) == at[w].pc \notin {"idle", "start"}
RunOf(w) == <<at[w].job, jobs[at[w].job].attempt>>
Step(w, pc) == at' = [at EXCEPT ![w].pc = pc]

-----------------------------------------------------------------------------
(* Hangfire.  A job that fails is tried again, or has failed for good.     *)
Enqueue(method) ==
    \E j \in Job :
        /\ jobs[j].state = "none"
        /\ jobs' = [jobs EXCEPT ![j] = [method |-> method, state |-> "queued", attempt |-> 0]]
        /\ UNCHANGED <<mutex, at, rows, skips, faults>>

(* The cron, and the endpoint, which refuses while a sync is running.      *)
Fire == Enqueue("RunAsync")
Trigger == ~mutex /\ Enqueue("RunNowAsync")

Tried(j, state) ==
    [method |-> jobs[j].method, state |-> state, attempt |-> jobs[j].attempt + 1]

AfterFailure(j) ==
    [jobs EXCEPT ![j].state = IF jobs[j].attempt < MaxAttempt THEN "queued" ELSE "failed"]

SameMethod(j) == \E w \in Worker : at[w].job # 0 /\ jobs[at[w].job].method = jobs[j].method

(* [DisableConcurrentExecution]: one worker per method; one that waits too *)
(* long fails.                                                             *)
PickUp(w, j) ==
    /\ at[w] = Idle /\ jobs[j].state = "queued" /\ ~SameMethod(j)
    /\ jobs' = [jobs EXCEPT ![j] = Tried(j, "running")]
    /\ at' = [at EXCEPT ![w] = [job |-> j, pc |-> "start", applied |-> {}, failed |-> FALSE]]
    /\ UNCHANGED <<mutex, rows, skips, faults>>

LockTimeout(j) ==
    /\ jobs[j].state = "queued" /\ SameMethod(j) /\ faults < MaxFault
    /\ faults' = faults + 1
    /\ jobs' = [jobs EXCEPT ![j] =
                    Tried(j, IF jobs[j].attempt + 1 < MaxAttempt THEN "queued" ELSE "failed")]
    /\ UNCHANGED <<mutex, at, rows, skips>>

Leave(w, outcome) ==
    /\ at' = [at EXCEPT ![w] = Idle]
    /\ jobs' = IF outcome = "done" THEN [jobs EXCEPT ![at[w].job].state = "done"] ELSE AfterFailure(at[w].job)

-----------------------------------------------------------------------------
(* ErpSyncMutex.  Mutant: a look and then a write.                         *)
TryAcquireAny == mutex \in BOOLEAN
TryAcquire == ~mutex

Acquire(w) ==
    /\ at[w].pc = "start" /\ TryAcquire
    /\ mutex' = TRUE /\ Step(w, "plan")
    /\ UNCHANGED <<jobs, rows, skips, faults>>

(* The job that finds a sync in progress is over.                          *)
Skipped == mutex

Skip(w) ==
    /\ at[w].pc = "start" /\ ~TryAcquire
    /\ skips' = skips \cup {[job |-> at[w].job, busy |-> \E v \in Worker : Inside(v)]}
    /\ mutex' = Skipped /\ Leave(w, "done")
    /\ UNCHANGED <<rows, faults>>

(* No source is enabled, or none has a warehouse: quiet when scheduled,    *)
(* loud when one source was asked for.                                     *)
GivenUp == FALSE

NothingRunnable(w, outcome) ==
    /\ at[w].pc = "plan"
    /\ mutex' = GivenUp /\ Leave(w, outcome)
    /\ UNCHANGED <<rows, skips, faults>>

(* InsertStartAsync, before the try block.                                 *)
InsertStart(w) ==
    /\ at[w].pc = "plan"
    /\ rows' = [rows EXCEPT ![RunOf(w)] = [status |-> "running", applied |-> {}]]
    /\ Step(w, "sources")
    /\ UNCHANGED <<mutex, jobs, skips, faults>>

InsertFails(w) ==
    /\ InsertMayFail /\ at[w].pc = "plan" /\ faults < MaxFault /\ faults' = faults + 1
    /\ Leave(w, "failed")
    /\ UNCHANGED <<mutex, rows, skips>>

(* One source after the other: read, transform and upsert.  UpsertAsync    *)
(* counts the pulls whose transaction failed and goes on: applied is a     *)
(* source that was gone through, not each pull of it.                      *)
ApplySource(w, s) ==
    /\ at[w].pc = "sources" /\ s \in Source \ at[w].applied
    /\ \A t \in Source \ at[w].applied : s =< t
    /\ at' = [at EXCEPT ![w].applied = @ \cup {s}]
    /\ rows' = [rows EXCEPT ![RunOf(w)].applied = @ \cup {s}]
    /\ UNCHANGED <<mutex, jobs, skips, faults>>

(* The sources there are to apply before the run has succeeded.            *)
Complete(w) == at[w].applied = Source

MarkSucceeded(w) ==
    /\ at[w].pc = "sources" /\ Complete(w)
    /\ rows' = [rows EXCEPT ![RunOf(w)].status = "succeeded"]
    /\ Step(w, "totals")
    /\ UNCHANGED <<mutex, jobs, skips, faults>>

UpdateSourceTotals(w) ==
    /\ at[w].pc = "totals" /\ Step(w, "finally")
    /\ UNCHANGED <<mutex, jobs, rows, skips, faults>>

(* Any statement of the try block throws.                                  *)
Throws(w) ==
    /\ at[w].pc \in {"sources", "totals"} /\ faults < MaxFault /\ faults' = faults + 1
    /\ at' = [at EXCEPT ![w].pc = "catch", ![w].failed = TRUE]
    /\ UNCHANGED <<mutex, jobs, rows, skips>>

MarkFailed(w) ==
    /\ at[w].pc = "catch"
    /\ rows' = [rows EXCEPT ![RunOf(w)].status = "failed"]
    /\ Step(w, "finally")
    /\ UNCHANGED <<mutex, jobs, skips, faults>>

MarkFailedThrows(w) ==
    /\ at[w].pc = "catch" /\ faults < MaxFault /\ faults' = faults + 1
    /\ Step(w, "finally")
    /\ UNCHANGED <<mutex, jobs, rows, skips>>

Finally(w) ==
    /\ at[w].pc = "finally"
    /\ mutex' = FALSE /\ Leave(w, IF at[w].failed THEN "failed" ELSE "done")
    /\ UNCHANGED <<rows, skips, faults>>

(* The process dies: the mutex is gone with it, and Hangfire queues the    *)
(* jobs again that were running.                                           *)
Crash ==
    /\ faults < MaxFault /\ faults' = faults + 1
    /\ mutex' = FALSE /\ at' = [w \in Worker |-> Idle]
    /\ jobs' = [j \in Job |-> IF jobs[j].state = "running" THEN AfterFailure(j)[j] ELSE jobs[j]]
    /\ UNCHANGED <<rows, skips>>

-----------------------------------------------------------------------------
Init ==
    /\ mutex = FALSE /\ jobs = [j \in Job |-> NoJob] /\ at = [w \in Worker |-> Idle]
    /\ rows = [r \in Job \X (1 .. MaxAttempt) |-> NoRow] /\ skips = {} /\ faults = 0

Runs(w) ==
    \/ Acquire(w) \/ Skip(w) \/ InsertStart(w) \/ MarkSucceeded(w) \/ UpdateSourceTotals(w)
    \/ MarkFailed(w) \/ Finally(w)
    \/ \E s \in Source : ApplySource(w, s)
    \/ \E j \in Job : PickUp(w, j)

Next ==
    \/ Fire \/ Trigger \/ Crash
    \/ \E w \in Worker :
          \/ Runs(w) \/ InsertFails(w) \/ Throws(w) \/ MarkFailedThrows(w)
          \/ \E outcome \in {"done", "failed"} : NothingRunnable(w, outcome)
    \/ \E j \in Job : LockTimeout(j)

Spec == Init /\ [][Next]_vars /\ \A w \in Worker : WF_vars(Runs(w))

-----------------------------------------------------------------------------
TypeOK ==
    /\ \A j \in Job : jobs[j].attempt \in 0 .. MaxAttempt
    /\ \A w \in Worker : at[w].job # 0 <=> at[w].pc # "idle"
    /\ \A w \in Worker : at[w].pc \in {"sources", "totals", "catch"} => rows[RunOf(w)].status # "none"

(* One sync at a time, whatever triggered it.                              *)
OneSync == \A v, w \in Worker : Inside(v) /\ Inside(w) => v = w

(* The mutex is taken exactly while a sync is under way, whichever way it  *)
(* ends.                                                                   *)
MutexInUse == mutex <=> \E w \in Worker : Inside(w)

(* A run is succeeded when every source was gone through, and running only *)
(* while a worker runs it, but for a crash or a statement that failed.     *)
RowsAreTrue ==
    \A r \in DOMAIN rows :
        /\ rows[r].status = "succeeded" => rows[r].applied = Source
        /\ rows[r].status = "running" /\ faults = 0 => \E w \in Worker : at[w].job # 0 /\ RunOf(w) = r

(* Every job ends: it is done, or it has failed as often as it may.        *)
JobsEnd == \A j \in Job : jobs[j].state = "queued" ~> jobs[j].state \in {"done", "failed"}

(* A job is skipped when another sync is in progress, unless an insert     *)
(* failed before.                                                          *)
SkippedWhenBusy == ~InsertMayFail => \A s \in skips : s.busy
=============================================================================
