------------------------------ MODULE PoImport ------------------------------
(***************************************************************************)
(* The PO import: a workbook is uploaded and validated, an operator        *)
(* confirms it, a Hangfire job inserts its POs in one transaction, and the *)
(* PoImportLog row tells the operator how far it is (PoImportService,      *)
(* PoImportController, PoImportJob, PoImportLogRepository).  Each SQL      *)
(* statement outside the insert is a transaction of its own and an action  *)
(* of its own: requests, jobs and crashes interleave between them.         *)
(***************************************************************************)
EXTENDS Integers, FiniteSets

CONSTANTS
    Run,         \* uploads, one PoImportLog row each
    Number,      \* PO numbers
    File,        \* the PO numbers in a run's workbook
    Request,     \* confirm requests; the job a request enqueues has its name
    NoRun, Other, \* owners of a number: nobody, a PO not from an import
    MaxRetries,  \* AutomaticRetry attempts (10 in Hangfire)
    MaxFaults    \* bound: crashes, disconnects and exceptions in a behaviour

ASSUME ImportAssumption ==
    /\ File \in [Run -> SUBSET Number \ {{}}]
    /\ NoRun \notin Run /\ Other \notin Run /\ NoRun # Other
    /\ MaxRetries \in Nat
    /\ MaxFaults \in Nat

VARIABLES
    status,  \* PoImportLog.Status
    owner,   \* PurchaseOrders: the import that inserted each number
    confirm, \* where a confirm request is
    target,  \* the run a confirm request is about
    job,     \* Hangfire: where the request's job is
    retries, \* Hangfire: retries the job has used
    faults   \* crashes, disconnects and exceptions so far

vars == <<status, owner, confirm, target, job, retries, faults>>

(* The steps of RunAsync after the one that reads the log row.             *)
Inside == {"loaded", "running", "inserted", "logged", "failing"}

TypeOK ==
    /\ status \in [Run -> {"none", "validating", "validation_failed", "validated",
                           "queued", "running", "succeeded", "failed"}]
    /\ owner \in [Number -> Run \cup {NoRun, Other}]
    /\ confirm \in [Request -> {"idle", "read", "enqueued", "done"}]
    /\ target \in [Request -> Run \cup {NoRun}]
    /\ job \in [Request -> Inside \cup {"none", "enqueued", "done", "dead"}]
    /\ retries \in [Request -> 0..MaxRetries]
    /\ faults \in 0..MaxFaults

Init ==
    /\ status = [r \in Run |-> "none"]
    /\ owner = [n \in Number |-> NoRun]
    /\ confirm = [q \in Request |-> "idle"]
    /\ target = [q \in Request |-> NoRun]
    /\ job = [q \in Request |-> "none"]
    /\ retries = [q \in Request |-> 0]
    /\ faults = 0
-----------------------------------------------------------------------------
(* Mutants of the helpers below.                                           *)
ConfirmableAgain(r) == status[r] \in {"validated", "succeeded", "failed"}
LockHeldForever(q) == \E x \in Request \ {q} : job[x] \in Inside \cup {"done"}
FailedUnsaid(r) == status
FailedForConfirm(r) == [status EXCEPT ![r] = "validated"]
TerminalCancelled(r) == [status EXCEPT ![r] = "canceled"]

(* What the confirm endpoint and the job ask of the row they have read.    *)
Confirmable(r) == status[r] = "validated"
Startable(r) == status[r] = "queued"

(* The re-check of the numbers inside the insert transaction.              *)
NumbersFree(r) == \A n \in File[r] : owner[n] = NoRun

(* PurchaseOrders after the insert transaction of r.                       *)
Inserted(r) == [n \in Number |-> IF n \in File[r] THEN r ELSE owner[n]]

Failed(r) == [status EXCEPT ![r] = "failed"]

(* DisableConcurrentExecution: one RunAsync at a time, across runs.        *)
LockHeld(q) == \E x \in Request \ {q} : job[x] \in Inside

(* The job ended in an exception: Hangfire queues it again, up to a limit. *)
Retry(q) ==
    IF retries[q] < MaxRetries
    THEN /\ job' = [job EXCEPT ![q] = "enqueued"]
         /\ retries' = [retries EXCEPT ![q] = @ + 1]
    ELSE /\ job' = [job EXCEPT ![q] = "dead"]
         /\ UNCHANGED retries

Fault == faults < MaxFaults /\ faults' = faults + 1
-----------------------------------------------------------------------------
(* Upload and Stage 1.                                                     *)

Upload(r) ==
    /\ status[r] = "none"
    /\ status' = [status EXCEPT ![r] = "validating"]
    /\ UNCHANGED <<owner, confirm, target, job, retries, faults>>

Validate(r) ==
    /\ status[r] = "validating"
    /\ \E s \in {"validated", "validation_failed"} : status' = [status EXCEPT ![r] = s]
    /\ UNCHANGED <<owner, confirm, target, job, retries, faults>>

(* A PO with a number of some workbook is entered by hand.                 *)
EnterPo(n) ==
    /\ owner[n] = NoRun
    /\ owner' = [owner EXCEPT ![n] = Other]
    /\ UNCHANGED <<status, confirm, target, job, retries, faults>>
-----------------------------------------------------------------------------
(* Confirm: read the row, enqueue the job, mark the row.                   *)

ConfirmRead(q, r) ==
    /\ confirm[q] = "idle"
    /\ Confirmable(r)
    /\ confirm' = [confirm EXCEPT ![q] = "read"]
    /\ target' = [target EXCEPT ![q] = r]
    /\ UNCHANGED <<status, owner, job, retries, faults>>

ConfirmEnqueue(q) ==
    /\ confirm[q] = "read"
    /\ confirm' = [confirm EXCEPT ![q] = "enqueued"]
    /\ job' = [job EXCEPT ![q] = "enqueued"]
    /\ UNCHANGED <<status, owner, target, retries, faults>>

ConfirmMark(q) ==
    /\ confirm[q] = "enqueued"
    /\ confirm' = [confirm EXCEPT ![q] = "done"]
    /\ status' = [status EXCEPT ![target[q]] = "queued"]
    /\ UNCHANGED <<owner, target, job, retries, faults>>

(* The client goes away: its token cancels the statement that would come.  *)
Disconnect(q) ==
    /\ Fault
    /\ confirm[q] \in {"read", "enqueued"}
    /\ confirm' = [confirm EXCEPT ![q] = "done"]
    /\ UNCHANGED <<status, owner, target, job, retries>>
-----------------------------------------------------------------------------
(* The job.                                                                *)

(* Read the log row; only a queued run goes on.                            *)
JobStart(q) ==
    /\ job[q] = "enqueued"
    /\ ~LockHeld(q)
    /\ job' = [job EXCEPT ![q] = IF Startable(target[q]) THEN "loaded" ELSE "done"]
    /\ UNCHANGED <<status, owner, confirm, target, retries, faults>>

(* The lock was held for half an hour.                                     *)
JobLockTimeout(q) ==
    /\ job[q] = "enqueued"
    /\ LockHeld(q)
    /\ Retry(q)
    /\ UNCHANGED <<status, owner, confirm, target, faults>>

JobMarkRunning(q) ==
    /\ job[q] = "loaded"
    /\ job' = [job EXCEPT ![q] = "running"]
    /\ status' = [status EXCEPT ![target[q]] = "running"]
    /\ UNCHANGED <<owner, confirm, target, retries, faults>>

(* Mutant: numbers that are taken are skipped instead of refused.          *)
JobInsertMissing(q) ==
    /\ job[q] = "running"
    /\ owner' = [n \in Number |-> IF n \in File[target[q]] /\ owner[n] = NoRun
                                  THEN target[q] ELSE owner[n]]
    /\ job' = [job EXCEPT ![q] = "inserted"]
    /\ UNCHANGED <<status, confirm, target, retries, faults>>

JobInsert(q) ==
    /\ job[q] = "running"
    /\ NumbersFree(target[q])
    /\ owner' = Inserted(target[q])
    /\ job' = [job EXCEPT ![q] = "inserted"]
    /\ UNCHANGED <<status, confirm, target, retries, faults>>

JobRefuse(q) ==
    /\ job[q] = "running"
    /\ ~NumbersFree(target[q])
    /\ job' = [job EXCEPT ![q] = "failing"]
    /\ UNCHANGED <<status, owner, confirm, target, retries, faults>>

JobMarkSucceeded(q) ==
    /\ job[q] = "inserted"
    /\ job' = [job EXCEPT ![q] = "logged"]
    /\ status' = [status EXCEPT ![target[q]] = "succeeded"]
    /\ UNCHANGED <<owner, confirm, target, retries, faults>>

JobAudit(q) ==
    /\ job[q] = "logged"
    /\ job' = [job EXCEPT ![q] = "done"]
    /\ UNCHANGED <<status, owner, confirm, target, retries, faults>>

(* The catch block: mark the row, then rethrow to Hangfire.                *)
JobMarkFailed(q) ==
    /\ job[q] = "failing"
    /\ status' = Failed(target[q])
    /\ Retry(q)
    /\ UNCHANGED <<owner, confirm, target, faults>>

(* A statement fails, or the workbook is no longer readable: inside the    *)
(* try the catch block runs, outside of it the exception leaves the job.   *)
JobThrow(q) ==
    /\ Fault
    /\ \/ /\ job[q] \in {"running", "inserted", "logged"}
          /\ job' = [job EXCEPT ![q] = "failing"]
          /\ UNCHANGED retries
       \/ job[q] \in {"loaded", "failing"} /\ Retry(q)
    /\ UNCHANGED <<status, owner, confirm, target>>

(* The process dies with its requests and workers; Hangfire hands a job    *)
(* that was running out again.                                             *)
Crash ==
    /\ Fault
    /\ confirm' = [q \in Request |-> IF confirm[q] \in {"read", "enqueued"} THEN "done"
                                     ELSE confirm[q]]
    /\ job' = [q \in Request |-> IF job[q] \in Inside THEN "enqueued" ELSE job[q]]
    /\ UNCHANGED <<status, owner, target, retries>>

JobStep(q) ==
    \/ JobStart(q) \/ JobMarkRunning(q) \/ JobInsert(q) \/ JobRefuse(q)
    \/ JobMarkSucceeded(q) \/ JobAudit(q) \/ JobMarkFailed(q)

Next ==
    \/ \E r \in Run : Upload(r) \/ Validate(r)
    \/ \E n \in Number : EnterPo(n)
    \/ \E q \in Request, r \in Run : ConfirmRead(q, r)
    \/ \E q \in Request : ConfirmEnqueue(q) \/ ConfirmMark(q) \/ Disconnect(q)
    \/ \E q \in Request : JobStep(q) \/ JobLockTimeout(q) \/ JobThrow(q)
    \/ Crash

Spec == Init /\ [][Next]_vars

(* Hangfire's workers take every job sooner or later, and a request that   *)
(* has begun goes on.                                                      *)
FairSpec == Spec /\ \A q \in Request : /\ WF_vars(JobStep(q))
                                       /\ WF_vars(ConfirmEnqueue(q) \/ ConfirmMark(q))
-----------------------------------------------------------------------------
Finished(r) == status[r] \in {"succeeded", "failed"}
JobsOf(r) == {q \in Request : target[q] = r}

(* A run reported as succeeded has all its POs in the table, whatever is   *)
(* confirmed twice, retried or cut off by a crash.                         *)
SucceededIsImported == \A r \in Run : status[r] = "succeeded" => \A n \in File[r] : owner[n] = r

(* A workbook's POs enter together or not at all, even when other POs took *)
(* some of the numbers since it was validated.                             *)
AllOrNothing ==
    \A r \in Run : (\E n \in File[r] : owner[n] = r) => \A n \in File[r] : owner[n] = r

(* No PO enters for a run that nobody confirmed, and no run goes back to   *)
(* awaiting its confirm once its POs are in.                               *)
ImportedIsConfirmed ==
    \A r \in Run : (\E n \in File[r] : owner[n] = r) =>
        /\ status[r] \in {"queued", "running", "succeeded", "failed"}
        /\ \E q \in JobsOf(r) : job[q] # "none"

(* Without a fault a run shown as running has a worker on it.              *)
RunningHasWorker ==
    faults = 0 => \A r \in Run : status[r] = "running" => \E q \in JobsOf(r) : job[q] \in Inside

(* Once a run has finished, no confirm of it is under way and its jobs     *)
(* have ended, nothing ever starts it again.                               *)
Settled(r) ==
    /\ Finished(r)
    /\ \A q \in JobsOf(r) : confirm[q] = "done" /\ job[q] \in {"none", "done", "dead"}
SettledForGood == [][\A r \in Run : Settled(r) => Settled(r)']_vars

(* Every job that is enqueued ends: the lock is always handed on, and      *)
(* retries run out.                                                        *)
JobsEnd == \A q \in Request : job[q] = "enqueued" ~> job[q] \in {"done", "dead"}
-----------------------------------------------------------------------------
(* What the documentation says of the program and the code does not do.    *)

(* "Stage 2 rolled back - no partial state": a failed run has left no PO.  *)
FailedIsRolledBack == \A r \in Run : status[r] = "failed" => \A n \in File[r] : owner[n] # r

(* "poll /api/imports/po/{runId} for terminal status": a queued run ends.  *)
QueuedEnds == \A r \in Run : status[r] = "queued" ~> Finished(r)

(* The same sentence of a run whose job has begun: what is shown as        *)
(* running gets a terminal status.                                         *)
RunningEnds == \A r \in Run : status[r] = "running" ~> Finished(r)
=============================================================================
