---------------------------- MODULE ErpSyncProofs ----------------------------
(***************************************************************************)
(* Proofs about ErpSyncRun, for any number of workers, sources, jobs,      *)
(* attempts and faults.                                                    *)
(***************************************************************************)
EXTENDS ErpSyncRun, TLAPS

(* What the variables hold.                                                *)
Pcs == {"idle", "start", "plan", "sources", "totals", "catch", "finally"}
Types ==
    /\ mutex \in BOOLEAN /\ faults \in Nat
    /\ jobs \in [Job -> [method : {"none", "RunAsync", "RunNowAsync"},
                         state : {"none", "queued", "running", "done", "failed"},
                         attempt : 0 .. MaxAttempt]]
    /\ at \in [Worker -> [job : Job \cup {0}, pc : Pcs, applied : SUBSET Source, failed : BOOLEAN]]
    /\ rows \in [Job \X (1 .. MaxAttempt) ->
                    [status : {"none", "running", "succeeded", "failed"}, applied : SUBSET Source]]

(* A job that waits has an attempt left, one that runs has begun one; a    *)
(* worker that is not idle has a running job, and has it alone.            *)
Attempts ==
    /\ \A j \in Job : jobs[j].state = "none" => jobs[j].attempt = 0
    /\ \A j \in Job : jobs[j].state = "queued" => jobs[j].attempt < MaxAttempt
    /\ \A j \in Job : jobs[j].state = "running" => jobs[j].attempt > 0
Workers ==
    /\ \A w \in Worker : at[w].pc = "idle" => at[w] = Idle
    /\ \A w \in Worker : at[w].pc # "idle" => at[w].job \in Job /\ jobs[at[w].job].state = "running"
    /\ \A v, w \in Worker : at[v].job # 0 /\ at[v].job = at[w].job => v = w
Jobs == Types /\ Attempts /\ Workers

(* Whoever is past the mutex holds it, and holds it alone.                 *)
Excludes == (\E w \in Worker : Inside(w)) => mutex
GivenBack == ~InsertMayFail /\ mutex => \E w \in Worker : Inside(w)
Mutex == OneSync /\ Excludes /\ GivenBack /\ SkippedWhenBusy

(* The row of an attempt that has not begun is not there, and the row of   *)
(* one under way is what its statements have made of it.                   *)
Later == \A j \in Job, n \in 1 .. MaxAttempt : n > jobs[j].attempt => rows[<<j, n>>] = NoRow
WrittenBy(w) ==
    /\ at[w].pc \in {"start", "plan"} => rows[RunOf(w)] = NoRow /\ at[w].applied = {}
    /\ at[w].pc = "sources" =>
          rows[RunOf(w)].status = "running" /\ rows[RunOf(w)].applied = at[w].applied
    /\ at[w].pc = "totals" => rows[RunOf(w)].status = "succeeded"
    /\ at[w].pc = "catch" => faults > 0 /\ rows[RunOf(w)].status \in {"running", "succeeded"}
    /\ at[w].pc = "finally" => faults > 0 \/ rows[RunOf(w)].status # "running"
Rows == Later /\ (\A w \in Worker : WrittenBy(w)) /\ RowsAreTrue
SyncInv == Jobs /\ Mutex /\ Rows

-----------------------------------------------------------------------------
(* What a worker does with the job it has.                                 *)
Works(w) ==
    \/ Acquire(w) \/ Skip(w) \/ InsertStart(w) \/ InsertFails(w) \/ MarkSucceeded(w)
    \/ UpdateSourceTotals(w) \/ Throws(w) \/ MarkFailed(w) \/ MarkFailedThrows(w) \/ Finally(w)
    \/ \E s \in Source : ApplySource(w, s)
    \/ \E outcome \in {"done", "failed"} : NothingRunnable(w, outcome)

LEMMA NextCases ==
  ASSUME [Next]_vars
  PROVE  \/ Fire \/ Trigger \/ Crash
         \/ \E j \in Job : LockTimeout(j)
         \/ \E w \in Worker : Works(w) \/ \E j \in Job : PickUp(w, j)
         \/ UNCHANGED vars
BY DEF Next, Runs, Works

(* The attempt of a worker that is not idle has a row.                     *)
LEMMA RunType ==
  ASSUME Jobs, NEW w \in Worker, at[w].pc # "idle"
  PROVE  /\ at[w].job \in Job
         /\ RunOf(w) \in Job \X (1 .. MaxAttempt)
         /\ RunOf(w)[1] = at[w].job
BY DEF Jobs, Types, Attempts, Workers, RunOf, Job

LEMMA SyncInit == ErpSyncRunAssumption /\ Init => SyncInv
<1> SUFFICES ASSUME ErpSyncRunAssumption, Init
             PROVE  SyncInv
  OBVIOUS
<1> USE DEF Init
<1>1. \A w \in Worker : at[w] = Idle /\ at[w].pc = "idle" /\ at[w].job = 0
  BY DEF Idle
<1>2. \A j \in Job : jobs[j].state = "none" /\ jobs[j].attempt = 0
  BY DEF NoJob
<1>3. \A r \in Job \X (1 .. MaxAttempt) : rows[r] = NoRow /\ rows[r].status = "none"
  BY DEF NoRow
<1>4. Types
  <2>1. NoJob \in [method : {"none", "RunAsync", "RunNowAsync"},
                   state : {"none", "queued", "running", "done", "failed"}, attempt : 0 .. MaxAttempt]
    BY DEF ErpSyncRunAssumption, NoJob
  <2>2. Idle \in [job : Job \cup {0}, pc : Pcs, applied : SUBSET Source, failed : BOOLEAN]
    BY DEF Idle, Pcs
  <2>3. NoRow \in [status : {"none", "running", "succeeded", "failed"}, applied : SUBSET Source]
    BY DEF NoRow
  <2> QED
    BY <2>1, <2>2, <2>3 DEF Types
<1>5. Attempts /\ Workers
  BY <1>1, <1>2 DEF Attempts, Workers
<1>6. Mutex
  BY <1>1 DEF Mutex, OneSync, Excludes, GivenBack, SkippedWhenBusy, Inside
<1>7. Later /\ \A w \in Worker : WrittenBy(w)
  BY <1>1, <1>3 DEF Later, WrittenBy
<1>8. RowsAreTrue
  BY <1>3 DEF RowsAreTrue
<1> QED
  BY <1>4, <1>5, <1>6, <1>7, <1>8 DEF SyncInv, Jobs, Rows

-----------------------------------------------------------------------------
(* Jobs and workers.                                                       *)

(* A job that has failed waits again only with an attempt left.            *)
(* A job that is enqueued, or whose worker waits too long.                 *)
Waits(j, x) ==
    /\ x \in [method : {"none", "RunAsync", "RunNowAsync"},
              state : {"queued", "failed"}, attempt : 0 .. MaxAttempt]
    /\ x.attempt >= jobs[j].attempt /\ (x.state = "queued" => x.attempt < MaxAttempt)
    /\ jobs[j].state \in {"none", "queued"} /\ jobs' = [jobs EXCEPT ![j] = x]
    /\ mutex' = mutex /\ at' = at /\ rows' = rows /\ (faults' = faults \/ faults' = faults + 1)

LEMMA FiresType ==
  ASSUME ErpSyncRunAssumption, Jobs, Fire \/ Trigger \/ (\E j \in Job : LockTimeout(j))
  PROVE  \E j \in Job : \E x : Waits(j, x)
<1>1. CASE Fire \/ Trigger
  <2>1. PICK j \in Job, m \in {"RunAsync", "RunNowAsync"} :
          /\ jobs[j].state = "none"
          /\ jobs' = [jobs EXCEPT ![j] = [method |-> m, state |-> "queued", attempt |-> 0]]
          /\ UNCHANGED <<mutex, at, rows, skips, faults>>
    BY <1>1 DEF Fire, Trigger, Enqueue
  <2>2. Waits(j, [method |-> m, state |-> "queued", attempt |-> 0])
    BY <2>1 DEF ErpSyncRunAssumption, Jobs, Types, Attempts, Waits
  <2> QED
    BY <2>2
<1>2. CASE \E j \in Job : LockTimeout(j)
  <2>1. PICK j \in Job : LockTimeout(j)
    BY <1>2
  <2>2. Waits(j, Tried(j, IF jobs[j].attempt + 1 < MaxAttempt THEN "queued" ELSE "failed"))
    BY <2>1 DEF ErpSyncRunAssumption, LockTimeout, Tried, Jobs, Types, Attempts, Waits
  <2> QED
    BY <2>2
<1> QED
  BY <1>1, <1>2

LEMMA JobsFires ==
  ASSUME ErpSyncRunAssumption, Jobs, Fire \/ Trigger \/ (\E j \in Job : LockTimeout(j))
  PROVE  Jobs'
<1>1. PICK j \in Job : \E x : Waits(j, x)
  BY FiresType
<1>2. PICK x : Waits(j, x)
  BY <1>1
<1> USE DEF Waits
<1>3. Types'
  BY <1>2 DEF Jobs, Types
<1>4. Attempts' /\ Workers'
  BY <1>2 DEF Jobs, Types, Attempts, Workers
<1> QED
  BY <1>3, <1>4 DEF Jobs

(* A worker that takes up a job is the only one that has it.               *)
LEMMA JobsPickUp ==
  ASSUME ErpSyncRunAssumption, Jobs, NEW w \in Worker, NEW j \in Job, PickUp(w, j)
  PROVE  Jobs'
<1>1. /\ jobs' = [jobs EXCEPT ![j] = Tried(j, "running")] /\ jobs[j].state = "queued"
      /\ Tried(j, "running") \in [method : {"none", "RunAsync", "RunNowAsync"},
                                  state : {"running"}, attempt : 1 .. MaxAttempt]
  BY DEF ErpSyncRunAssumption, PickUp, Tried, Jobs, Types, Attempts
<1>2. at' = [at EXCEPT ![w] = [job |-> j, pc |-> "start", applied |-> {}, failed |-> FALSE]] /\ at[w] = Idle
  BY DEF PickUp
<1>3. Types'
  BY <1>1, <1>2 DEF PickUp, Jobs, Types, Pcs
<1>4. Attempts'
  BY <1>1 DEF Jobs, Types, Attempts
<1>5. Workers'
  <2>1. \A v \in Worker : v # w => at'[v] = at[v] /\ at[v].job # j
    BY <1>1, <1>2 DEF Jobs, Types, Workers, Idle, Job
  <2>2. at'[w].job = j /\ at'[w].pc = "start" /\ jobs'[j].state = "running"
    BY <1>1, <1>2 DEF Jobs, Types
  <2>3. \A k \in Job : k # j => jobs'[k] = jobs[k]
    BY <1>1 DEF Jobs, Types
  <2> QED
    BY <2>1, <2>2, <2>3 DEF Jobs, Workers
<1> QED
  BY <1>3, <1>4, <1>5 DEF Jobs

(* A worker that leaves has run its job, or gives it back.                 *)
LEMMA LeaveType ==
  ASSUME Jobs, NEW w \in Worker, at[w].pc # "idle",
         NEW outcome \in {"done", "failed"}, Leave(w, outcome)
  PROVE  /\ at' = [at EXCEPT ![w] = Idle] /\ at'[w].pc = "idle" /\ at'[w].job = 0
         /\ \E s \in {"done", "queued", "failed"} :
               /\ jobs' = [jobs EXCEPT ![at[w].job].state = s]
               /\ s = "queued" => jobs[at[w].job].attempt < MaxAttempt
<1>1. at' = [at EXCEPT ![w] = Idle]
  BY DEF Leave
<1>2. at'[w].pc = "idle" /\ at'[w].job = 0
  <2>1. at'[w] = Idle
    BY <1>1 DEF Jobs, Types
  <2> QED
    BY <2>1 DEF Idle
<1>3. CASE outcome = "done"
  BY <1>1, <1>2, <1>3 DEF Leave
<1>4. CASE outcome = "failed"
  <2>1. CASE jobs[at[w].job].attempt < MaxAttempt
    BY <1>1, <1>2, <1>4, <2>1 DEF Leave, AfterFailure
  <2>2. CASE ~(jobs[at[w].job].attempt < MaxAttempt)
    BY <1>1, <1>2, <1>4, <2>2 DEF Leave, AfterFailure
  <2> QED
    BY <2>1, <2>2
<1> QED
  BY <1>3, <1>4

(* A worker that leaves lets go of the job.                                *)
LEMMA JobsLeave ==
  ASSUME ErpSyncRunAssumption, Jobs, NEW w \in Worker, at[w].pc # "idle",
         NEW outcome \in {"done", "failed"}, Leave(w, outcome),
         mutex' \in BOOLEAN, rows' = rows, faults' \in Nat
  PROVE  Jobs'
<1>1. PICK s \in {"done", "queued", "failed"} :
        /\ jobs' = [jobs EXCEPT ![at[w].job].state = s]
        /\ s = "queued" => jobs[at[w].job].attempt < MaxAttempt
  BY LeaveType
<1>2. at' = [at EXCEPT ![w] = Idle]
  BY LeaveType
<1>3. at[w].job \in Job
  BY RunType
<1>4. Types'
  <2>1. Idle \in [job : Job \cup {0}, pc : Pcs, applied : SUBSET Source, failed : BOOLEAN]
    BY DEF Idle, Pcs
  <2> QED
    BY <1>1, <1>2, <1>3, <2>1 DEF Jobs, Types
<1>5. Attempts'
  BY <1>1, <1>3 DEF Jobs, Types, Attempts
<1>6. Workers'
  <2>1. at'[w] = Idle /\ at'[w].pc = "idle" /\ at'[w].job = 0
    BY <1>2 DEF Jobs, Types, Idle
  <2>2. \A v \in Worker : v # w => at'[v] = at[v]
    BY <1>2 DEF Jobs, Types
  <2>3. \A j \in Job : j # at[w].job => jobs'[j] = jobs[j]
    BY <1>1, <1>3 DEF Jobs, Types
  <2>4. 0 \notin Job
    BY DEF Job
  <2> QED
    BY <1>3, <2>1, <2>2, <2>3, <2>4 DEF Jobs, Workers
<1> QED
  BY <1>4, <1>5, <1>6 DEF Jobs

(* What the statements of a worker do: no other worker is touched, and it  *)
(* leaves or keeps its job.                                                *)
AtType == [Worker -> [job : Job \cup {0}, pc : Pcs, applied : SUBSET Source, failed : BOOLEAN]]
RowType == [Job \X (1 .. MaxAttempt) ->
               [status : {"none", "running", "succeeded", "failed"}, applied : SUBSET Source]]
Keeps(w) ==
    /\ at' \in AtType
    /\ \A v \in Worker : v # w => at'[v] = at[v]
    /\ at'[w].job = at[w].job /\ at'[w].pc \notin {"idle", "start"}
Writes(w) ==
    /\ rows' \in RowType
    /\ \A r \in Job \X (1 .. MaxAttempt) : r # RunOf(w) => rows'[r] = rows[r]
GoesOn(w) == jobs' = jobs /\ Keeps(w) /\ Writes(w)
Leaves(w) == rows' = rows /\ \E outcome \in {"done", "failed"} : Leave(w, outcome)

LEMMA StepType ==
  ASSUME Jobs, NEW w \in Worker, NEW pc \in Pcs \ {"idle", "start"}, Step(w, pc)
  PROVE  Keeps(w) /\ at'[w].pc = pc /\ at'[w].applied = at[w].applied /\ at'[w].failed = at[w].failed
BY DEF Jobs, Types, Step, Keeps, AtType

LEMMA WriteType ==
  ASSUME Jobs, NEW w \in Worker, at[w].pc # "idle"
  PROVE  /\ rows' = rows => Writes(w)
         /\ \A s \in {"running", "succeeded", "failed"} :
               rows' = [rows EXCEPT ![RunOf(w)].status = s] => 
                  /\ Writes(w)
                  /\ rows'[RunOf(w)].status = s /\ rows'[RunOf(w)].applied = rows[RunOf(w)].applied
<1>1. PICK r \in Job \X (1 .. MaxAttempt) : r = RunOf(w)
  BY RunType
<1>2. ASSUME NEW s \in {"running", "succeeded", "failed"}, rows' = [rows EXCEPT ![r].status = s]
      PROVE  /\ rows' \in RowType
             /\ \A q \in Job \X (1 .. MaxAttempt) : q # r => rows'[q] = rows[q]
             /\ rows'[r].status = s /\ rows'[r].applied = rows[r].applied
  BY <1>2 DEF Jobs, Types, RowType
<1> QED
  BY <1>1, <1>2 DEF Jobs, Types, Writes, RowType

LEMMA ApplyGoesOn ==
  ASSUME Jobs, NEW w \in Worker, NEW s \in Source, ApplySource(w, s)
  PROVE  GoesOn(w)
<1>1. at[w].pc # "idle" /\ jobs' = jobs
  BY DEF ApplySource
<1>2. Keeps(w)
  BY DEF ApplySource, Jobs, Types, Keeps, AtType
<1>3. Writes(w)
  BY <1>1, RunType DEF ApplySource, Jobs, Types, Writes, RowType
<1> QED
  BY <1>1, <1>2, <1>3 DEF GoesOn

LEMMA WorkGoesOn ==
  ASSUME Jobs, NEW w \in Worker,
         \/ Acquire(w) \/ InsertStart(w) \/ MarkSucceeded(w) \/ UpdateSourceTotals(w)
         \/ Throws(w) \/ MarkFailed(w) \/ MarkFailedThrows(w)
         \/ \E s \in Source : ApplySource(w, s)
  PROVE  GoesOn(w)
<1>1. at[w].pc # "idle" /\ jobs' = jobs
  BY DEF Acquire, InsertStart, MarkSucceeded, UpdateSourceTotals, Throws, MarkFailed,
         MarkFailedThrows, ApplySource
<1> USE DEF Pcs, GoesOn
<1>2. CASE Acquire(w)
  BY <1>1, <1>2, StepType, WriteType DEF Acquire
<1>3. CASE InsertStart(w)
  <2>1. Keeps(w)
    BY <1>3, StepType DEF InsertStart
  <2>2. Writes(w)
    BY <1>3, RunType DEF InsertStart, Jobs, Types, Writes, RowType
  <2> QED
    BY <1>1, <2>1, <2>2
<1>4. CASE MarkSucceeded(w)
  BY <1>1, <1>4, StepType, WriteType DEF MarkSucceeded
<1>5. CASE UpdateSourceTotals(w)
  BY <1>1, <1>5, StepType, WriteType DEF UpdateSourceTotals
<1>6. CASE Throws(w)
  <2> DEFINE caught == [at EXCEPT ![w].pc = "catch"]
  <2>1. caught \in AtType /\ caught[w].pc = "catch" /\ caught[w].job = at[w].job
    BY DEF Jobs, Types, AtType
  <2>2. at' = [caught EXCEPT ![w].failed = TRUE]
    BY <1>6 DEF Throws
  <2> HIDE DEF caught
  <2>3. at' \in AtType /\ at'[w].pc = "catch" /\ at'[w].job = at[w].job
    BY <2>1, <2>2 DEF AtType
  <2>4. \A v \in Worker : v # w => at'[v] = at[v]
    BY <1>6 DEF Throws, Jobs, Types
  <2>5. rows' = rows
    BY <1>6 DEF Throws
  <2> QED
    BY <1>1, <2>3, <2>4, <2>5, WriteType DEF Keeps
<1>7. CASE MarkFailed(w)
  BY <1>1, <1>7, StepType, WriteType DEF MarkFailed
<1>8. CASE MarkFailedThrows(w)
  BY <1>1, <1>8, StepType, WriteType DEF MarkFailedThrows
<1>9. CASE \E s \in Source : ApplySource(w, s)
  BY <1>9, ApplyGoesOn
<1> QED
  BY <1>2, <1>3, <1>4, <1>5, <1>6, <1>7, <1>8, <1>9

LEMMA WorkLeaves ==
  ASSUME Jobs, NEW w \in Worker,
         \/ Skip(w) \/ InsertFails(w) \/ Finally(w)
         \/ \E outcome \in {"done", "failed"} : NothingRunnable(w, outcome)
  PROVE  Leaves(w)
<1>1. CASE Skip(w)
  <2>1. Leave(w, "done") /\ rows' = rows
    BY <1>1 DEF Skip
  <2> QED
    BY <2>1 DEF Leaves
<1>2. CASE InsertFails(w)
  <2>1. Leave(w, "failed") /\ rows' = rows
    BY <1>2 DEF InsertFails
  <2> QED
    BY <2>1 DEF Leaves
<1>3. CASE Finally(w)
  BY <1>3 DEF Finally, Leaves
<1>4. CASE \E outcome \in {"done", "failed"} : NothingRunnable(w, outcome)
  BY <1>4 DEF NothingRunnable, Leaves
<1> QED
  BY <1>1, <1>2, <1>3, <1>4

LEMMA WorkType ==
  ASSUME Jobs, NEW w \in Worker, Works(w)
  PROVE  /\ at[w].pc # "idle" /\ mutex' \in BOOLEAN
         /\ faults' = faults \/ faults' = faults + 1
         /\ GoesOn(w) \/ Leaves(w)
<1>1. at[w].pc # "idle" /\ mutex' \in BOOLEAN /\ (faults' = faults \/ faults' = faults + 1)
  BY DEF Jobs, Types, Works, Acquire, Skip, Skipped, InsertStart, InsertFails, MarkSucceeded, UpdateSourceTotals,
         Throws, MarkFailed, MarkFailedThrows, Finally, ApplySource, NothingRunnable, GivenUp
<1> QED
  BY <1>1, WorkGoesOn, WorkLeaves DEF Works

LEMMA JobsWorks ==
  ASSUME ErpSyncRunAssumption, Jobs, NEW w \in Worker, Works(w)
  PROVE  Jobs'
<1>1. CASE GoesOn(w)
  <2>1. Types'
    BY <1>1, WorkType DEF Jobs, Types, GoesOn, Keeps, Writes, AtType, RowType
  <2>2. Attempts'
    BY <1>1 DEF Jobs, Attempts, GoesOn
  <2>3. Workers'
    <3>1. at[w].job \in Job /\ at[w].pc # "idle"
      BY WorkType, RunType
    <3> QED
      BY <1>1, <3>1 DEF Jobs, Workers, GoesOn, Keeps
  <2> QED
    BY <2>1, <2>2, <2>3 DEF Jobs
<1>2. CASE Leaves(w)
  BY <1>2, WorkType, JobsLeave DEF Leaves, Jobs, Types
<1> QED
  BY <1>1, <1>2, WorkType

(* A crash leaves no worker and no running job.                            *)
LEMMA JobsCrash ==
  ASSUME ErpSyncRunAssumption, Jobs, Crash
  PROVE  /\ Jobs'
         /\ \A w \in Worker : at'[w].pc = "idle" /\ at'[w].job = 0
         /\ \A j \in Job : jobs'[j].attempt = jobs[j].attempt
<1> DEFINE Set == [method : {"none", "RunAsync", "RunNowAsync"},
                   state : {"none", "queued", "running", "done", "failed"}, attempt : 0 .. MaxAttempt]
<1>1. \A w \in Worker : at'[w] = Idle /\ at'[w].pc = "idle" /\ at'[w].job = 0
  BY DEF Crash, Idle
<1>2. ASSUME NEW j \in Job
      PROVE  /\ jobs'[j] \in Set /\ jobs'[j].attempt = jobs[j].attempt /\ jobs'[j].state # "running"
             /\ jobs'[j].state = "queued" => jobs[j].attempt < MaxAttempt
             /\ jobs'[j].state = "none" => jobs[j].attempt = 0
  <2>1. jobs'[j] = IF jobs[j].state = "running" THEN AfterFailure(j)[j] ELSE jobs[j]
    BY DEF Crash
  <2>2. CASE jobs[j].state = "running" /\ jobs[j].attempt < MaxAttempt
    <3>1. AfterFailure(j)[j] = [jobs[j] EXCEPT !.state = "queued"]
      BY <2>2 DEF AfterFailure, Jobs, Types
    <3> QED
      BY <2>1, <2>2, <3>1 DEF Jobs, Types
  <2>3. CASE jobs[j].state = "running" /\ ~(jobs[j].attempt < MaxAttempt)
    <3>1. AfterFailure(j)[j] = [jobs[j] EXCEPT !.state = "failed"]
      BY <2>3 DEF AfterFailure, Jobs, Types
    <3> QED
      BY <2>1, <2>3, <3>1 DEF Jobs, Types
  <2>4. CASE jobs[j].state # "running"
    BY <2>1, <2>4 DEF Jobs, Types, Attempts
  <2> QED
    BY <2>2, <2>3, <2>4
<1>3. Types'
  <2>1. Idle \in [job : Job \cup {0}, pc : Pcs, applied : SUBSET Source, failed : BOOLEAN]
    BY DEF Idle, Pcs
  <2>2. at' = [w \in Worker |-> Idle] /\ mutex' = FALSE /\ rows' = rows /\ faults' = faults + 1
    BY DEF Crash
  <2>3. jobs' = [j \in Job |-> jobs'[j]]
    BY DEF Crash
  <2>4. jobs' \in [Job -> Set]
    BY <1>2, <2>3
  <2>5. mutex' \in BOOLEAN
    BY <2>2
  <2>7. faults' \in Nat
    BY <2>2 DEF Jobs, Types
  <2>6. at' \in AtType
    BY <2>1, <2>2 DEF AtType
  <2> QED
    BY <2>2, <2>4, <2>5, <2>6, <2>7 DEF Jobs, Types, AtType
<1>4. Attempts' /\ Workers'
  BY <1>1, <1>2 DEF Attempts, Workers
<1> QED
  BY <1>1, <1>2, <1>3, <1>4 DEF Jobs

LEMMA JobsStep ==
  ASSUME ErpSyncRunAssumption, Jobs, [Next]_vars
  PROVE  Jobs'
<1>1. CASE UNCHANGED vars
  BY <1>1 DEF vars, Jobs, Types, Attempts, Workers
<1> QED
  BY <1>1, NextCases, JobsFires, JobsPickUp, JobsWorks, JobsCrash

-----------------------------------------------------------------------------
(* The mutex.                                                              *)

(* Only a worker that has just passed the mutex gets in, only one that     *)
(* gives it back gets out.                                                 *)
LEMMA MutexWorks ==
  ASSUME Jobs, Mutex, NEW w \in Worker, Works(w)
  PROVE  Mutex'
<1>1. at[w].pc # "idle" /\ \A v \in Worker : v # w => at'[v] = at[v]
  <2>1. CASE GoesOn(w)
    BY <2>1, WorkType DEF GoesOn, Keeps
  <2>2. CASE Leaves(w)
    BY <2>2, WorkType, LeaveType DEF Leaves, Jobs, Types
  <2> QED
    BY <2>1, <2>2, WorkType
<1> USE DEF Mutex, OneSync, Excludes, GivenBack, SkippedWhenBusy
<1>2. CASE Acquire(w)
  <2>1. ~mutex /\ mutex' = TRUE /\ skips' = skips /\ at'[w].pc = "plan"
    BY <1>2, StepType DEF Acquire, TryAcquire, Pcs
  <2>2. \A v \in Worker : Inside(v)' <=> v = w
    BY <1>1, <2>1 DEF Inside
  <2> QED
    BY <2>1, <2>2
<1>3. CASE Skip(w)
  <2>1. at[w].pc = "start" /\ mutex = TRUE /\ mutex' = TRUE
    BY <1>3 DEF Skip, TryAcquire, Skipped, Jobs, Types
  <2>2. \A v \in Worker : Inside(v)' <=> Inside(v)
    <3>1. Leave(w, "done")
      BY <1>3 DEF Skip
    <3>2. at'[w].pc = "idle"
      BY <1>1, <3>1, LeaveType
    <3> QED
      BY <1>1, <2>1, <3>2 DEF Inside
  <2>3. SkippedWhenBusy'
    <3>1. skips' = skips \cup {[job |-> at[w].job, busy |-> \E v \in Worker : Inside(v)]}
      BY <1>3 DEF Skip
    <3>2. ~InsertMayFail => \E v \in Worker : Inside(v)
      BY <2>1
    <3> QED
      BY <3>1, <3>2
  <2> QED
    BY <2>1, <2>2, <2>3
<1>4. CASE mutex' = FALSE /\ skips' = skips /\ Inside(w) /\ Leaves(w)
  <2>1. at'[w].pc = "idle"
    BY <1>1, <1>4, LeaveType DEF Leaves
  <2>2. \A v \in Worker : ~Inside(v)'
    BY <1>1, <1>4, <2>1 DEF Inside
  <2> QED
    BY <1>4, <2>2
<1>5. CASE InsertFails(w)
  <2>1. mutex' = mutex /\ skips' = skips /\ InsertMayFail /\ Inside(w) /\ Leave(w, "failed")
    BY <1>5 DEF InsertFails, Inside
  <2>2. at'[w].pc = "idle"
    BY <1>1, <2>1, LeaveType
  <2>3. \A v \in Worker : ~Inside(v)'
    BY <1>1, <2>1, <2>2 DEF Inside
  <2> QED
    BY <2>1, <2>3
<1>6. CASE mutex' = mutex /\ skips' = skips /\ Inside(w) /\ GoesOn(w)
  <2>1. \A v \in Worker : Inside(v)' <=> Inside(v)
    BY <1>1, <1>6 DEF GoesOn, Keeps, Inside
  <2> QED
    BY <1>6, <2>1
<1>7. CASE Finally(w) \/ \E outcome \in {"done", "failed"} : NothingRunnable(w, outcome)
  <2>1. mutex' = FALSE /\ skips' = skips /\ Inside(w) /\ Leaves(w)
    BY <1>7 DEF Finally, NothingRunnable, GivenUp, Inside, Leaves
  <2> QED
    BY <1>4, <2>1
<1>8. CASE \/ InsertStart(w) \/ MarkSucceeded(w) \/ UpdateSourceTotals(w) \/ Throws(w) \/ MarkFailed(w)
           \/ MarkFailedThrows(w) \/ \E s \in Source : ApplySource(w, s)
  <2>1. mutex' = mutex /\ skips' = skips /\ Inside(w) /\ jobs' = jobs
    BY <1>8 DEF InsertStart, MarkSucceeded, UpdateSourceTotals, Throws, MarkFailed, MarkFailedThrows,
                ApplySource, Inside
  <2>2. GoesOn(w)
    BY <1>8, WorkGoesOn
  <2> QED
    BY <1>6, <2>1, <2>2
<1> QED
  BY <1>2, <1>3, <1>5, <1>7, <1>8 DEF Works

LEMMA MutexStep ==
  ASSUME Jobs, Mutex, [Next]_vars
  PROVE  Mutex'
<1> USE DEF Mutex, OneSync, Excludes, GivenBack, SkippedWhenBusy, Inside
<1>1. CASE UNCHANGED vars
  BY <1>1 DEF vars
<1>2. CASE Fire \/ Trigger \/ \E j \in Job : LockTimeout(j)
  BY <1>2 DEF Fire, Trigger, Enqueue, LockTimeout
<1>3. ASSUME NEW w \in Worker, NEW j \in Job, PickUp(w, j)
      PROVE  Mutex'
  <2>1. \A v \in Worker : at'[v].pc \in {"idle", "start"} <=> at[v].pc \in {"idle", "start"}
    BY <1>3 DEF PickUp, Jobs, Types, Idle
  <2> QED
    BY <1>3, <2>1 DEF PickUp
<1>4. CASE Crash
  <2>1. \A w \in Worker : at'[w].pc = "idle"
    BY <1>4 DEF Crash, Idle
  <2> QED
    BY <1>4, <2>1 DEF Crash
<1> QED
  BY <1>1, <1>2, <1>3, <1>4, MutexWorks, NextCases

-----------------------------------------------------------------------------
(* The rows.                                                               *)

(* Two workers write two rows.                                             *)
LEMMA RunsApart ==
  ASSUME Jobs, NEW v \in Worker, NEW w \in Worker, v # w, at[v].pc # "idle", at[w].pc # "idle"
  PROVE  RunOf(v) # RunOf(w)
<1>1. at[v].job # at[w].job
  BY RunType DEF Jobs, Workers, Job
<1> QED
  BY <1>1 DEF RunOf

(* What a worker does to its own row is no matter of the other rows.       *)
LEMMA RowsGoOn ==
  ASSUME Jobs, Rows, NEW w \in Worker, at[w].pc # "idle", GoesOn(w),
         faults' = faults \/ faults' = faults + 1, WrittenBy(w)',
         rows'[RunOf(w)].status = "succeeded" => rows'[RunOf(w)].applied = Source
  PROVE  Rows'
<1>1. \A v \in Worker : v # w => at'[v] = at[v]
  BY DEF GoesOn, Keeps
<1>2. jobs' = jobs /\ \A v \in Worker : RunOf(v)' = RunOf(v)
  BY DEF GoesOn, Keeps, RunOf
<1>3. /\ RunOf(w) \in Job \X (1 .. MaxAttempt) /\ RunOf(w) = <<at[w].job, jobs[at[w].job].attempt>>
      /\ \A r \in Job \X (1 .. MaxAttempt) : r # RunOf(w) => rows'[r] = rows[r]
      /\ at[w].job \in Job
  BY RunType DEF GoesOn, Writes, RunOf
<1>4. Later'
  <2> SUFFICES ASSUME NEW j \in Job, NEW n \in 1 .. MaxAttempt, n > jobs[j].attempt
               PROVE  rows'[<<j, n>>] = NoRow
    BY <1>2 DEF Later
  <2>1. <<j, n>> # RunOf(w)
    <3> SUFFICES ASSUME <<j, n>> = RunOf(w)
                 PROVE  FALSE
      OBVIOUS
    <3>1. j = at[w].job /\ n = jobs[at[w].job].attempt
      BY <1>3
    <3> QED
      BY <3>1 DEF Jobs, Types
  <2> QED
    BY <1>3, <2>1 DEF Rows, Later
<1>5. ASSUME NEW v \in Worker
      PROVE  WrittenBy(v)'
  <2>1. CASE v = w
    BY <2>1
  <2>2. CASE v # w /\ at[v].pc # "idle"
    <3>1. rows'[RunOf(v)] = rows[RunOf(v)]
      BY <1>3, <2>2, RunType, RunsApart
    <3>2. WrittenBy(v)
      BY DEF Rows
    <3> QED
      BY <1>1, <1>2, <2>2, <3>1, <3>2 DEF WrittenBy, Jobs, Types
  <2>3. CASE v # w /\ at[v].pc = "idle"
    BY <1>1, <2>3 DEF WrittenBy
  <2> QED
    BY <2>1, <2>2, <2>3
<1>6. RowsAreTrue'
  <2> SUFFICES ASSUME NEW r \in Job \X (1 .. MaxAttempt)
               PROVE  /\ rows'[r].status = "succeeded" => rows'[r].applied = Source
                      /\ rows'[r].status = "running" /\ faults' = 0 =>
                            \E v \in Worker : at'[v].job # 0 /\ RunOf(v)' = r
    BY DEF RowsAreTrue, GoesOn, Writes, RowType
  <2>1. CASE r = RunOf(w)
    <3>1. at'[w].job # 0 /\ RunOf(w)' = r
      BY <1>2, <1>3, <2>1 DEF GoesOn, Keeps, Job
    <3> QED
      BY <2>1, <3>1
  <2>2. CASE r # RunOf(w)
    <3>1. rows'[r] = rows[r] /\ (faults' = 0 => faults = 0)
      BY <1>3, <2>2 DEF Jobs, Types
    <3>2. r \in DOMAIN rows
      BY DEF Jobs, Types
    <3>3. \A v \in Worker : at'[v].job = at[v].job
      BY <1>1 DEF GoesOn, Keeps
    <3> QED
      BY <1>2, <3>1, <3>2, <3>3 DEF Rows, RowsAreTrue
  <2> QED
    BY <2>1, <2>2
<1> QED
  BY <1>4, <1>5, <1>6 DEF Rows

(* A worker that leaves has finished its row, unless something failed.     *)
LEMMA RowsLeave ==
  ASSUME Jobs, Rows, NEW w \in Worker, at[w].pc # "idle", Leaves(w),
         faults' = faults \/ faults' = faults + 1,
         rows[RunOf(w)].status = "running" => faults' > 0
  PROVE  Rows'
<1>1. PICK s \in {"done", "queued", "failed"} :
        at' = [at EXCEPT ![w] = Idle] /\ jobs' = [jobs EXCEPT ![at[w].job].state = s] /\ rows' = rows
  BY LeaveType DEF Leaves
<1>2. at'[w].pc = "idle" /\ at'[w].job = 0 /\ \A v \in Worker : v # w => at'[v] = at[v]
  BY <1>1, LeaveType DEF Leaves, Jobs, Types
<1>3. at[w].job \in Job /\ \A j \in Job : jobs'[j].attempt = jobs[j].attempt
  BY <1>1, RunType DEF Jobs, Types
<1>4. Later'
  BY <1>1, <1>3 DEF Rows, Later
<1>5. \A v \in Worker : v # w /\ at[v].pc # "idle" => RunOf(v)' = RunOf(v)
  BY <1>2, <1>3, RunType DEF RunOf
<1>6. ASSUME NEW v \in Worker
      PROVE  WrittenBy(v)'
  <2>1. CASE v = w \/ at[v].pc = "idle"
    BY <1>2, <2>1 DEF WrittenBy
  <2>2. CASE v # w /\ at[v].pc # "idle"
    <3>1. WrittenBy(v)
      BY DEF Rows
    <3> QED
      BY <1>1, <1>2, <1>5, <2>2, <3>1 DEF WrittenBy, Jobs, Types
  <2> QED
    BY <2>1, <2>2
<1>7. RowsAreTrue'
  <2> SUFFICES ASSUME NEW r \in DOMAIN rows
               PROVE  /\ rows[r].status = "succeeded" => rows[r].applied = Source
                      /\ rows[r].status = "running" /\ faults' = 0 =>
                            \E v \in Worker : at'[v].job # 0 /\ RunOf(v)' = r
    BY <1>1 DEF RowsAreTrue
  <2>1. rows[r].status = "succeeded" => rows[r].applied = Source
    BY DEF Rows, RowsAreTrue
  <2>2. ASSUME rows[r].status = "running", faults' = 0
        PROVE  \E v \in Worker : at'[v].job # 0 /\ RunOf(v)' = r
    <3>1. faults = 0
      BY <2>2 DEF Jobs, Types
    <3>2. PICK v \in Worker : at[v].job # 0 /\ RunOf(v) = r
      BY <2>2, <3>1 DEF Rows, RowsAreTrue
    <3>3. v # w
      BY <2>2, <3>2
    <3>4. at[v].pc # "idle"
      BY <3>2 DEF Jobs, Workers, Idle
    <3> QED
      BY <1>2, <1>5, <3>2, <3>3, <3>4
  <2> QED
    BY <2>1, <2>2
<1> QED
  BY <1>4, <1>6, <1>7 DEF Rows

LEMMA RowsWorks ==
  ASSUME Jobs, Rows, NEW w \in Worker, Works(w)
  PROVE  Rows'
<1>1. /\ at[w].pc # "idle" /\ (faults' = faults \/ faults' = faults + 1) /\ faults \in Nat
      /\ RunOf(w) \in Job \X (1 .. MaxAttempt)
  BY WorkType, RunType DEF Jobs, Types
<1>2. WrittenBy(w)
  BY DEF Rows
<1>3. rows[RunOf(w)].status = "succeeded" => rows[RunOf(w)].applied = Source
  BY <1>1 DEF Rows, RowsAreTrue, Jobs, Types
<1>4. ASSUME GoesOn(w) PROVE RunOf(w)' = RunOf(w)
  BY <1>4 DEF GoesOn, Keeps, RunOf
<1>5. CASE Acquire(w)
  <2>1. /\ at[w].pc = "start" /\ at'[w].pc = "plan" /\ at'[w].applied = at[w].applied
        /\ rows' = rows /\ GoesOn(w)
    BY <1>5, StepType, WorkGoesOn DEF Acquire, Pcs
  <2>2. WrittenBy(w)'
    BY <1>2, <1>4, <2>1 DEF WrittenBy
  <2> QED
    BY <1>1, <1>3, <2>1, <2>2, RowsGoOn
<1>6. CASE InsertStart(w)
  <2>1. at[w].pc = "plan" /\ at'[w].pc = "sources" /\ at'[w].applied = at[w].applied /\ GoesOn(w)
    BY <1>6, StepType, WorkGoesOn DEF InsertStart, Pcs
  <2>2. rows'[RunOf(w)].status = "running" /\ rows'[RunOf(w)].applied = {}
    BY <1>1, <1>6 DEF InsertStart, Jobs, Types
  <2>3. WrittenBy(w)'
    BY <1>2, <1>4, <2>1, <2>2 DEF WrittenBy
  <2> QED
    BY <1>1, <2>1, <2>2, <2>3, RowsGoOn
<1>7. ASSUME NEW s \in Source, ApplySource(w, s)
      PROVE  Rows'
  <2>1. at[w].pc = "sources" /\ GoesOn(w)
    BY <1>7, ApplyGoesOn DEF ApplySource
  <2>2. at'[w].pc = "sources" /\ at'[w].applied = at[w].applied \cup {s}
    BY <1>7 DEF ApplySource, Jobs, Types
  <2>3. /\ rows'[RunOf(w)].status = rows[RunOf(w)].status
        /\ rows'[RunOf(w)].applied = rows[RunOf(w)].applied \cup {s}
    BY <1>1, <1>7 DEF ApplySource, Jobs, Types
  <2>4. WrittenBy(w)'
    BY <1>2, <1>4, <2>1, <2>2, <2>3 DEF WrittenBy
  <2> QED
    BY <1>1, <1>2, <2>1, <2>3, <2>4, RowsGoOn DEF WrittenBy
<1>8. CASE MarkSucceeded(w)
  <2>1. at[w].pc = "sources" /\ at[w].applied = Source /\ at'[w].pc = "totals" /\ GoesOn(w)
    BY <1>8, StepType, WorkGoesOn DEF MarkSucceeded, Complete, Pcs
  <2>2. rows'[RunOf(w)].status = "succeeded" /\ rows'[RunOf(w)].applied = rows[RunOf(w)].applied
    BY <1>1, <1>8, WriteType DEF MarkSucceeded
  <2>3. WrittenBy(w)'
    BY <1>4, <2>1, <2>2 DEF WrittenBy
  <2> QED
    BY <1>1, <1>2, <2>1, <2>2, <2>3, RowsGoOn DEF WrittenBy
<1>9. CASE UpdateSourceTotals(w)
  <2>1. at[w].pc = "totals" /\ at'[w].pc = "finally" /\ rows' = rows /\ GoesOn(w)
    BY <1>9, StepType, WorkGoesOn DEF UpdateSourceTotals, Pcs
  <2>2. WrittenBy(w)'
    BY <1>2, <1>4, <2>1 DEF WrittenBy
  <2> QED
    BY <1>1, <1>3, <2>1, <2>2, RowsGoOn
<1>10. CASE Throws(w)
  <2>1. /\ at[w].pc \in {"sources", "totals"} /\ at'[w].pc = "catch" /\ rows' = rows
        /\ faults' = faults + 1
    BY <1>10 DEF Throws, Jobs, Types
  <2>2. GoesOn(w)
    BY <1>10, WorkGoesOn
  <2>3. WrittenBy(w)'
    BY <1>1, <1>2, <1>4, <2>1, <2>2 DEF WrittenBy
  <2> QED
    BY <1>1, <1>3, <2>1, <2>2, <2>3, RowsGoOn
<1>11. CASE MarkFailed(w)
  <2>1. at'[w].pc = "finally" /\ GoesOn(w)
    BY <1>11, StepType, WorkGoesOn DEF MarkFailed, Pcs
  <2>2. rows'[RunOf(w)].status = "failed"
    BY <1>1, <1>11, WriteType DEF MarkFailed
  <2>3. WrittenBy(w)'
    BY <1>4, <2>1, <2>2 DEF WrittenBy
  <2> QED
    BY <1>1, <2>1, <2>2, <2>3, RowsGoOn
<1>12. CASE MarkFailedThrows(w)
  <2>1. at'[w].pc = "finally" /\ rows' = rows /\ faults' = faults + 1 /\ GoesOn(w)
    BY <1>12, StepType, WorkGoesOn DEF MarkFailedThrows, Pcs
  <2>2. WrittenBy(w)'
    BY <1>1, <1>4, <2>1 DEF WrittenBy
  <2> QED
    BY <1>1, <1>3, <2>1, <2>2, RowsGoOn
<1>13. CASE Leaves(w) /\ (faults' > 0 \/ at[w].pc \in {"start", "plan", "finally"})
  <2>1. rows[RunOf(w)].status = "running" => faults' > 0
    BY <1>1, <1>2, <1>13 DEF WrittenBy, NoRow
  <2> QED
    BY <1>1, <1>13, <2>1, RowsLeave
<1>14. CASE \/ Skip(w) \/ InsertFails(w) \/ Finally(w)
            \/ \E outcome \in {"done", "failed"} : NothingRunnable(w, outcome)
  <2>1. at[w].pc \in {"start", "plan", "finally"}
    BY <1>14 DEF Skip, InsertFails, Finally, NothingRunnable
  <2>2. Leaves(w)
    BY <1>14, WorkLeaves
  <2> QED
    BY <1>13, <2>1, <2>2
<1> QED
  BY <1>5, <1>6, <1>7, <1>8, <1>9, <1>10, <1>11, <1>12, <1>14 DEF Works

LEMMA RowsStep ==
  ASSUME ErpSyncRunAssumption, Jobs, Rows, [Next]_vars
  PROVE  Rows'
<1>1. CASE UNCHANGED vars
  <2>1. \A w \in Worker : RunOf(w)' = RunOf(w)
    BY <1>1 DEF vars, RunOf
  <2> QED
    BY <1>1, <2>1 DEF vars, Rows, Later, WrittenBy, RowsAreTrue
<1>2. CASE Fire \/ Trigger \/ \E j \in Job : LockTimeout(j)
  <2>0. PICK j \in Job : \E x : Waits(j, x)
    BY <1>2, FiresType
  <2>1. PICK x : Waits(j, x)
    BY <2>0
  <2> USE DEF Waits
  <2>2. \A w \in Worker : at[w].pc # "idle" => RunOf(w)' = RunOf(w)
    BY <2>1 DEF RunOf, Jobs, Types, Workers
  <2>3. Later'
    BY <2>1 DEF Rows, Later, Jobs, Types
  <2>4. \A w \in Worker : WrittenBy(w)'
    BY <2>1, <2>2 DEF Rows, WrittenBy, Jobs, Types
  <2>5. \A w \in Worker : at[w].job # 0 => at[w].pc # "idle"
    BY DEF Jobs, Workers, Idle
  <2>6. faults' = 0 => faults = 0
    BY <2>1 DEF Jobs, Types
  <2>7. RowsAreTrue'
    BY <2>1, <2>2, <2>5, <2>6 DEF Rows, RowsAreTrue
  <2> QED
    BY <2>3, <2>4, <2>7 DEF Rows
<1>3. ASSUME NEW w \in Worker, NEW j \in Job, PickUp(w, j)
      PROVE  Rows'
  <2>1. /\ jobs[j].state = "queued" /\ at[w].pc = "idle" /\ at[w].job = 0
        /\ jobs' = [jobs EXCEPT ![j] = Tried(j, "running")]
        /\ Tried(j, "running").attempt = jobs[j].attempt + 1
        /\ rows' = rows /\ faults' = faults
    BY <1>3 DEF PickUp, Tried, Idle
  <2>2. /\ at'[w].job = j /\ at'[w].pc = "start" /\ at'[w].applied = {}
        /\ \A v \in Worker : v # w => at'[v] = at[v]
    BY <1>3 DEF PickUp, Jobs, Types
  <2>3. \A v \in Worker : v # w /\ at[v].pc # "idle" => RunOf(v)' = RunOf(v)
    BY <2>1, <2>2 DEF RunOf, Jobs, Types, Workers
  <2>4. RunOf(w)' = <<j, jobs[j].attempt + 1>> /\ jobs[j].attempt + 1 \in 1 .. MaxAttempt
    BY <2>1, <2>2 DEF RunOf, ErpSyncRunAssumption, Jobs, Types, Attempts
  <2>5. Later'
    BY <2>1 DEF Rows, Later, Jobs, Types
  <2>6. rows[<<j, jobs[j].attempt + 1>>] = NoRow
    BY <2>4 DEF Rows, Later, Jobs, Types
  <2>7. ASSUME NEW v \in Worker
        PROVE  WrittenBy(v)'
    <3>1. CASE v = w
      BY <2>1, <2>2, <2>4, <2>6, <3>1 DEF WrittenBy
    <3>2. CASE v # w
      BY <2>1, <2>2, <2>3, <3>2 DEF Rows, WrittenBy, Jobs, Types
    <3> QED
      BY <3>1, <3>2
  <2>8. RowsAreTrue'
    <3>1. \A v \in Worker : at[v].job # 0 => at[v].pc # "idle"
      BY DEF Jobs, Workers, Idle
    <3> QED
      BY <2>1, <2>2, <2>3, <3>1 DEF Rows, RowsAreTrue
  <2> QED
    BY <2>5, <2>7, <2>8 DEF Rows
<1>4. CASE Crash
  <2>1. rows' = rows /\ faults' = faults + 1 /\ \A w \in Worker : at'[w].pc = "idle"
    BY <1>4, JobsCrash DEF Crash
  <2>2. \A j \in Job : jobs'[j].attempt = jobs[j].attempt
    BY <1>4, JobsCrash
  <2>3. Later'
    BY <2>1, <2>2 DEF Rows, Later
  <2>4. \A w \in Worker : WrittenBy(w)'
    BY <2>1 DEF WrittenBy
  <2>5. RowsAreTrue'
    BY <2>1 DEF Rows, RowsAreTrue, Jobs, Types
  <2> QED
    BY <2>3, <2>4, <2>5 DEF Rows
<1> QED
  BY <1>1, <1>2, <1>3, <1>4, RowsWorks, NextCases

-----------------------------------------------------------------------------
LEMMA SyncStep == ErpSyncRunAssumption /\ SyncInv /\ [Next]_vars => SyncInv'
BY JobsStep, MutexStep, RowsStep DEF SyncInv

LEMMA SyncTypes == SyncInv => TypeOK
<1> SUFFICES ASSUME SyncInv
             PROVE  TypeOK
  OBVIOUS
<1>1. \A w \in Worker : at[w].job # 0 <=> at[w].pc # "idle"
  BY DEF SyncInv, Jobs, Workers, Idle, Job
<1>2. \A w \in Worker : WrittenBy(w)
  BY DEF SyncInv, Rows
<1> QED
  BY <1>1, <1>2 DEF SyncInv, Jobs, Types, TypeOK, WrittenBy

LEMMA SyncInvariant ==
  ASSUME ErpSyncRunAssumption
  PROVE  Spec => []SyncInv
BY SyncInit, SyncStep, PTL DEF Spec

(* Every reachable state is well typed: attempts stay within their bound,  *)
(* and a worker past the insert has its row.                               *)
THEOREM SyncTypeCorrect ==
  ASSUME ErpSyncRunAssumption
  PROVE  Spec => []TypeOK
BY SyncInvariant, SyncTypes, PTL

(* One sync at a time, whatever the cron, the endpoint, retries and        *)
(* crashes do, even when the insert of the row fails.                      *)
THEOREM OneSyncCorrect ==
  ASSUME ErpSyncRunAssumption
  PROVE  Spec => []OneSync
<1>1. SyncInv => OneSync
  BY DEF SyncInv, Mutex
<1> QED
  BY <1>1, SyncInvariant, PTL

(* The mutex is free exactly when no sync is under way: it is given back   *)
(* however a run ends.  The statement outside of the try block would keep  *)
(* it, so it must not fail.                                                *)
THEOREM MutexCorrect ==
  ASSUME ErpSyncRunAssumption, ~InsertMayFail
  PROVE  Spec => []MutexInUse
<1>1. SyncInv => MutexInUse
  BY DEF SyncInv, Mutex, Excludes, GivenBack, MutexInUse
<1> QED
  BY <1>1, SyncInvariant, PTL

(* A row that says succeeded had every source gone through, and until a    *)
(* first fault a row that says running has a worker on it.                 *)
THEOREM RowsCorrect ==
  ASSUME ErpSyncRunAssumption
  PROVE  Spec => []RowsAreTrue
<1>1. SyncInv => RowsAreTrue
  BY DEF SyncInv, Rows
<1> QED
  BY <1>1, SyncInvariant, PTL

(* A job is skipped only for another one that is under way.                *)
THEOREM SkippedCorrect ==
  ASSUME ErpSyncRunAssumption
  PROVE  Spec => []SkippedWhenBusy
<1>1. SyncInv => SkippedWhenBusy
  BY DEF SyncInv, Mutex
<1> QED
  BY <1>1, SyncInvariant, PTL
=============================================================================
