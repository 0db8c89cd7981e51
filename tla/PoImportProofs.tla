--------------------------- MODULE PoImportProofs ---------------------------
(***************************************************************************)
(* Proofs about PoImport, for any number of runs, workbooks, confirms,     *)
(* retries and faults.                                                     *)
(***************************************************************************)
EXTENDS PoImport, TLAPS

(* A request has a run from the moment it reads one, and a job from the    *)
(* moment it enqueues it; the lock lets one job in at a time.              *)
Requests ==
    /\ \A q \in Request : confirm[q] = "idle" => target[q] = NoRun
    /\ \A q \in Request : confirm[q] # "idle" => target[q] \in Run
    /\ \A q \in Request : confirm[q] \in {"idle", "read"} => job[q] = "none"
    /\ \A q, x \in Request : job[q] \in Inside /\ job[x] \in Inside => q = x

Base == TypeOK /\ Requests

(* What a worker past its insert has done, and what it works on.           *)
Begun == {"queued", "running", "succeeded", "failed"}
Complete(r) == \A n \in File[r] : owner[n] = r
Workers ==
    /\ \A q \in Request : job[q] \in {"inserted", "logged"} => Complete(target[q])
    /\ \A q \in Request : job[q] \in Inside => status[target[q]] \in Begun
    /\ \A q \in Request : job[q] = "logged" => status[target[q]] # "running"

ImportInv ==
    /\ Base /\ Workers
    /\ SucceededIsImported /\ AllOrNothing /\ ImportedIsConfirmed /\ RunningHasWorker
-----------------------------------------------------------------------------
(* Every variable has its type and every worker its request.               *)
LEMMA BaseInit == Init => Base
  BY ImportAssumption DEF Init, Base, TypeOK, Requests, Inside

(* Types and requests through every step, faults included.                 *)
LEMMA BaseStep ==
  ASSUME Base, [Next]_vars
  PROVE  Base'
<1> USE DEF Base, TypeOK, Requests, Inside, Fault
<1>1. ASSUME NEW r \in Run, Upload(r) \/ Validate(r)
      PROVE  Base'
  BY <1>1 DEF Upload, Validate
<1>2. ASSUME NEW n \in Number, EnterPo(n)
      PROVE  Base'
  BY <1>2 DEF EnterPo
<1>3. ASSUME NEW q \in Request, NEW r \in Run, ConfirmRead(q, r)
      PROVE  Base'
  BY <1>3 DEF ConfirmRead
<1>4. ASSUME NEW q \in Request, ConfirmEnqueue(q)
      PROVE  Base'
  BY <1>4 DEF ConfirmEnqueue
<1>5. ASSUME NEW q \in Request, ConfirmMark(q) \/ Disconnect(q)
      PROVE  Base'
  BY <1>5, ImportAssumption DEF ConfirmMark, Disconnect
<1>6. ASSUME NEW q \in Request, JobStart(q)
      PROVE  Base'
  BY <1>6 DEF JobStart, LockHeld
<1>7. ASSUME NEW q \in Request, JobLockTimeout(q)
      PROVE  Base'
  BY <1>7, ImportAssumption DEF JobLockTimeout, Retry
<1>8. ASSUME NEW q \in Request, JobMarkRunning(q) \/ JobMarkSucceeded(q)
      PROVE  Base'
  BY <1>8 DEF JobMarkRunning, JobMarkSucceeded
<1>9. ASSUME NEW q \in Request, JobInsert(q)
      PROVE  Base'
  BY <1>9 DEF JobInsert, Inserted
<1>10. ASSUME NEW q \in Request, JobRefuse(q) \/ JobAudit(q)
       PROVE  Base'
  BY <1>10 DEF JobRefuse, JobAudit
<1>11. ASSUME NEW q \in Request, JobMarkFailed(q)
       PROVE  Base'
  BY <1>11, ImportAssumption DEF JobMarkFailed, Failed, Retry
<1>12. ASSUME NEW q \in Request, JobThrow(q)
       PROVE  Base'
  BY <1>12, ImportAssumption DEF JobThrow, Retry
<1>13. CASE Crash
  BY <1>13, ImportAssumption DEF Crash
<1>14. CASE UNCHANGED vars
  BY <1>14 DEF vars
<1> QED
  BY <1>1, <1>2, <1>3, <1>4, <1>5, <1>6, <1>7, <1>8, <1>9, <1>10, <1>11, <1>12, <1>13, <1>14
  DEF Next, JobStep

(* Every variable keeps its type.                                          *)
THEOREM ImportTypes == Spec => []TypeOK
<1>1. Base => TypeOK
  BY DEF Base
<1>2. Base /\ [Next]_vars => Base'
  BY BaseStep
<1> QED
  BY <1>1, <1>2, BaseInit, PTL DEF Spec
-----------------------------------------------------------------------------
(* The POs.                                                                *)

(* Numbers are taken, never given back, and only by an insert of all the   *)
(* numbers of a workbook.                                                  *)
LEMMA OwnersStep ==
  ASSUME Base, [Next]_vars
  PROVE  \/ owner' = owner
         \/ \E n \in Number : owner[n] = NoRun /\ owner' = [owner EXCEPT ![n] = Other]
         \/ \E q \in Request : JobInsert(q)
<1>1. ASSUME NEW q \in Request, JobStep(q) \/ JobLockTimeout(q) \/ JobThrow(q), ~JobInsert(q)
      PROVE  owner' = owner
  BY <1>1 DEF JobStep, JobStart, JobMarkRunning, JobRefuse, JobMarkSucceeded, JobAudit,
              JobMarkFailed, JobLockTimeout, JobThrow
<1>2. ASSUME NEW q \in Request, ConfirmEnqueue(q) \/ ConfirmMark(q) \/ Disconnect(q)
      PROVE  owner' = owner
  BY <1>2 DEF ConfirmEnqueue, ConfirmMark, Disconnect
<1>3. ASSUME NEW q \in Request, NEW r \in Run, ConfirmRead(q, r)
      PROVE  owner' = owner
  BY <1>3 DEF ConfirmRead
<1> QED
  BY <1>1, <1>2, <1>3 DEF Next, Upload, Validate, EnterPo, Crash, vars

(* What is complete stays complete, and what has entered entered whole.    *)
LEMMA CompleteStep ==
  ASSUME Base, AllOrNothing, [Next]_vars
  PROVE  /\ \A r \in Run : Complete(r) => Complete(r)'
         /\ AllOrNothing'
         /\ \A r \in Run : (\E n \in File[r] : owner'[n] = r) =>
               \/ \E n \in File[r] : owner[n] = r
               \/ \E q \in Request : JobInsert(q) /\ target[q] = r
<1> DEFINE Goal ==
         /\ \A r \in Run : Complete(r) => Complete(r)'
         /\ AllOrNothing'
         /\ \A r \in Run : (\E n \in File[r] : owner'[n] = r) =>
               \/ \E n \in File[r] : owner[n] = r
               \/ \E q \in Request : JobInsert(q) /\ target[q] = r
<1>1. /\ owner \in [Number -> Run \cup {NoRun, Other}]
      /\ \A r \in Run : File[r] \in SUBSET Number /\ r # NoRun /\ r # Other
      /\ NoRun # Other
  BY ImportAssumption DEF Base, TypeOK
<1>2. CASE owner' = owner
  BY <1>2 DEF Complete, AllOrNothing
<1>3. ASSUME NEW n \in Number, owner[n] = NoRun, owner' = [owner EXCEPT ![n] = Other]
      PROVE  Goal
  <2>1. \A m \in Number : owner'[m] = IF m = n THEN Other ELSE owner[m]
    BY <1>1, <1>3
  <2>2. ASSUME NEW r \in Run, NEW m \in File[r], owner'[m] = r
        PROVE  owner[m] = r /\ Complete(r) /\ n \notin File[r]
    <3>1. owner[m] = r
      BY <1>1, <2>1, <2>2
    <3>2. Complete(r)
      BY <3>1 DEF AllOrNothing, Complete
    <3> QED
      BY <1>1, <1>3, <3>1, <3>2 DEF Complete
  <2>3. \A r \in Run : Complete(r) => Complete(r)'
    BY <1>1, <1>3, <2>1 DEF Complete
  <2> QED
    BY <2>2, <2>3 DEF AllOrNothing, Complete
<1>4. ASSUME NEW q \in Request, JobInsert(q)
      PROVE  Goal
  <2> DEFINE t == target[q]
  <2>1. t \in Run
    BY <1>4 DEF JobInsert, Base, Requests
  <2>2. /\ \A n \in File[t] : owner[n] = NoRun
        /\ \A n \in Number : owner'[n] = IF n \in File[t] THEN t ELSE owner[n]
    BY <1>4 DEF JobInsert, NumbersFree, Inserted
  <2> HIDE DEF t
  <2>3. ASSUME NEW r \in Run, r # t, NEW m \in File[r], owner'[m] = r
        PROVE  owner[m] = r
    BY <1>1, <2>2, <2>3
  <2>4. \A r \in Run : Complete(r) => Complete(r)'
    BY <1>1, <2>2 DEF Complete
  <2>5. AllOrNothing'
    <3> SUFFICES ASSUME NEW r \in Run, NEW m \in File[r], owner'[m] = r
                 PROVE  Complete(r)'
      BY DEF AllOrNothing, Complete
    <3>1. CASE r = t
      BY <1>1, <2>2, <3>1 DEF Complete
    <3>2. CASE r # t
      BY <2>3, <2>4, <3>2 DEF AllOrNothing, Complete
    <3> QED
      BY <3>1, <3>2
  <2> QED
    BY <1>4, <2>3, <2>4, <2>5 DEF t
<1> QED
  BY <1>2, <1>3, <1>4, OwnersStep

(* A run's row moves only by its upload, its validation, a confirm or a    *)
(* worker.                                                                 *)
LEMMA StatusStep ==
  ASSUME Base, [Next]_vars, NEW r \in Run
  PROVE  \/ status'[r] = status[r]
         \/ /\ status'[r] \in {"validating", "validated", "validation_failed"}
            /\ status[r] \in {"none", "validating"}
         \/ \E q \in Request : ConfirmMark(q) /\ target[q] = r /\ status'[r] = "queued"
         \/ \E q \in Request : JobMarkRunning(q) /\ target[q] = r /\ status'[r] = "running"
         \/ \E q \in Request : JobMarkSucceeded(q) /\ target[q] = r /\ status'[r] = "succeeded"
         \/ \E q \in Request : JobMarkFailed(q) /\ target[q] = r /\ status'[r] = "failed"
<1>1. CASE status' = status
  BY <1>1
<1>2. ASSUME NEW x \in Run, Upload(x) \/ Validate(x)
      PROVE  \/ status'[r] = status[r]
             \/ /\ status'[r] \in {"validating", "validated", "validation_failed"}
                /\ status[r] \in {"none", "validating"}
  BY <1>2 DEF Upload, Validate, Base, TypeOK
<1>3. ASSUME NEW q \in Request, ConfirmMark(q)
      PROVE  \/ status'[r] = status[r]
             \/ target[q] = r /\ status'[r] = "queued"
  BY <1>3 DEF ConfirmMark, Base, TypeOK
<1>4. ASSUME NEW q \in Request, JobMarkRunning(q)
      PROVE  \/ status'[r] = status[r]
             \/ target[q] = r /\ status'[r] = "running"
  BY <1>4 DEF JobMarkRunning, Base, TypeOK
<1>5. ASSUME NEW q \in Request, JobMarkSucceeded(q)
      PROVE  \/ status'[r] = status[r]
             \/ target[q] = r /\ status'[r] = "succeeded"
  BY <1>5 DEF JobMarkSucceeded, Base, TypeOK
<1>6. ASSUME NEW q \in Request, JobMarkFailed(q)
      PROVE  \/ status'[r] = status[r]
             \/ target[q] = r /\ status'[r] = "failed"
  BY <1>6 DEF JobMarkFailed, Failed, Base, TypeOK
<1>7. ASSUME NEW q \in Request, \/ ConfirmEnqueue(q) \/ Disconnect(q)
                               \/ JobStart(q) \/ JobInsert(q) \/ JobRefuse(q) \/ JobAudit(q)
                               \/ JobLockTimeout(q) \/ JobThrow(q)
      PROVE  status' = status
  BY <1>7 DEF ConfirmEnqueue, Disconnect, JobStart, JobInsert, JobRefuse, JobAudit,
              JobLockTimeout, JobThrow
<1>8. ASSUME NEW q \in Request, NEW x \in Run, ConfirmRead(q, x)
      PROVE  status' = status
  BY <1>8 DEF ConfirmRead
<1>9. ASSUME Crash \/ UNCHANGED vars
      PROVE  status' = status
  BY <1>9 DEF Crash, vars
<1>10. ASSUME NEW n \in Number, EnterPo(n)
       PROVE  status' = status
  BY <1>10 DEF EnterPo
<1> QED
  BY <1>1, <1>2, <1>3, <1>4, <1>5, <1>6, <1>7, <1>8, <1>9, <1>10 DEF Next, JobStep

(* How a worker gets past its insert, onto a run, and to its last step.    *)
LEMMA WorkerStep ==
  ASSUME Base, [Next]_vars, NEW q \in Request
  PROVE  /\ job'[q] \in {"inserted", "logged"} =>
              job[q] \in {"inserted", "logged"} \/ JobInsert(q)
         /\ job'[q] \in Inside =>
              job[q] \in Inside \/ (JobStart(q) /\ Startable(target[q]))
         /\ job'[q] = "logged" => job[q] = "logged" \/ JobMarkSucceeded(q)
         /\ confirm[q] # "idle" => target'[q] = target[q]
         /\ job[q] # "none" => confirm[q] # "idle" /\ target[q] \in Run
<1> USE DEF Base, TypeOK, Requests, Inside
<1>1. job[q] # "none" => confirm[q] # "idle" /\ target[q] \in Run
  OBVIOUS
<1>2. ASSUME UNCHANGED <<job, target>>
      PROVE  job'[q] = job[q] /\ target'[q] = target[q]
  BY <1>2
<1> DEFINE Goal ==
         /\ job'[q] \in {"inserted", "logged"} =>
              job[q] \in {"inserted", "logged"} \/ JobInsert(q)
         /\ job'[q] \in Inside =>
              job[q] \in Inside \/ (JobStart(q) /\ Startable(target[q]))
         /\ job'[q] = "logged" => job[q] = "logged" \/ JobMarkSucceeded(q)
         /\ confirm[q] # "idle" => target'[q] = target[q]
<1>3. ASSUME NEW r \in Run, Upload(r) \/ Validate(r)
      PROVE  Goal
  BY <1>3 DEF Upload, Validate
<1>4. ASSUME NEW n \in Number, EnterPo(n)
      PROVE  Goal
  BY <1>4 DEF EnterPo
<1>5. ASSUME NEW x \in Request, NEW r \in Run, ConfirmRead(x, r)
      PROVE  Goal
  BY <1>5 DEF ConfirmRead
<1>6. ASSUME NEW x \in Request, ConfirmEnqueue(x) \/ ConfirmMark(x) \/ Disconnect(x)
      PROVE  Goal
  BY <1>6 DEF ConfirmEnqueue, ConfirmMark, Disconnect
<1>7. ASSUME NEW x \in Request, JobStart(x)
      PROVE  Goal
  <2>1. job' = [job EXCEPT ![x] = IF Startable(target[x]) THEN "loaded" ELSE "done"] /\ target' = target
    BY <1>7 DEF JobStart
  <2>2. CASE x = q
    BY <1>7, <2>1, <2>2
  <2>3. CASE x # q
    BY <2>1, <2>3
  <2> QED
    BY <2>2, <2>3
<1>8. ASSUME NEW x \in Request, JobInsert(x)
      PROVE  Goal
  <2>1. job' = [job EXCEPT ![x] = "inserted"] /\ target' = target /\ job[x] = "running"
    BY <1>8 DEF JobInsert
  <2> QED
    BY <1>8, <2>1
<1>9. ASSUME NEW x \in Request, JobMarkSucceeded(x)
      PROVE  Goal
  <2>1. job' = [job EXCEPT ![x] = "logged"] /\ target' = target /\ job[x] = "inserted"
    BY <1>9 DEF JobMarkSucceeded
  <2> QED
    BY <1>9, <2>1
<1>10. ASSUME NEW x \in Request, JobMarkRunning(x) \/ JobRefuse(x) \/ JobAudit(x)
       PROVE  Goal
  BY <1>10 DEF JobMarkRunning, JobRefuse, JobAudit
<1>11. ASSUME NEW x \in Request, JobMarkFailed(x) \/ JobLockTimeout(x) \/ JobThrow(x)
       PROVE  Goal
  BY <1>11 DEF JobMarkFailed, JobLockTimeout, JobThrow, Retry
<1>12. CASE Crash
  BY <1>12 DEF Crash
<1>13. CASE UNCHANGED vars
  BY <1>13 DEF vars
<1> QED
  BY <1>1, <1>3, <1>4, <1>5, <1>6, <1>7, <1>8, <1>9, <1>10, <1>11, <1>12, <1>13 DEF Next, JobStep

(* A job is never forgotten.                                               *)
LEMMA JobsStay ==
  ASSUME Base, [Next]_vars, NEW q \in Request, job[q] # "none"
  PROVE  job'[q] # "none"
<1> USE DEF Base, TypeOK
<1>1. ASSUME NEW x \in Request, JobStep(x) \/ JobLockTimeout(x) \/ JobThrow(x)
      PROVE  job'[q] # "none"
  BY <1>1 DEF JobStep, JobStart, JobMarkRunning, JobInsert, JobRefuse, JobMarkSucceeded, JobAudit,
              JobMarkFailed, JobLockTimeout, JobThrow, Retry
<1>2. ASSUME NEW x \in Request, ConfirmEnqueue(x)
      PROVE  job'[q] # "none"
  BY <1>2 DEF ConfirmEnqueue
<1>3. CASE Crash
  BY <1>3 DEF Crash, Inside
<1> QED
  BY <1>1, <1>2, <1>3
  DEF Next, Upload, Validate, EnterPo, ConfirmRead, ConfirmMark, Disconnect, vars

(* A worker is past its insert only once it has made it, works only on a   *)
(* run that was confirmed, and leaves no run shown as running behind.      *)
LEMMA WorkersStep ==
  ASSUME Base, AllOrNothing, Workers, [Next]_vars
  PROVE  Workers'
<1>1. \A q \in Request : job[q] # "none" => target[q] \in Run /\ target'[q] = target[q]
  BY WorkerStep
<1>2. ASSUME NEW q \in Request, job'[q] \in {"inserted", "logged"}
      PROVE  \A n \in File[target'[q]] : owner'[n] = target'[q]
  <2>1. CASE job[q] \in {"inserted", "logged"}
    <3>1. Complete(target[q]) /\ target[q] \in Run /\ target'[q] = target[q]
      BY <1>1, <2>1 DEF Workers
    <3> QED
      BY <3>1, CompleteStep DEF Complete
  <2>2. CASE JobInsert(q)
    BY <2>2, ImportAssumption DEF JobInsert, Inserted, Base, Requests
  <2> QED
    BY <1>2, <2>1, <2>2, WorkerStep
<1>3. ASSUME NEW q \in Request, job'[q] \in Inside
      PROVE  status'[target'[q]] \in Begun
  <2>1. status[target[q]] \in Begun /\ job[q] # "none"
    BY <1>3, WorkerStep DEF Workers, JobStart, Startable, Begun, Inside
  <2> QED
    BY <1>1, <2>1, StatusStep DEF Begun
<1>4. ASSUME NEW q \in Request, job'[q] = "logged"
      PROVE  status'[target'[q]] # "running"
  <2>1. CASE job[q] = "logged"
    <3>1. target[q] \in Run /\ target'[q] = target[q] /\ status[target[q]] # "running"
          /\ status[target[q]] \in Begun
      BY <1>1, <2>1 DEF Workers, Inside
    <3>2. \A x \in Request : ~JobMarkRunning(x)
      BY <2>1 DEF JobMarkRunning, Base, Requests, Inside
    <3> QED
      BY <3>1, <3>2, StatusStep DEF Begun
  <2>2. CASE JobMarkSucceeded(q)
    BY <1>1, <2>2 DEF JobMarkSucceeded, Base, TypeOK
  <2> QED
    BY <1>4, <2>1, <2>2, WorkerStep
<1> QED
  BY <1>2, <1>3, <1>4 DEF Workers, Complete

(* A run is reported as succeeded by a worker that has made its insert.    *)
LEMMA SucceededStep ==
  ASSUME Base, AllOrNothing, Workers, SucceededIsImported, [Next]_vars
  PROVE  SucceededIsImported'
<1> SUFFICES ASSUME NEW r \in Run, status'[r] = "succeeded"
             PROVE  \A n \in File[r] : owner'[n] = r
  BY DEF SucceededIsImported
<1>1. Complete(r)
  <2>1. CASE status[r] = "succeeded"
    BY <2>1 DEF SucceededIsImported, Complete
  <2>2. ASSUME NEW q \in Request, JobMarkSucceeded(q), target[q] = r
        PROVE  Complete(r)
    BY <2>2 DEF JobMarkSucceeded, Workers
  <2> QED
    BY <2>1, <2>2, StatusStep
<1> QED
  BY <1>1, CompleteStep DEF Complete

(* What has entered belongs to a run with a job.                           *)
LEMMA ConfirmedStep ==
  ASSUME Base, AllOrNothing, Workers, ImportedIsConfirmed, [Next]_vars
  PROVE  ImportedIsConfirmed'
<1> SUFFICES ASSUME NEW r \in Run, \E n \in File[r] : owner'[n] = r
             PROVE  /\ status'[r] \in Begun
                    /\ \E q \in Request : target'[q] = r /\ job'[q] # "none"
  BY DEF ImportedIsConfirmed, Begun, JobsOf
<1>1. PICK q \in Request : target[q] = r /\ job[q] # "none" /\ status[r] \in Begun
  <2>1. CASE \E n \in File[r] : owner[n] = r
    BY <2>1 DEF ImportedIsConfirmed, Begun, JobsOf
  <2>2. ASSUME NEW q \in Request, JobInsert(q), target[q] = r
        PROVE  job[q] # "none" /\ status[r] \in Begun
    BY <2>2 DEF JobInsert, Workers, Inside
  <2> QED
    BY <2>1, <2>2, CompleteStep
<1>2. target'[q] = r
  BY <1>1, WorkerStep
<1>3. job'[q] # "none"
  BY <1>1, JobsStay
<1>4. status'[r] \in Begun
  BY <1>1, StatusStep DEF Begun
<1> QED
  BY <1>2, <1>3, <1>4

(* Without a fault a worker leaves its run by the audit or by the catch    *)
(* block.                                                                  *)
LEMMA LeavingStep ==
  ASSUME Base, [Next]_vars, NEW q \in Request, job[q] \in Inside, job'[q] \notin Inside
  PROVE  JobAudit(q) \/ JobMarkFailed(q) \/ Fault
<1> USE DEF Base, TypeOK, Requests, Inside
<1>1. ASSUME NEW x \in Request, JobStart(x) \/ JobLockTimeout(x)
      PROVE  FALSE
  BY <1>1 DEF JobStart, JobLockTimeout, Retry
<1>2. ASSUME NEW x \in Request, JobMarkRunning(x) \/ JobInsert(x) \/ JobRefuse(x) \/ JobMarkSucceeded(x)
      PROVE  FALSE
  BY <1>2 DEF JobMarkRunning, JobInsert, JobRefuse, JobMarkSucceeded
<1>3. ASSUME NEW x \in Request, JobAudit(x) \/ JobMarkFailed(x)
      PROVE  x = q
  BY <1>3 DEF JobAudit, JobMarkFailed, Retry
<1>4. ASSUME NEW x \in Request, ConfirmEnqueue(x)
      PROVE  FALSE
  BY <1>4 DEF ConfirmEnqueue
<1>5. ASSUME NEW x \in Request, JobThrow(x) \/ Disconnect(x)
      PROVE  Fault
  BY <1>5 DEF JobThrow, Disconnect
<1>6. ASSUME job' = job
      PROVE  FALSE
  BY <1>6
<1>7. ASSUME Crash
      PROVE  Fault
  BY <1>7 DEF Crash
<1> QED
  BY <1>1, <1>2, <1>3, <1>4, <1>5, <1>6, <1>7
  DEF Next, JobStep, Upload, Validate, EnterPo, ConfirmRead, ConfirmMark, vars

(* A run shown as running keeps the worker that marked it.                 *)
LEMMA RunningStep ==
  ASSUME Base, Workers, RunningHasWorker, [Next]_vars
  PROVE  RunningHasWorker'
<1> SUFFICES ASSUME faults' = 0, NEW r \in Run, status'[r] = "running"
             PROVE  \E q \in Request : target'[q] = r /\ job'[q] \in Inside
  BY DEF RunningHasWorker, JobsOf
<1>1. faults = 0 /\ ~Fault
  <2>1. faults \in Nat /\ (Fault \/ faults' = faults)
    BY ImportAssumption
    DEF Base, TypeOK, Next, JobStep, Upload, Validate, EnterPo, ConfirmRead, ConfirmEnqueue,
        ConfirmMark, Disconnect, JobStart, JobLockTimeout, JobMarkRunning, JobInsert,
        JobRefuse, JobMarkSucceeded, JobAudit, JobMarkFailed, JobThrow, Crash, vars
  <2> QED
    BY <2>1 DEF Fault
<1>2. CASE status[r] = "running"
  <2>1. PICK q \in Request : target[q] = r /\ job[q] \in Inside
    BY <1>1, <1>2 DEF RunningHasWorker, JobsOf
  <2>2. target'[q] = r
    BY <2>1, WorkerStep DEF Inside
  <2>3. ~JobAudit(q)
    BY <1>2, <2>1 DEF Workers, JobAudit
  <2>4. ~JobMarkFailed(q)
    BY <2>1 DEF JobMarkFailed, Failed, Base, TypeOK
  <2>5. job'[q] \in Inside
    BY <1>1, <2>1, <2>3, <2>4, LeavingStep
  <2> QED
    BY <2>2, <2>5
<1>3. ASSUME NEW q \in Request, JobMarkRunning(q), target[q] = r
      PROVE  target'[q] = r /\ job'[q] \in Inside
  BY <1>3 DEF JobMarkRunning, Base, TypeOK, Inside
<1> QED
  BY <1>2, <1>3, StatusStep

(* Nothing is imported at first.                                           *)
LEMMA ImportInit == Init => ImportInv
<1> SUFFICES ASSUME Init PROVE ImportInv
  OBVIOUS
<1>1. Base
  BY BaseInit
<1>2. \A r \in Run : File[r] \subseteq Number /\ r # NoRun
  BY ImportAssumption
<1>3. Workers
  BY DEF Init, Workers, Inside
<1>4. SucceededIsImported /\ RunningHasWorker
  BY DEF Init, SucceededIsImported, RunningHasWorker
<1>5. AllOrNothing /\ ImportedIsConfirmed
  BY <1>2 DEF Init, AllOrNothing, ImportedIsConfirmed
<1> QED
  BY <1>1, <1>3, <1>4, <1>5 DEF ImportInv

(* ImportInv is inductive.                                                 *)
LEMMA ImportStep == ImportInv /\ [Next]_vars => ImportInv'
  BY BaseStep, CompleteStep, WorkersStep, SucceededStep, ConfirmedStep, RunningStep
  DEF ImportInv

(* Succeeded means imported, in every interleaving of double confirms,     *)
(* retries and crashes (RunAsync).                                         *)
THEOREM SucceededCorrect == Spec => []SucceededIsImported
<1>1. ImportInv => SucceededIsImported
  BY DEF ImportInv
<1> QED
  BY <1>1, ImportInit, ImportStep, PTL DEF Spec

(* A workbook enters whole or not at all (the insert of RunAsync).         *)
THEOREM WholeCorrect == Spec => []AllOrNothing
<1>1. ImportInv => AllOrNothing
  BY DEF ImportInv
<1> QED
  BY <1>1, ImportInit, ImportStep, PTL DEF Spec

(* Nothing enters unconfirmed (Confirm, RunAsync).                         *)
THEOREM ConfirmedCorrect == Spec => []ImportedIsConfirmed
<1>1. ImportInv => ImportedIsConfirmed
  BY DEF ImportInv
<1> QED
  BY <1>1, ImportInit, ImportStep, PTL DEF Spec

(* Only a fault leaves a run shown as running with nobody on it: the lock  *)
(* of DisableConcurrentExecution keeps other workers' marks away.          *)
THEOREM RunningCorrect == Spec => []RunningHasWorker
<1>1. ImportInv => RunningHasWorker
  BY DEF ImportInv
<1> QED
  BY <1>1, ImportInit, ImportStep, PTL DEF Spec
-----------------------------------------------------------------------------
(* A finished run.                                                         *)

(* No step touches a settled run: its row cannot be confirmed, and its     *)
(* jobs and requests are over.                                             *)
LEMMA SettledStep ==
  ASSUME Base, [Next]_vars, NEW r \in Run, Settled(r)
  PROVE  Settled(r)'
<1>1. /\ status[r] \in {"succeeded", "failed"}
      /\ \A q \in Request : target[q] = r => confirm[q] = "done" /\ job[q] \in {"none", "done", "dead"}
  BY DEF Settled, Finished, JobsOf
<1>2. status'[r] \in {"succeeded", "failed"}
  <2>1. \A q \in Request : ConfirmMark(q) => target[q] # r
    BY <1>1 DEF ConfirmMark
  <2>2. \A q \in Request : JobMarkRunning(q) \/ JobMarkSucceeded(q) \/ JobMarkFailed(q) => target[q] # r
    BY <1>1 DEF JobMarkRunning, JobMarkSucceeded, JobMarkFailed
  <2> QED
    BY <1>1, <2>1, <2>2, StatusStep
<1>3. ASSUME NEW q \in Request, target'[q] = r
      PROVE  target[q] = r
  <2>1. \A x \in Request : ~ConfirmRead(x, r)
    BY <1>1 DEF ConfirmRead, Confirmable
  <2> QED
    BY <1>3, <2>1
    DEF Base, TypeOK, Next, JobStep, Upload, Validate, EnterPo, ConfirmRead, ConfirmEnqueue,
        ConfirmMark, Disconnect, JobStart, JobLockTimeout, JobMarkRunning, JobInsert,
        JobRefuse, JobMarkSucceeded, JobAudit, JobMarkFailed, JobThrow, Crash, vars
<1>4. ASSUME NEW q \in Request, target[q] = r
      PROVE  confirm'[q] = "done"
  BY <1>1, <1>4
  DEF Base, TypeOK, Next, JobStep, Upload, Validate, EnterPo, ConfirmRead, ConfirmEnqueue,
      ConfirmMark, Disconnect, JobStart, JobLockTimeout, JobMarkRunning, JobInsert,
      JobRefuse, JobMarkSucceeded, JobAudit, JobMarkFailed, JobThrow, Crash, vars
<1>5. ASSUME NEW q \in Request, target[q] = r
      PROVE  job'[q] \in {"none", "done", "dead"}
  <2>1. job[q] \in {"none", "done", "dead"} /\ confirm[q] = "done"
    BY <1>1, <1>5
  <2>2. ASSUME NEW x \in Request, JobStep(x) \/ JobLockTimeout(x) \/ JobThrow(x)
        PROVE  x # q
    BY <2>1, <2>2 DEF JobStep, JobStart, JobMarkRunning, JobInsert, JobRefuse, JobMarkSucceeded,
                      JobAudit, JobMarkFailed, JobLockTimeout, JobThrow
  <2>3. ASSUME NEW x \in Request, JobStep(x) \/ JobLockTimeout(x) \/ JobThrow(x)
        PROVE  job'[q] = job[q]
    BY <2>2, <2>3 DEF JobStep, JobStart, JobMarkRunning, JobInsert, JobRefuse, JobMarkSucceeded,
                      JobAudit, JobMarkFailed, JobLockTimeout, JobThrow, Retry, Base, TypeOK
  <2>4. ASSUME NEW x \in Request, ConfirmEnqueue(x)
        PROVE  job'[q] = job[q]
    BY <2>1, <2>4 DEF ConfirmEnqueue, Base, TypeOK
  <2>5. CASE Crash
    BY <2>1, <2>5 DEF Crash, Inside
  <2> QED
    BY <2>1, <2>3, <2>4, <2>5
    DEF Next, Upload, Validate, EnterPo, ConfirmRead, ConfirmMark, Disconnect, vars
<1> QED
  BY <1>2, <1>3, <1>4, <1>5 DEF Settled, Finished, JobsOf

(* A finished import stays finished (Confirm, RunAsync).                   *)
THEOREM SettledCorrect == Spec => SettledForGood
<1> DEFINE A == \A r \in Run : Settled(r) => Settled(r)'
<1>1. Base /\ [Next]_vars => [A]_vars
  BY SettledStep
<1>2. SettledForGood <=> [][A]_vars
  BY DEF SettledForGood
<1>3. Base /\ [Next]_vars => Base'
  BY BaseStep
<1> HIDE DEF A
<1> QED
  BY <1>1, <1>2, <1>3, BaseInit, PTL DEF Spec
=============================================================================
