------------------------------ MODULE Exports ------------------------------
(***************************************************************************)
(* Excel exports on the server: ExportService inserts the row and enqueues *)
(* the job, TransactionsExportJob (the other two jobs have its shape)      *)
(* writes the workbook, mails the link and keeps the row up to date;       *)
(* Hangfire runs a job again when it threw and when its worker died.  The  *)
(* mail service only logs the link in a process that has no SMTP settings, *)
(* and the host sweeps old workbooks from the disk.                        *)
(***************************************************************************)
EXTENDS Naturals

CONSTANTS
    Export,
    MaxRetry, \* Attempts of AutomaticRetry
    MaxCrash  \* bound on the deaths of the process

ExportAssumption == MaxRetry \in Nat /\ MaxCrash \in Nat

VARIABLES
    status, runs, grabbed, \* the row: Status, times set running, DownloadedAt
    request, \* the POST: none, inserted, answered or refused
    job,     \* where Hangfire has the job, or what its worker did last
    tries,   \* retries used up
    file,    \* the workbook: none yet, on disk, or swept
    told,    \* where SendAsync has put the link: the mailbox, the log
    smtp,    \* IsConfigured, of the process that runs
    crashes, \* times the process died
    unwritten \* exports whose last statement on the row failed

row == <<status, runs, grabbed>>
vars == <<status, runs, grabbed, request, job, tries, file, told, smtp, crashes, unwritten>>

Working == {"started", "written", "mailed", "threw", "marked"}

-----------------------------------------------------------------------------
(* EnqueueTransactionsExportAsync.                                         *)
InsertQueued(e) ==
    /\ request[e] = "none"
    /\ request' = [request EXCEPT ![e] = "inserted"]
    /\ status' = [status EXCEPT ![e] = "queued"]
    /\ UNCHANGED <<runs, grabbed, job, tries, file, told, smtp, crashes, unwritten>>

Enqueue(e) ==
    /\ request[e] = "inserted"
    /\ \/ request' = [request EXCEPT ![e] = "answered"] /\ job' = [job EXCEPT ![e] = "enqueued"]
       \/ request' = [request EXCEPT ![e] = "refused"] /\ UNCHANGED job
    /\ UNCHANGED <<row, tries, file, told, smtp, crashes, unwritten>>

-----------------------------------------------------------------------------
(* AutomaticRetry.  Mutant: one retry too many.                            *)
RetriesLeftOver(e) == tries[e] =< MaxRetry
RetriesLeft(e) == tries[e] < MaxRetry

(* The job has thrown: it is run again, or is over.                        *)
Thrown(e) ==
    IF RetriesLeft(e)
    THEN job' = [job EXCEPT ![e] = "enqueued"] /\ tries' = [tries EXCEPT ![e] = @ + 1]
    ELSE job' = [job EXCEPT ![e] = "failed"] /\ UNCHANGED tries

(* UpdateRunningAsync, outside of the try.                                 *)
UpdateRunning(e) ==
    /\ job[e] = "enqueued"
    /\ \/ /\ job' = [job EXCEPT ![e] = "started"]
          /\ status' = [status EXCEPT ![e] = "running"]
          /\ runs' = [runs EXCEPT ![e] = @ + 1]
          /\ unwritten' = unwritten \ {e} /\ UNCHANGED tries
       \/ Thrown(e) /\ unwritten' = unwritten \cup {e} /\ UNCHANGED <<status, runs>>
    /\ UNCHANGED <<grabbed, request, file, told, smtp, crashes>>

WriteWorkbook(e) ==
    /\ job[e] = "started"
    /\ job' = [job EXCEPT ![e] = "written"] /\ file' = [file EXCEPT ![e] = "there"]
    /\ UNCHANGED <<row, request, tries, told, smtp, crashes, unwritten>>

(* Without SMTP settings SendAsync logs the link and returns.              *)
SendAsync == IF smtp THEN "mail" ELSE "log"

SendMail(e) ==
    /\ job[e] = "written"
    /\ job' = [job EXCEPT ![e] = "mailed"] /\ told' = [told EXCEPT ![e] = @ \cup {SendAsync}]
    /\ UNCHANGED <<row, request, tries, file, smtp, crashes, unwritten>>

(* The step the row is marked after.  Mutant: before the mail is sent.     *)
ReadyUnmailed(e) == job[e] \in {"written", "mailed"}
Ready(e) == job[e] = "mailed"

UpdateSucceeded(e) ==
    /\ Ready(e)
    /\ job' = [job EXCEPT ![e] = "marked"]
    /\ status' = [status EXCEPT ![e] = "succeeded"]
    /\ UNCHANGED <<runs, grabbed, request, tries, file, told, smtp, crashes, unwritten>>

(* The query, the file, the mail or the last statement throws.             *)
Throw(e) ==
    /\ job[e] \in {"started", "written", "mailed"}
    /\ job' = [job EXCEPT ![e] = "threw"]
    /\ UNCHANGED <<row, request, tries, file, told, smtp, crashes, unwritten>>

(* The row a thrown attempt leaves.                                        *)
AfterThrow(e) == "failed"

UpdateFailed(e) ==
    /\ job[e] = "threw"
    /\ Thrown(e)
    /\ \/ status' = [status EXCEPT ![e] = AfterThrow(e)] /\ unwritten' = unwritten \ {e}
       \/ unwritten' = unwritten \cup {e} /\ UNCHANGED status
    /\ UNCHANGED <<runs, grabbed, request, file, told, smtp, crashes>>

Return(e) ==
    /\ job[e] = "marked"
    /\ job' = [job EXCEPT ![e] = "succeeded"]
    /\ UNCHANGED <<row, request, tries, file, told, smtp, crashes, unwritten>>

(* The process dies with its workers, before Hangfire knows what became of *)
(* their jobs: they are handed out again by the one that starts next, with *)
(* the SMTP settings of then.                                              *)
AfterCrash(j) == IF j \in Working THEN "enqueued" ELSE j

Crash ==
    /\ crashes < MaxCrash /\ crashes' = crashes + 1
    /\ job' = [e \in Export |-> AfterCrash(job[e])]
    /\ smtp' \in BOOLEAN
    /\ UNCHANGED <<row, request, tries, file, told, unwritten>>

(* The host's scheduled task deletes workbooks that are days old: none     *)
(* that a worker has just written.                                         *)
Sweep(e) ==
    /\ file[e] = "there" /\ job[e] \notin Working
    /\ file' = [file EXCEPT ![e] = "swept"]
    /\ UNCHANGED <<row, request, job, tries, told, smtp, crashes, unwritten>>

(* MarkDownloadedAsync.  Mutant: of any row whose file is there.           *)
DownloadableIfFile(e) == file[e] = "there" /\ ~grabbed[e]
Downloadable(e) == status[e] = "succeeded" /\ ~grabbed[e]

MarkDownloaded(e) ==
    /\ Downloadable(e)
    /\ grabbed' = [grabbed EXCEPT ![e] = TRUE]
    /\ UNCHANGED <<status, runs, request, job, tries, file, told, smtp, crashes, unwritten>>

-----------------------------------------------------------------------------
Init ==
    /\ status = [e \in Export |-> "none"] /\ runs = [e \in Export |-> 0]
    /\ grabbed = [e \in Export |-> FALSE] /\ request = [e \in Export |-> "none"]
    /\ job = [e \in Export |-> "none"] /\ tries = [e \in Export |-> 0]
    /\ file = [e \in Export |-> "none"] /\ told = [e \in Export |-> {}]
    /\ smtp \in BOOLEAN /\ crashes = 0 /\ unwritten = {}

Work(e) ==
    UpdateRunning(e) \/ WriteWorkbook(e) \/ SendMail(e) \/ UpdateSucceeded(e) \/ UpdateFailed(e) \/ Return(e)

Do(e) ==
    InsertQueued(e) \/ Enqueue(e) \/ Work(e) \/ Throw(e) \/ Sweep(e) \/ MarkDownloaded(e)

Next == Crash \/ \E e \in Export : Do(e)

(* Hangfire runs what is enqueued, and a worker goes on until it dies.     *)
Fairness == \A e \in Export : WF_vars(Work(e))
Spec == Init /\ [][Next]_vars /\ Fairness

-----------------------------------------------------------------------------
(* A row is written by the one worker of its job.                          *)
TypeOK ==
    /\ status \in [Export -> {"none", "queued", "running", "succeeded", "failed"}]
    /\ grabbed \in [Export -> BOOLEAN] /\ file \in [Export -> {"none", "there", "swept"}]
    /\ runs \in [Export -> Nat] /\ tries \in [Export -> 0 .. MaxRetry]
    /\ told \in [Export -> SUBSET {"mail", "log"}] /\ smtp \in BOOLEAN
    /\ request \in [Export -> {"none", "inserted", "answered", "refused"}]
    /\ job \in [Export -> Working \cup {"none", "enqueued", "failed", "succeeded"}]
    /\ crashes \in 0 .. MaxCrash /\ unwritten \subseteq Export

(* A row that says succeeded, and every row the operator has downloaded,   *)
(* has had its workbook written and its link sent or logged, whatever was  *)
(* retried; and the process that has marked it, when it has SMTP settings, *)
(* has mailed the link, also of an export an earlier one had only logged.  *)
SucceededIsSent ==
    \A e \in Export :
        /\ status[e] = "succeeded" \/ grabbed[e] => file[e] # "none" /\ told[e] # {}
        /\ job[e] = "marked" => SendAsync \in told[e]

(* Once the job is over the row says how it ended, and a row that says     *)
(* queued has its job waiting, unless the last statement on the row        *)
(* failed, or the enqueue was refused.                                     *)
RowTellsJob ==
    \A e \in Export :
        /\ job[e] = "succeeded" => status[e] = "succeeded"
        /\ job[e] = "failed" /\ e \notin unwritten => status[e] = "failed"
        /\ status[e] = "queued" /\ request[e] = "answered" /\ e \notin unwritten => job[e] = "enqueued"

(* There is a row once the POST has inserted it, and a job once it has     *)
(* answered.                                                               *)
Requested ==
    \A e \in Export :
        /\ status[e] = "none" <=> request[e] = "none"
        /\ request[e] # "answered" => job[e] = "none"
        /\ job[e] = "none" => status[e] \in {"none", "queued"}

(* How far an attempt has come can be seen in the row, on disk and in the  *)
(* mail; what a worker has just written is not swept.                      *)
Underway ==
    \A e \in Export :
        /\ job[e] \in {"started", "written", "mailed", "threw"} => status[e] = "running"
        /\ job[e] \in {"written", "mailed"} => file[e] = "there"
        /\ job[e] = "mailed" => SendAsync \in told[e]
        /\ job[e] \in {"marked", "succeeded"} => status[e] = "succeeded"

(* Every run after the first one is a retry or follows a death; the one    *)
(* that is due has not been counted yet.                                   *)
Counted ==
    \A e \in Export :
        /\ runs[e] =< tries[e] + crashes + 1
        /\ job[e] \in {"none", "enqueued"} => runs[e] =< tries[e] + crashes

-----------------------------------------------------------------------------
(* What every step keeps; with it the rows implement ExportLife.           *)
ExportInv == TypeOK /\ Requested /\ Underway /\ Counted /\ SucceededIsSent /\ RowTellsJob
=============================================================================
