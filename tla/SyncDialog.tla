----------------------------- MODULE SyncDialog ------------------------------
(***************************************************************************)
(* The dialog of the dashboard that starts an ERP synchronisation and      *)
(* follows its Hangfire job by polling (dashboard.js, initErpSync; the     *)
(* page Admin/ErpSync has the same dialog; SourceList has its list of      *)
(* sources).  Around it: the trigger and the job queries of the API, the   *)
(* workers, and the run of the schedule.                                   *)
(***************************************************************************)
EXTENDS Integers, FiniteSets

CONSTANTS
    Job,
    MaxClick,  \* bound on openings of the dialog
    MaxTries,  \* bound on attempts of a job (Hangfire's default is more)
    Lossy,
    None, Recurring

DialogAssumption ==
    /\ IsFiniteSet(Job)
    /\ {None, Recurring} \cap Job = {} /\ None # Recurring
    /\ Lossy \in BOOLEAN
    /\ MaxClick \in Nat /\ MaxTries \in Nat \ {0}

VARIABLES
    jobs,      \* Hangfire: state and attempts of each job
    holder,    \* ErpSyncMutex: the job or the scheduled run that holds it
    ran,       \* the jobs that have held the mutex
    open,      \* the dialog is shown
    busy,      \* setBusy: trigger, cancel and source are disabled
    status,    \* the job the line below tells of, or None
    timers,    \* jobs with a poll armed
    pollTimer, \* the job whose poll the variable of that name can clear
    toasted,   \* jobs reported complete
    net,
    clicks

server == <<jobs, holder, ran>>
page == <<open, busy, status, timers, pollTimer, toasted, clicks>>
vars == <<server, page, net>>

Unused == CHOOSE n \in 1 .. Cardinality(net) + 1 : \A r \in net : r.id # n
Request(k, j) == [id |-> Unused, kind |-> k, job |-> j, answer |-> "none"]
Unanswered == {r \in net : r.kind = "trigger" /\ r.answer = "none"}
FreeJobs == {j \in Job : jobs[j].state = "none"}
Answered(r, j, a) == net' = (net \ {r}) \cup {[r EXCEPT !.job = j, !.answer = a]}

-----------------------------------------------------------------------------
(* The API and the workers.                                                *)

ServeTrigger(r) ==
    /\ r.kind = "trigger" /\ r.answer = "none"
    /\ IF holder # None
       THEN Answered(r, None, "conflict") /\ UNCHANGED jobs
       ELSE LET j == CHOOSE i \in FreeJobs : TRUE IN
            /\ jobs' = [jobs EXCEPT ![j].state = "Enqueued"]
            /\ Answered(r, j, "accepted")
    /\ UNCHANGED <<holder, ran, page>>

ServeRead(r) ==
    /\ r.kind \in {"sources", "poll"} /\ r.answer = "none"
    /\ Answered(r, r.job, IF r.kind = "poll" THEN jobs[r.job].state ELSE "ok")
    /\ UNCHANGED <<server, page>>

(* A lost read is the same before and after it is served.                  *)
Lose(r) ==
    /\ Lossy /\ r.answer # "lost"
    /\ r.kind = "trigger" \/ r.answer = "none"
    /\ Answered(r, r.job, "lost")
    /\ UNCHANGED <<server, page>>

(* Jobs exclude each other by DisableConcurrentExecution; the mutex keeps  *)
(* them from the scheduled run, and a job that does not get it returns.    *)
Start(j) ==
    /\ jobs[j].state = "Enqueued" /\ holder \notin Job
    /\ IF holder = None
       THEN /\ jobs' = [jobs EXCEPT ![j] = [state |-> "Processing", tries |-> @.tries + 1]]
            /\ holder' = j /\ ran' = ran \cup {j}
       ELSE jobs' = [jobs EXCEPT ![j].state = "Succeeded"] /\ UNCHANGED <<holder, ran>>
    /\ UNCHANGED <<page, net>>

(* A failed attempt is scheduled again, the last one fails the job.        *)
End(j) ==
    /\ holder = j /\ holder' = None
    /\ \E s \in {"Succeeded", IF jobs[j].tries < MaxTries THEN "Scheduled" ELSE "Failed"} :
           jobs' = [jobs EXCEPT ![j].state = s]
    /\ UNCHANGED <<ran, page, net>>

Retry(j) ==
    /\ jobs[j].state = "Scheduled"
    /\ jobs' = [jobs EXCEPT ![j].state = "Enqueued"]
    /\ UNCHANGED <<holder, ran, page, net>>

StartRecurring == holder = None /\ holder' = Recurring /\ UNCHANGED <<jobs, ran, page, net>>
EndRecurring == holder = Recurring /\ holder' = None /\ UNCHANGED <<jobs, ran, page, net>>

-----------------------------------------------------------------------------
Terminal == {"Succeeded", "Failed", "Deleted"}

(* Mutant: a job accepted is polled twice, now and by a timer.             *)
PolledTwice(j) == timers \cup {j}
ArmedFor(j) == timers

Click ==
    /\ ~open
    /\ clicks < MaxClick /\ clicks' = clicks + 1
    /\ status' = None /\ busy' = FALSE
    /\ net' = net \cup {Request("sources", None)}
    /\ UNCHANGED <<server, open, timers, pollTimer, toasted>>

(* The dialog is shown when the list of sources is filled, well or ill.    *)
SourcesAnswer(r) ==
    /\ r.kind = "sources" /\ r.answer \in {"ok", "lost"}
    /\ net' = net \ {r}
    /\ open' = TRUE
    /\ UNCHANGED <<server, busy, status, timers, pollTimer, toasted, clicks>>

Trigger ==
    /\ open /\ ~busy
    /\ Cardinality(Unanswered) < Cardinality(FreeJobs) \* bound
    /\ status' = None /\ busy' = TRUE
    /\ net' = net \cup {Request("trigger", None)}
    /\ UNCHANGED <<server, open, timers, pollTimer, toasted, clicks>>

TriggerAnswer(r) ==
    /\ r.kind = "trigger" /\ r.answer # "none"
    /\ IF r.answer = "accepted"
       THEN /\ status' = r.job
            /\ net' = (net \ {r}) \cup {[r EXCEPT !.kind = "poll", !.answer = "none"]}
            /\ timers' = ArmedFor(r.job)
            /\ UNCHANGED busy
       ELSE net' = net \ {r} /\ busy' = FALSE /\ UNCHANGED <<status, timers>>
    /\ UNCHANGED <<server, open, pollTimer, toasted, clicks>>

(* hidden.bs.modal.                                                        *)
Hidden == timers' = timers \ {pollTimer} /\ pollTimer' = None /\ status' = None /\ busy' = FALSE

Dismiss ==
    /\ open /\ open' = FALSE
    /\ Hidden
    /\ UNCHANGED <<server, toasted, net, clicks>>

PollAgain(r) ==
    /\ r.kind = "poll" /\ r.answer \notin Terminal \cup {"none", "lost"}
    /\ net' = net \ {r}
    /\ status' = r.job
    /\ timers' = timers \cup {r.job} /\ pollTimer' = r.job
    /\ UNCHANGED <<server, open, busy, toasted, clicks>>

Complete(a) == a = "Succeeded"

(* The dialog is hidden, if it is shown, and the job reported.             *)
PollComplete(r) ==
    /\ r.kind = "poll" /\ Complete(r.answer)
    /\ net' = net \ {r}
    /\ open' = FALSE
    /\ IF open THEN Hidden ELSE busy' = FALSE /\ UNCHANGED <<timers, pollTimer, status>>
    /\ toasted' = toasted \cup {r.job}
    /\ UNCHANGED <<server, clicks>>

ResetBusy(r) == TRUE

(* A job that failed, a poll refused or lost.                              *)
PollFailed(r) ==
    /\ r.kind = "poll" /\ r.answer \in {"Failed", "Deleted", "lost"}
    /\ net' = net \ {r}
    /\ status' = r.job
    /\ busy' = IF ResetBusy(r) THEN FALSE ELSE busy
    /\ UNCHANGED <<server, open, timers, pollTimer, toasted, clicks>>

PollTimer(j) ==
    /\ j \in timers
    /\ timers' = timers \ {j}
    /\ net' = net \cup {Request("poll", j)}
    /\ UNCHANGED <<server, open, busy, status, pollTimer, toasted, clicks>>

-----------------------------------------------------------------------------
Init ==
    /\ jobs = [j \in Job |-> [state |-> "none", tries |-> 0]]
    /\ holder = None /\ ran = {}
    /\ open = FALSE /\ busy = FALSE /\ status = None
    /\ timers = {} /\ pollTimer = None /\ toasted = {}
    /\ net = {} /\ clicks = 0

Answer(r) == SourcesAnswer(r) \/ TriggerAnswer(r) \/ PollAgain(r) \/ PollComplete(r) \/ PollFailed(r)
Serve(r) == ServeTrigger(r) \/ ServeRead(r)
Worker(j) == Start(j) \/ End(j) \/ Retry(j)

Next ==
    \/ Click \/ Trigger \/ Dismiss
    \/ \E r \in net : Serve(r) \/ Lose(r) \/ Answer(r)
    \/ \E j \in Job : Worker(j) \/ PollTimer(j)
    \/ StartRecurring \/ EndRecurring

Settles(n) == \E r \in net : r.id = n /\ (Serve(r) \/ Answer(r))

Spec ==
    /\ Init /\ [][Next]_vars
    /\ \A n \in 1 .. MaxClick + Cardinality(Job) + 1 : WF_vars(Settles(n))
    /\ \A j \in Job : WF_vars(Worker(j)) /\ WF_vars(PollTimer(j))
    /\ WF_vars(EndRecurring)

-----------------------------------------------------------------------------
Polled(j) == j \in timers \/ \E r \in net : r.kind = "poll" /\ r.job = j
Pending == (\E r \in net : r.kind = "trigger") \/ \E j \in Job : Polled(j)

(* One poll at a time per job, and no request shares its number.           *)
TypeOK ==
    /\ jobs \in [Job -> [state : {"none", "Enqueued", "Processing", "Scheduled"} \cup Terminal, tries : 0 .. MaxTries]]
    /\ holder \in Job \cup {None, Recurring} /\ ran \subseteq Job /\ toasted \subseteq Job
    /\ {open, busy} \subseteq BOOLEAN /\ {status, pollTimer} \subseteq Job \cup {None}
    /\ \A r, q \in net : r.id = q.id \/ (r.kind = "poll" /\ q.kind = "poll" /\ r.job = q.job) => r = q
    /\ \A r \in net : r.kind = "poll" => r.job \notin timers

(* The dialog is disabled only while an answer or a poll is to come that   *)
(* will enable it: over dismissals, several jobs and lost requests it is   *)
(* never left disabled with nothing under way.                             *)
BusyMeansPending == busy => Pending

(* The same as every step keeps it: what is polled is a job, and there is  *)
(* a job left for every trigger the server has not answered.               *)
PendingInv ==
    /\ BusyMeansPending
    /\ timers \subseteq Job
    /\ \A r \in net : {"kind", "job", "answer"} \subseteq DOMAIN r
    /\ \A r \in net : r.kind = "poll" \/ (r.kind = "trigger" /\ r.answer = "accepted") => r.job \in Job
    /\ IsFiniteSet(net) /\ DOMAIN jobs = Job
    /\ \A j \in Job : {"state", "tries"} \subseteq DOMAIN jobs[j] /\ (holder = j => jobs[j].state # "none")
    /\ Cardinality(Unanswered) =< Cardinality(FreeJobs)

(* A job is reported when it has succeeded, and not polled afterwards.     *)
ReportedSucceeded == \A j \in toasted : jobs[j].state = "Succeeded" /\ ~Polled(j)

(* The same as every step keeps it: a job is followed by one poll, armed   *)
(* or under way, or by the trigger that was accepted, until it is          *)
(* reported; and one that has succeeded is not run again.                  *)
Following == {r \in net : r.kind = "poll" \/ (r.kind = "trigger" /\ r.answer = "accepted")}
ReportInv ==
    /\ \A r, q \in Following : r.job = q.job => r = q
    /\ \A r \in Following :
        /\ r.job \notin timers \cup toasted /\ jobs[r.job].state # "none"
        /\ r.answer = "Succeeded" => jobs[r.job].state = "Succeeded"
    /\ \A j \in timers : j \notin toasted /\ jobs[j].state # "none"
    /\ toasted \subseteq Job /\ \A j \in toasted : jobs[j].state = "Succeeded"
    /\ \A j \in Job : holder = j => jobs[j].state = "Processing"

(* A sync that was started comes to an end for the dialog too: whatever    *)
(* fails or is lost, the buttons are enabled again.                        *)
Disabled == busy
=============================================================================
