----------------------------- MODULE ExportLife -----------------------------
(***************************************************************************)
(* What the log of exports (dbo.ExportJobsLog) promises to whoever reads   *)
(* it: a row is queued once, runs a bounded number of times, ends from     *)
(* running only, and is grabbed only once it has succeeded.                *)
(***************************************************************************)
EXTENDS Naturals

CONSTANTS
    Export,
    MaxRun \* how often a row can be run

VARIABLES
    status,  \* Status of each row
    runs,    \* how often it was set running
    grabbed  \* DownloadedAt is set

life == <<status, runs, grabbed>>

Queue(e) ==
    /\ status[e] = "none"
    /\ status' = [status EXCEPT ![e] = "queued"]
    /\ UNCHANGED <<runs, grabbed>>

(* A run begins, or begins again.                                          *)
Run(e) ==
    /\ status[e] # "none" /\ runs[e] < MaxRun
    /\ status' = [status EXCEPT ![e] = "running"]
    /\ runs' = [runs EXCEPT ![e] = @ + 1]
    /\ UNCHANGED grabbed

Finish(e) ==
    /\ status[e] = "running"
    /\ \E s \in {"succeeded", "failed"} : status' = [status EXCEPT ![e] = s]
    /\ UNCHANGED <<runs, grabbed>>

Grab(e) ==
    /\ status[e] = "succeeded"
    /\ grabbed' = [grabbed EXCEPT ![e] = TRUE]
    /\ UNCHANGED <<status, runs>>

Init ==
    /\ status = [e \in Export |-> "none"]
    /\ runs = [e \in Export |-> 0]
    /\ grabbed = [e \in Export |-> FALSE]

Next == \E e \in Export : Queue(e) \/ Run(e) \/ Finish(e) \/ Grab(e)

Spec == Init /\ [][Next]_life
=============================================================================
