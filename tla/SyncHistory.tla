----------------------------- MODULE SyncHistory -----------------------------
(***************************************************************************)
(* The page Admin/ErpSync (admin-erp-sync.js): the list of the runs and    *)
(* the banner that tells that one is in flight, kept up to date by a probe *)
(* every five seconds.  The runs go on behind it: a job takes the mutex,   *)
(* inserts its row, marks it done and gives the mutex back.                *)
(***************************************************************************)
EXTENDS Integers, FiniteSets, Sequences

CONSTANTS
    MaxRun,  \* bound on runs
    MaxList, \* bound on lists asked for by hand
    MaxNet,  \* bound on requests under way: a slow answer is overtaken by the next
    MaxLoss  \* bound on requests lost

HistoryAssumption == {MaxRun, MaxList, MaxLoss} \subseteq Nat /\ MaxNet \in Nat \ {0}

VARIABLES
    log,    \* the rows of ErpSyncLog, by their status
    phase,  \* of the run under way; IsRunning when it is not idle
    shown,  \* the rows on the page
    banner, \* the banner is shown
    net,    \* requests: what was asked and what the answer says
    asked, losses

server == <<log, phase>>
vars == <<server, shown, banner, net, asked, losses>>

Ask(s, k) == s \cup {[id |-> CHOOSE n \in 1 .. MaxNet : \A r \in s : r.id # n, kind |-> k, answer |-> "none", running |-> FALSE, rows |-> <<>>]}
Running == phase # "idle"

-----------------------------------------------------------------------------
(* ExecuteAsync, as the page can see it.                                   *)
Acquire ==
    /\ phase = "idle" /\ Len(log) < MaxRun
    /\ phase' = "acquired" /\ UNCHANGED log

(* Nothing is runnable: the mutex is given back and no row was written.    *)
GiveUp == phase = "acquired" /\ phase' = "idle" /\ UNCHANGED log

(* The row is inserted outside the try block: a failure leaves the mutex   *)
(* taken until the process ends.                                           *)
InsertThrows == phase = "acquired" /\ phase' = "stuck" /\ UNCHANGED log

InsertStart == phase = "acquired" /\ phase' = "inserted" /\ log' = Append(log, "running")

Mark ==
    /\ phase = "inserted" /\ phase' = "marked"
    /\ log' = [log EXCEPT ![Len(log)] = "done"]

Release == phase = "marked" /\ phase' = "idle" /\ UNCHANGED log

Run ==
    /\ Acquire \/ GiveUp \/ InsertThrows \/ InsertStart \/ Mark \/ Release
    /\ UNCHANGED <<shown, banner, net, asked, losses>>

Serve(r) ==
    /\ r.answer = "none"
    /\ net' = (net \ {r}) \cup {IF r.kind = "state"
                                THEN [r EXCEPT !.answer = "ok", !.running = Running]
                                ELSE [r EXCEPT !.answer = "ok", !.rows = log]}
    /\ UNCHANGED <<server, shown, banner, asked, losses>>

Lose(r) ==
    /\ r.answer = "none"
    /\ losses < MaxLoss /\ losses' = losses + 1
    /\ net' = (net \ {r}) \cup {[r EXCEPT !.answer = "lost"]}
    /\ UNCHANGED <<server, shown, banner, asked>>

-----------------------------------------------------------------------------
(* loadList, by the buttons, the pager, or the end of a job of the dialog. *)
LoadList ==
    /\ asked < MaxList /\ asked' = asked + 1
    /\ Cardinality(net) < MaxNet
    /\ net' = Ask(net, "list")
    /\ UNCHANGED <<server, shown, banner, losses>>

ListAnswer(r) ==
    /\ r.kind = "list" /\ r.answer # "none"
    /\ net' = net \ {r}
    /\ shown' = IF r.answer = "ok" THEN r.rows ELSE shown
    /\ UNCHANGED <<server, banner, asked, losses>>

(* The interval asks whether the answer before is in or not.               *)
Tick ==
    /\ Cardinality(net) < MaxNet
    /\ net' = Ask(net, "state")
    /\ UNCHANGED <<server, shown, banner, asked, losses>>

BannerFor(r) == r.running

(* A run in flight, or one that was: the list is asked for.                *)
StateAnswer(r) ==
    /\ r.kind = "state" /\ r.answer = "ok"
    /\ banner' = BannerFor(r)
    /\ net' = IF r.running \/ banner THEN Ask(net \ {r}, "list") ELSE net \ {r}
    /\ UNCHANGED <<server, shown, asked, losses>>

StateLost(r) ==
    /\ r.kind = "state" /\ r.answer = "lost"
    /\ net' = net \ {r}
    /\ UNCHANGED <<server, shown, banner, asked, losses>>

-----------------------------------------------------------------------------
Init ==
    /\ log = <<>> /\ phase = "idle"
    /\ shown = <<>> /\ banner = FALSE
    /\ net = {[id |-> 1, kind |-> "list", answer |-> "none", running |-> FALSE, rows |-> <<>>]}
    /\ asked = 0 /\ losses = 0

Answer(r) == ListAnswer(r) \/ StateAnswer(r) \/ StateLost(r)
Next == Run \/ LoadList \/ Tick \/ \E r \in net : Serve(r) \/ Lose(r) \/ Answer(r)

Settles(n) == \E r \in net : r.id = n /\ (Serve(r) \/ Answer(r))

RunGoesOn == (InsertStart \/ Mark \/ Release) /\ UNCHANGED <<shown, banner, net, asked, losses>>

(* The interval goes on, requests settle, a run that has begun ends.       *)
Spec ==
    /\ Init /\ [][Next]_vars
    /\ WF_vars(Tick) /\ \A n \in 1 .. MaxNet : WF_vars(Settles(n))
    /\ WF_vars(RunGoesOn)

-----------------------------------------------------------------------------
(* A row is shown running only when it is or was; no request shares its    *)
(* number.                                                                 *)
TypeOK ==
    /\ \A i \in 1 .. Len(log) - 1 : log[i] = "done"
    /\ phase \in {"idle", "acquired", "stuck", "inserted", "marked"}
    /\ Len(shown) =< Len(log) /\ banner \in BOOLEAN
    /\ \A i \in DOMAIN shown : shown[i] = "done" => log[i] = "done"
    /\ \A r, q \in net : r.id = q.id => r = q

(* The banner stands only while a run does: once no more run begins it is  *)
(* taken down for good, whatever probes were lost or overtaken.            *)
Resting == phase = "idle"
BannerDown == ~banner
=============================================================================
