----------------------------- MODULE ExportsPage -----------------------------
(***************************************************************************)
(* The list of the page My Exports (exports.js): two tabs, a list that is  *)
(* loaded again every five seconds while a row of it is in flight, and     *)
(* downloads that move their row to the other tab.  The log behind it does *)
(* what ExportLife allows.                                                 *)
(***************************************************************************)
EXTENDS Integers, FiniteSets

CONSTANTS
    Export,
    Mine,    \* the exports the user asked for, the others are seen with See all
    MaxRun,
    MaxLoad, \* bound on the lists asked for and not answered yet
    MaxLost  \* bound on the answers that do not come or refuse

PageAssumption ==
    Mine \subseteq Export /\ MaxRun \in Nat /\ MaxLoad \in Nat \ {0} /\ MaxLost \in Nat

VARIABLES
    status, runs, grabbed, \* the log
    tab, seeAll, \* currentTab, seeAll
    rows,    \* currentRows: the status each listed export is shown with
    error,   \* the table says that the load failed
    timer,   \* refreshTimer is set and has not fired
    marking, \* downloads whose POST is under way
    marked,  \* downloads whose 800 ms are running
    net, lost

log == <<status, runs, grabbed>>
page == <<tab, seeAll, rows, error, timer>>
vars == <<log, page, marking, marked, net, lost>>

Life == INSTANCE ExportLife

Tabs == {"pending", "downloaded"}
Unused == CHOOSE n \in 1 .. MaxLoad : \A r \in net : r.id # n

(* QueryPagedAsync: the rows of a tab.                                     *)
InTab(e, t) ==
    IF t = "downloaded"
    THEN status[e] = "succeeded" /\ grabbed[e]
    ELSE status[e] \in {"queued", "running", "failed"} \/ (status[e] = "succeeded" /\ ~grabbed[e])

Listed(t, all) == {e \in Export : (all \/ e \in Mine) /\ InTab(e, t)}
ListOf(t, all) == {[export |-> e, status |-> status[e]] : e \in Listed(t, all)}
InFlight(list) == \E x \in list : x.status \in {"queued", "running"}

Serve(r) ==
    /\ ~r.served
    /\ net' = (net \ {r}) \cup {[r EXCEPT !.served = TRUE, !.rows = ListOf(r.tab, r.all)]}
    /\ UNCHANGED <<log, page, marking, marked, lost>>

-----------------------------------------------------------------------------
(* loadList, up to its fetch.                                              *)
LoadListWith(t, all) ==
    /\ Cardinality(net) < MaxLoad
    /\ net' = net \cup {[id |-> Unused, tab |-> t, all |-> all, served |-> FALSE, rows |-> {}]}

Refresh ==
    /\ LoadListWith(tab, seeAll)
    /\ UNCHANGED <<log, page, marking, marked, lost>>

ClickTab(t) ==
    /\ t # tab /\ tab' = t
    /\ LoadListWith(t, seeAll)
    /\ UNCHANGED <<log, seeAll, rows, error, timer, marking, marked, lost>>

ToggleSeeAll ==
    /\ seeAll' = ~seeAll
    /\ LoadListWith(tab, ~seeAll)
    /\ UNCHANGED <<log, tab, rows, error, timer, marking, marked, lost>>

TimerFires ==
    /\ timer /\ timer' = FALSE
    /\ LoadListWith(tab, seeAll)
    /\ UNCHANGED <<log, tab, seeAll, rows, error, marking, marked, lost>>

(* Whether another refresh is due after a list is shown.                   *)
RefreshDue(list) == tab = "pending" /\ InFlight(list)

(* The answer: renderRows and scheduleRefresh.                             *)
RenderRows(r) ==
    /\ r.served
    /\ net' = net \ {r}
    /\ rows' = r.rows /\ error' = FALSE
    /\ timer' = RefreshDue(r.rows)
    /\ UNCHANGED <<log, tab, seeAll, marking, marked, lost>>

(* A refused list is an error in place of the table, a lost one is logged. *)
LoadFailed(r) ==
    /\ ~r.served /\ lost < MaxLost /\ lost' = lost + 1
    /\ net' = net \ {r}
    /\ error' \in {error, TRUE}
    /\ UNCHANGED <<log, tab, seeAll, rows, timer, marking, marked>>

-----------------------------------------------------------------------------
(* A download link of the pending tab, once until it is drawn again.       *)
ClickDownload(e) ==
    /\ tab = "pending" /\ ~error /\ e \notin marking \cup marked
    /\ [export |-> e, status |-> "succeeded"] \in rows
    /\ marking' = marking \cup {e}
    /\ UNCHANGED <<log, page, marked, net, lost>>

(* MarkDownloadedAsync marks the user's own row that has succeeded; the    *)
(* answer, or its loss, starts the delay.                                  *)
MarkAnswered(e) ==
    /\ e \in marking
    /\ marking' = marking \ {e} /\ marked' = marked \cup {e}
    /\ \/ e \in Mine /\ ~grabbed[e] /\ Life!Grab(e) /\ UNCHANGED lost
       \/ (e \notin Mine \/ grabbed[e] \/ status[e] # "succeeded") /\ UNCHANGED <<log, lost>>
       \/ lost < MaxLost /\ lost' = lost + 1 /\ UNCHANGED log
    /\ UNCHANGED <<page, net>>

(* What follows the delay.  Mutant: nothing.                               *)
AfterMarkNothing == UNCHANGED net
AfterMark == LoadListWith(tab, seeAll)

DelayEnds(e) ==
    /\ e \in marked /\ marked' = marked \ {e}
    /\ AfterMark
    /\ UNCHANGED <<log, page, marking, lost>>

-----------------------------------------------------------------------------
(* The list is first loaded when the page starts.                          *)
Init ==
    /\ Life!Init
    /\ tab = "pending" /\ seeAll = FALSE /\ rows = {} /\ error = FALSE /\ timer = FALSE
    /\ marking = {} /\ marked = {} /\ lost = 0
    /\ net = {[id |-> 1, tab |-> "pending", all |-> FALSE, served |-> FALSE, rows |-> {}]}

Browser ==
    \/ \E t \in Tabs : ClickTab(t)
    \/ Refresh \/ ToggleSeeAll \/ TimerFires
    \/ \E r \in net : RenderRows(r) \/ LoadFailed(r)
    \/ \E e \in Export : ClickDownload(e) \/ MarkAnswered(e) \/ DelayEnds(e)

Working(e) == Life!Queue(e) \/ Life!Run(e) \/ Life!Finish(e)
Works(e) == Working(e) /\ UNCHANGED <<page, marking, marked, net, lost>>

Next == Browser \/ (\E r \in net : Serve(r)) \/ (\E e \in Export : Works(e))

(* Requests settle, timers fire, an export that runs ends.                 *)
Settles(n) == \E r \in net : r.id = n /\ (Serve(r) \/ RenderRows(r) \/ LoadFailed(r))
Ends(e) == Life!Finish(e) /\ UNCHANGED <<page, marking, marked, net, lost>>
Fairness ==
    /\ \A n \in 1 .. MaxLoad : WF_vars(Settles(n))
    /\ SF_vars(TimerFires)
    /\ \A e \in Export : WF_vars(MarkAnswered(e)) /\ SF_vars(DelayEnds(e)) /\ WF_vars(Ends(e))
Spec == Init /\ [][Next]_vars /\ Fairness

-----------------------------------------------------------------------------
(* A listed export is one the log has, in a status it can have.            *)
TypeOK ==
    /\ rows \subseteq [export : Export, status : {"queued", "running", "succeeded", "failed"}]
    /\ \A x, y \in rows : x.export = y.export => x = y
    /\ \A x \in rows : status[x.export] # "none"
    /\ marking \cap marked = {} /\ Cardinality(net) =< MaxLoad

(* While rows of the pending tab are in flight the page has a refresh      *)
(* coming, unless the request that was to bring it failed.                 *)
QuietWhenSettled ==
    tab = "pending" /\ InFlight(rows) => timer \/ net # {} \/ lost > 0

(* A page that does not lose requests shows an export that has ended as    *)
(* ended, or the operator has gone to the other tab.                       *)
ShownInFlight(e) == tab = "pending" /\ \E x \in rows : x.export = e /\ x.status \in {"queued", "running"}
EndedUnseen(e) == ShownInFlight(e) /\ status[e] \in {"succeeded", "failed"}
Caught(e) == lost > 0 \/ ~ShownInFlight(e) \/ status[e] = "running"

(* A row the operator has downloaded leaves the pending tab.               *)
ShownDownloadable(e) == tab = "pending" /\ [export |-> e, status |-> "succeeded"] \in rows
GrabbedHere(e) == e \in marked /\ grabbed[e]
Drifted(e) == lost > 0 \/ ~ShownDownloadable(e)
=============================================================================
