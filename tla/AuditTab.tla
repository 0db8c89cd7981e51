------------------------------ MODULE AuditTab ------------------------------
(***************************************************************************)
(* The audit log of the masters page (masters.js): the newest rows that    *)
(* the server finds for the search and the action, filtered once more on   *)
(* the page as they are drawn, and the export of what the controls say.    *)
(* The page filters by other columns than the server; both see one text.   *)
(***************************************************************************)
EXTENDS Integers, FiniteSets, Sequences

CONSTANTS
    Row,     \* 1 .. n, a newer one is larger
    Written, \* those that are there when the page is loaded, the oldest
    Action,
    Kind,    \* the action of each row
    Finds, Holds, \* the rows the search finds on the server, and on the page
    Recent,  \* the rows of the days that may be chosen
    Take,    \* what a request takes
    InOrder, \* whether requests are served and answered in order
    MaxLoad, MaxLost, \* bounds: requests under way, requests lost
    All

AuditAssumption ==
    /\ Row \subseteq Nat /\ Written \subseteq Row /\ Kind \in [Row -> Action]
    /\ Finds \subseteq Row /\ Holds \subseteq Row /\ Recent \subseteq Row
    /\ All \notin Action /\ InOrder \in BOOLEAN
    /\ Take \in Nat \ {0} /\ {MaxLoad, MaxLost} \subseteq Nat

VARIABLES
    log,     \* the server
    search, action, recent, \* the controls: a text is there, the action, the days
    tab,     \* activeTab is audit
    debounce, \* _auditDebounce
    rows,    \* auditLog
    shown,   \* the rows drawn
    writing, \* the request of a handler of another tab
    net,     \* requests under way, in the order they were sent
    lost

controls == <<search, action, recent>>
vars == <<log, controls, tab, debounce, rows, shown, writing, net, lost>>

Newest(set, n) == {x \in set : Cardinality({y \in set : y > x}) < n}
OfAction(x, a) == a = All \/ Kind[x] = a

(* AuditRepository: QueryAsync, and what exportAuditLog would have         *)
(* QueryForExportAsync give for the controls as they are.                  *)
Query(l, f) == Newest({x \in l : (f.search => x \in Finds) /\ OfAction(x, f.action)}, Take)
QueryForExport ==
    {x \in log : (search => x \in Finds) /\ OfAction(x, action) /\ (recent => x \in Recent)}

(* filteredAudit.                                                          *)
Filtered(set, s, days) ==
    {x \in set : (s => x \in Holds) /\ OfAction(x, action) /\ (days => x \in Recent)}

-----------------------------------------------------------------------------
Without(i) == SubSeq(net, 1, i - 1) \o SubSeq(net, i + 1, Len(net))

(* syncAudit, up to its fetch: the controls as they are now.               *)
SyncAudit(s, a) ==
    /\ Len(net) < MaxLoad
    /\ net' = Append(net, [filter |-> [search |-> s, action |-> a], served |-> FALSE, data |-> {}])

Serve(i) ==
    /\ ~net[i].served /\ (InOrder => \A j \in 1 .. i - 1 : net[j].served)
    /\ net' = [net EXCEPT ![i].served = TRUE, ![i].data = Query(log, net[i].filter)]
    /\ UNCHANGED <<log, controls, tab, debounce, rows, shown, writing, lost>>

(* syncAudit().then(renderAudit); a failure leaves all as it was.          *)
Answer(i) ==
    /\ net[i].served /\ (InOrder => i = 1)
    /\ net' = Without(i)
    /\ rows' = net[i].data /\ shown' = Filtered(rows', search, recent)
    /\ UNCHANGED <<log, controls, tab, debounce, writing, lost>>

Lose(i) ==
    /\ lost < MaxLost /\ lost' = lost + 1
    /\ net' = Without(i)
    /\ UNCHANGED <<log, controls, tab, debounce, rows, shown, writing>>

-----------------------------------------------------------------------------
OpenTab ==
    /\ tab' = TRUE /\ SyncAudit(search, action)
    /\ UNCHANGED <<log, controls, debounce, rows, shown, writing, lost>>

OtherTab ==
    /\ tab /\ tab' = FALSE
    /\ UNCHANGED <<log, controls, debounce, rows, shown, writing, net, lost>>

(* The text filters at once what is there, and asks when typing stops.     *)
TypeSearch ==
    /\ tab
    /\ search' = ~search /\ debounce' = TRUE
    /\ shown' = Filtered(rows, ~search, recent)
    /\ UNCHANGED <<log, action, recent, tab, rows, writing, net, lost>>

DebounceEnds ==
    /\ debounce /\ debounce' = FALSE
    /\ SyncAudit(search, action)
    /\ UNCHANGED <<log, controls, tab, rows, shown, writing, lost>>

ChooseAction(a) ==
    /\ tab /\ action' = a
    /\ SyncAudit(search, a)
    /\ UNCHANGED <<log, search, recent, tab, debounce, rows, shown, writing, lost>>

ChooseDate ==
    /\ tab /\ recent' = ~recent
    /\ shown' = Filtered(rows, search, ~recent)
    /\ UNCHANGED <<log, search, action, tab, debounce, rows, writing, net, lost>>

(* A handler of another tab sends a request, which writes a row unless it  *)
(* is refused or the write fails (AuditService goes on without it), and    *)
(* when it ends well looks at the tab there is then.                       *)
OtherBegins ==
    /\ ~tab /\ writing = "no" /\ Row \ log # {}
    /\ writing' = "sent"
    /\ UNCHANGED <<log, controls, tab, debounce, rows, shown, net, lost>>

OtherServed ==
    /\ writing = "sent" /\ writing' = "served"
    /\ log' \in {log, log \cup {CHOOSE x \in Row \ log : \A y \in Row \ log : x =< y}}
    /\ UNCHANGED <<controls, tab, debounce, rows, shown, net, lost>>

OtherFails ==
    /\ \/ writing = "sent" /\ UNCHANGED lost
       \/ writing = "served" /\ lost < MaxLost /\ lost' = lost + 1
    /\ writing' = "no"
    /\ UNCHANGED <<log, controls, tab, debounce, rows, shown, net>>

OtherEnds ==
    /\ writing = "served" /\ writing' = "no"
    /\ IF tab THEN SyncAudit(search, action) ELSE UNCHANGED net
    /\ UNCHANGED <<log, controls, tab, debounce, rows, shown, lost>>

-----------------------------------------------------------------------------
Init ==
    /\ log = Written
    /\ search = FALSE /\ action = All /\ recent = FALSE
    /\ tab = FALSE /\ debounce = FALSE
    /\ rows = {} /\ shown = {}
    /\ writing = "no" /\ net = <<>> /\ lost = 0

Next ==
    \/ \E i \in DOMAIN net : Serve(i) \/ Answer(i) \/ Lose(i)
    \/ OpenTab \/ OtherTab \/ TypeSearch \/ DebounceEnds \/ ChooseDate
    \/ \E a \in Action \cup {All} : ChooseAction(a)
    \/ OtherBegins \/ OtherServed \/ OtherFails \/ OtherEnds

Spec == Init /\ [][Next]_vars

-----------------------------------------------------------------------------
(* Rows drawn have come from the server, and no more than it gives.        *)
TypeOK ==
    /\ rows \subseteq log /\ shown \subseteq rows /\ Cardinality(rows) =< Take
    /\ \A i \in DOMAIN net : net[i].data \subseteq log

(* Every row drawn holds the text that is typed and is of the days chosen, *)
(* whichever answer came last and before any answer.                       *)
ShownHolds == shown \subseteq {x \in Row : (search => x \in Holds) /\ (recent => x \in Recent)}

(* The same as every step keeps it: what is under way holds rows, and      *)
(* there is a row left to be written.                                      *)
HoldsInv ==
    /\ log \subseteq Row /\ rows \subseteq Row
    /\ search \in BOOLEAN /\ action \in Action \cup {All}
    /\ net \in Seq([filter : [search : BOOLEAN, action : Action \cup {All}], served : BOOLEAN,
                    data : SUBSET Row])
    /\ writing = "sent" => Row \ log # {}
    /\ ShownHolds

(* At rest, when nothing overtook, the newest rows for the controls are    *)
(* drawn, rows written from the other tabs meanwhile included, and an      *)
(* export has all of them.                                                 *)
Rest == tab /\ net = <<>> /\ ~debounce /\ writing = "no" /\ lost = 0 /\ InOrder
ListIsComplete ==
    Rest => /\ shown = Filtered(Query(log, [search |-> search, action |-> action]), search, recent)
            /\ shown \subseteq QueryForExport
=============================================================================
