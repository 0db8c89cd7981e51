--------------------------- MODULE ExportCounters ---------------------------
(***************************************************************************)
(* The numbers of the exports a page shows: the badge of unread exports in *)
(* the navigation bar (components/exports-badge.js) and the pills on the   *)
(* tabs of My Exports (exports.js).  Each is asked for every ten seconds   *)
(* and now and then in between; the page My Exports, when it opens, marks  *)
(* everything read and asks for the badge at once.                         *)
(***************************************************************************)
EXTENDS Integers, FiniteSets

CONSTANTS
    MaxAsk,    \* bound on the requests under way, of each number
    MaxChange, \* bound on the exports that end
    MaxLost    \* bound on the requests lost or refused

CountersAssumption == MaxAsk \in Nat \ {0} /\ MaxChange \in Nat /\ MaxLost \in Nat

Number == {"unread", "pending"}

VARIABLES
    value,   \* what the server would answer now
    shown,   \* what the page shows; nothing when zero
    bump,    \* the badge pulses
    visit,   \* how far the start of My Exports has come
    polling, \* the interval of each number runs
    net, changes, lost

vars == <<value, shown, bump, visit, polling, net, changes, lost>>

Asked(k) == {r \in net : r.of = k}
Unused == CHOOSE n \in 1 .. 2 * MaxAsk : \A r \in net : r.id # n
Ask(k) ==
    /\ Cardinality(Asked(k)) < MaxAsk
    /\ net' = net \cup {[id |-> Unused, of |-> k, count |-> -1]}

(* An export ends: one more can be downloaded and is not read yet.         *)
ExportEnds ==
    /\ changes < MaxChange /\ changes' = changes + 1
    /\ value' = [k \in Number |-> value[k] + 1]
    /\ UNCHANGED <<shown, bump, visit, polling, net, lost>>

Serve(r) ==
    /\ r.count = -1
    /\ net' = (net \ {r}) \cup {[r EXCEPT !.count = value[r.of]]}
    /\ UNCHANGED <<value, shown, bump, visit, polling, changes, lost>>

-----------------------------------------------------------------------------
(* start: at once and at the interval; the pills only once the page is     *)
(* ready.                                                                  *)
Start ==
    /\ ~polling["unread"] /\ polling' = [polling EXCEPT !["unread"] = TRUE]
    /\ Ask("unread")
    /\ UNCHANGED <<value, shown, bump, visit, changes, lost>>

Poll(k) ==
    /\ polling[k] /\ Ask(k)
    /\ UNCHANGED <<value, shown, bump, visit, polling, changes, lost>>

ShowCount(old, n) == n

(* updateBadge and refreshTabCounts, the answer.                           *)
Update(r) ==
    /\ r.count >= 0
    /\ net' = net \ {r}
    /\ shown' = [shown EXCEPT ![r.of] = ShowCount(@, r.count)]
    /\ bump' = (r.of = "unread" /\ r.count > shown["unread"])
    /\ UNCHANGED <<value, visit, polling, changes, lost>>

(* Silent.                                                                 *)
AskFails(r) ==
    /\ r.count = -1 /\ lost < MaxLost /\ lost' = lost + 1
    /\ net' = net \ {r}
    /\ UNCHANGED <<value, shown, bump, visit, polling, changes>>

-----------------------------------------------------------------------------
(* The start of My Exports, after its list: the pills, then everything is  *)
(* marked read, then the badge.                                            *)
AskPills ==
    /\ visit = "listed" /\ visit' = "counting"
    /\ Ask("pending")
    /\ UNCHANGED <<value, shown, bump, polling, changes, lost>>

Counted ==
    /\ visit = "counting" /\ Asked("pending") = {}
    /\ visit' = "marking"
    /\ UNCHANGED <<value, shown, bump, polling, net, changes, lost>>

(* markAllReadOnVisit and what follows it.                                 *)
MarkAllRead ==
    /\ visit = "marking" /\ visit' = "marked"
    /\ value' = [value EXCEPT !["unread"] = 0]
    /\ Ask("unread")
    /\ polling' = [polling EXCEPT !["pending"] = TRUE]
    /\ UNCHANGED <<shown, bump, changes, lost>>

MarkFails ==
    /\ visit = "marking" /\ lost < MaxLost /\ lost' = lost + 1
    /\ visit' = "marked"
    /\ polling' = [polling EXCEPT !["pending"] = TRUE]
    /\ UNCHANGED <<value, shown, bump, net, changes>>

-----------------------------------------------------------------------------
(* A page opens while exports may be unread.                               *)
Init ==
    /\ value \in [Number -> 0 .. 1] /\ value["unread"] =< value["pending"]
    /\ shown = [k \in Number |-> 0] /\ bump = FALSE
    /\ visit = "listed" /\ polling = [k \in Number |-> FALSE]
    /\ net = {} /\ changes = 0 /\ lost = 0

Next ==
    \/ ExportEnds \/ Start \/ AskPills \/ Counted \/ MarkAllRead \/ MarkFails
    \/ \E k \in Number : Poll(k)
    \/ \E r \in net : Serve(r) \/ Update(r) \/ AskFails(r)

Settles(n) == \E r \in net : r.id = n /\ (Serve(r) \/ Update(r) \/ AskFails(r))
Fairness ==
    /\ \A n \in 1 .. 2 * MaxAsk : WF_vars(Settles(n))
    /\ \A k \in Number : SF_vars(Poll(k))
    /\ WF_vars(Start) /\ WF_vars(AskPills) /\ WF_vars(Counted) /\ SF_vars(MarkAllRead)
Spec == Init /\ [][Next]_vars /\ Fairness

-----------------------------------------------------------------------------
(* What is shown was so once.                                              *)
TypeOK ==
    /\ value \in [Number -> 0 .. MaxChange + 1] /\ shown \in [Number -> 0 .. MaxChange + 1]
    /\ \A r \in net : r.count \in -1 .. MaxChange + 1
    /\ value["unread"] =< value["pending"]

(* Whatever is lost and in whatever order answers come: once no export     *)
(* ends any more, the numbers shown become the ones the server has and     *)
(* stay so.                                                                *)
InStep == \A k \in Number : shown[k] = value[k]

=============================================================================
