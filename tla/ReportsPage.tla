----------------------------- MODULE ReportsPage -----------------------------
(***************************************************************************)
(* The preview pane of the reports page (reports.js): a click on a closed  *)
(* pull or on a report type fetches its documents, which are then printed  *)
(* from the page or exported by the server.                                *)
(***************************************************************************)
EXTENDS Integers, FiniteSets

CONSTANTS
    Pull,
    MaxLoad, \* bound on previews asked for
    Lossy,
    None

ReportsAssumption == None \notin Pull /\ MaxLoad \in Nat /\ Lossy \in BOOLEAN

Type == {"note", "order"}
Document(p, t) == [kind |-> "document", of |-> p, type |-> t]
Message(k) == [kind |-> k, of |-> None, type |-> "note"]

VARIABLES
    selected, \* selectedPullId and its number
    type,     \* reportType
    title,    \* the pull the title names, and what it says of it
    body,     \* the document previewed, or a message
    enabled,  \* Export PDF and Print
    net, loads

vars == <<selected, type, title, body, enabled, net, loads>>

Unused == CHOOSE n \in 1 .. MaxLoad : \A r \in net : r.id # n

Serve(r) ==
    /\ r.answer = "none"
    /\ \E a \in {"ok", "refused"} \cup (IF Lossy THEN {"lost"} ELSE {}) :
           net' = (net \ {r}) \cup {[r EXCEPT !.answer = a]}
    /\ UNCHANGED <<selected, type, title, body, enabled, loads>>

-----------------------------------------------------------------------------
(* loadPreview, up to its fetch, for a pull and a type just chosen.        *)
LoadPreview(p, t) ==
    /\ loads < MaxLoad /\ loads' = loads + 1
    /\ title' = [of |-> p, says |-> "loading"]
    /\ body' = Message("loading") /\ enabled' = FALSE
    /\ net' = net \cup {[id |-> Unused, of |-> p, type |-> t, answer |-> "none"]}

ClickRow(p) ==
    /\ selected' = p
    /\ LoadPreview(p, type)
    /\ UNCHANGED type

ClickType(t) ==
    /\ t # type /\ type' = t
    /\ IF selected = None
       THEN UNCHANGED <<title, body, enabled, net, loads>>
       ELSE LoadPreview(selected, t)
    /\ UNCHANGED selected

(* The answer is put under the number selected now.                        *)
Named(r) == selected

PreviewAnswer(r) ==
    /\ r.answer = "ok"
    /\ net' = net \ {r}
    /\ body' = Document(r.of, r.type)
    /\ title' = [of |-> Named(r), says |-> type]
    /\ enabled' = TRUE
    /\ UNCHANGED <<selected, type, loads>>

ErrorOf(r) == Message("error")

PreviewError(r) ==
    /\ r.answer \in {"refused", "lost"}
    /\ net' = net \ {r}
    /\ body' = ErrorOf(r)
    /\ title' = [of |-> Named(r), says |-> "error"]
    /\ UNCHANGED <<selected, type, enabled, loads>>

-----------------------------------------------------------------------------
Init ==
    /\ selected = None /\ type = "note"
    /\ title = [of |-> None, says |-> "empty"] /\ body = Message("empty")
    /\ enabled = FALSE
    /\ net = {} /\ loads = 0

Answer(r) == PreviewAnswer(r) \/ PreviewError(r)
Next ==
    \/ \E p \in Pull : ClickRow(p)
    \/ \E t \in Type : ClickType(t)
    \/ \E r \in net : Serve(r) \/ Answer(r)

Settles(n) == \E r \in net : r.id = n /\ (Serve(r) \/ Answer(r))
Spec == Init /\ [][Next]_vars /\ \A n \in 1 .. MaxLoad : WF_vars(Settles(n))

-----------------------------------------------------------------------------
(* The body is a message or the document of a pull of the list.            *)
TypeOK ==
    /\ selected \in Pull \cup {None} /\ type \in Type
    /\ title.of \in Pull \cup {None} /\ title.says \in {"empty", "loading", "error"} \cup Type
    /\ enabled \in BOOLEAN
    /\ body.kind = "loading" => net # {}

(* The title names the selected pull, in whatever order previews are       *)
(* asked for and answered: it is what Export PDF exports.                  *)
TitleNamesSelected == title.of = selected

(* What is loading comes to be shown, or an error.                         *)
Loading == body.kind = "loading"
=============================================================================
