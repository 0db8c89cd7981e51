------------------------------- MODULE PoPage -------------------------------
(***************************************************************************)
(* One purchase order at a time on the page of purchase orders (pos.js):   *)
(* opening it from the list, its form, the dialogs over it, and the calls  *)
(* they make, each of which reads or sets currentDetail after it was       *)
(* answered.  Calls are answered in any order; somebody else closes too.   *)
(***************************************************************************)
EXTENDS Integers, FiniteSets

CONSTANTS
    PO, None,
    Saving,  \* whether headers and ERP fields are saved at all
    Patient, \* whether the user waits for the answers
    MaxCall, \* bound on the calls under way
    MaxLost  \* bound on the calls lost

PoPageAssumption ==
    /\ None \notin PO /\ Saving \in BOOLEAN /\ Patient \in BOOLEAN
    /\ MaxCall \in Nat \ {0} /\ MaxLost \in Nat

VARIABLES
    exists, closed, lined, \* the server: its orders, those closed, those with a line
    head,   \* the order in whose form the header of each was typed
    view,   \* "list" or "detail"
    form,   \* the order the fields of view-detail show, and whether it was closed
    table,  \* the order whose lines are shown
    detail, \* currentDetail
    saveOn, \* btn-save-header is enabled
    modal,  \* the dialog shown, and the order or line it is about
    busy,   \* the dialogs whose button is disabled
    toast,  \* the last word on a deletion, and whether the server refused
    net, lost

server == <<exists, closed, lined, head>>
page == <<view, form, table, detail, saveOn>>
vars == <<server, page, modal, busy, toast, net, lost>>

NoPo == [po |-> None, closed |-> FALSE, line |-> FALSE]
NoModal == [kind |-> "none", about |-> None]
NoToast == [said |-> "none", refused |-> FALSE]
Ids == {r.id : r \in net}
Unused == CHOOSE n \in 1 .. MaxCall : n \notin Ids

(* A call: kind, currentDetail.id when it was made, the line or the form   *)
(* it carries, and the dialog that waits for it.                           *)
Call(id, kind, p, of, waits) ==
    [id |-> id, kind |-> kind, po |-> p, of |-> of, waits |-> waits, at |-> "sent", got |-> NoPo]
May == Cardinality(net) < MaxCall /\ (Patient => net = {})
Free == modal = NoModal

-----------------------------------------------------------------------------
(* openDetail, up to its fetch: a row of the list, and Refresh.            *)
ClickRow(p) ==
    /\ view = "list" /\ p \in exists /\ Free /\ May
    /\ net' = net \cup {Call(Unused, "get", p, None, "none")}
    /\ UNCHANGED <<server, page, modal, busy, toast, lost>>

Refresh ==
    /\ detail # NoPo /\ Free /\ May
    /\ net' = net \cup {Call(Unused, "get", detail.po, None, "none")}
    /\ UNCHANGED <<server, page, modal, busy, toast, lost>>

BackToList ==
    /\ view = "detail" /\ Free /\ (Patient => net = {})
    /\ detail' = NoPo /\ view' = "list"
    /\ UNCHANGED <<server, form, table, saveOn, modal, busy, toast, net, lost>>

(* saveHeader: the fields of the form, to currentDetail.                    *)
SaveHeader ==
    /\ Saving /\ view = "detail" /\ saveOn /\ detail # NoPo /\ Free /\ May
    /\ saveOn' = FALSE
    /\ net' = net \cup {Call(Unused, "save", detail.po, form.po, "none")}
    /\ UNCHANGED <<server, view, form, table, detail, modal, busy, toast, lost>>

(* The dialogs: New PO, Add line and Close of an order that was open, and  *)
(* the pencil of a line that currentDetail has.                            *)
Open(kind, about) ==
    /\ Free /\ (Patient => net = {})
    /\ modal' = [kind |-> kind, about |-> about]
    /\ UNCHANGED <<server, page, busy, toast, net, lost>>

OpenNewPoModal == Open("new", None)
OpenAddLineModal == view = "detail" /\ detail # NoPo /\ ~form.closed /\ Open("line", detail.po)
OpenCloseModal == view = "detail" /\ detail # NoPo /\ ~form.closed /\ Open("close", detail.po)
OpenEditLineModal ==
    /\ Saving /\ view = "detail" /\ detail.line /\ ~detail.closed
    /\ table = detail.po /\ Open("erp", table)

Dismiss ==
    /\ modal # NoModal /\ modal' = NoModal
    /\ UNCHANGED <<server, page, busy, toast, net, lost>>

(* The button of a dialog, up to the fetch.                                *)
Confirm(kind) ==
    /\ modal.kind = kind /\ kind \notin busy /\ May
    /\ busy' = busy \cup {kind}
    /\ net' = net \cup {Call(Unused, kind, detail.po, modal.about, kind)}
    /\ UNCHANGED <<server, page, modal, toast, lost>>

SaveNewPo == Confirm("new")
SaveAddLine == detail # NoPo /\ Confirm("line")
ConfirmClose == detail # NoPo /\ Confirm("close")
SaveLineExtendedFields == detail # NoPo /\ Confirm("erp")

(* deleteLine: the line is that of the row clicked, the order the one that *)
(* is open when the dialog is answered.                                    *)
OpenDeleteDialog ==
    /\ view = "detail" /\ detail.line /\ ~detail.closed /\ table # None
    /\ Open("delete", table)

DeleteLine ==
    /\ modal.kind = "delete" /\ detail # NoPo /\ May
    /\ modal' = NoModal
    /\ net' = net \cup {Call(Unused, "delete", detail.po, modal.about, "none")}
    /\ UNCHANGED <<server, page, busy, toast, lost>>

-----------------------------------------------------------------------------
(* The server.  A line belongs to its order; nothing but the deletion of a *)
(* line is done to a closed order, and a line with receipts is not deleted.*)
Reply(r, at, got) == net' = (net \ {r}) \cup {[r EXCEPT !.at = at, !.got = got]}

Refuses(r) ==
    \/ r.kind \in {"save", "line", "close", "erp"} /\ r.po \in closed
    \/ r.kind \in {"erp", "delete"} /\ (r.of # r.po \/ r.po \notin lined)
    \/ r.kind = "new" /\ exists = PO
MayRefuse(r) == Refuses(r) \/ r.kind = "delete"

Serve(r) ==
    /\ r.at = "sent"
    /\ UNCHANGED <<page, modal, busy, toast, lost>>
    /\ \/ MayRefuse(r) /\ Reply(r, "refused", NoPo) /\ UNCHANGED server
       \/ /\ ~Refuses(r)
          /\ IF r.kind = "new"
             THEN \E p \in PO \ exists :
                    /\ exists' = exists \cup {p}
                    /\ Reply(r, "done", [NoPo EXCEPT !.po = p])
                    /\ UNCHANGED <<closed, lined, head>>
             ELSE /\ head' = IF r.kind = "save" THEN [head EXCEPT ![r.po] = r.of] ELSE head
                  /\ lined' = CASE r.kind = "line" -> lined \cup {r.po}
                                [] r.kind = "delete" -> lined \ {r.po}
                                [] OTHER -> lined
                  /\ closed' = IF r.kind = "close" THEN closed \cup {r.po} ELSE closed
                  /\ Reply(r, "done", [po |-> r.po, closed |-> r.po \in closed', line |-> r.po \in lined'])
                  /\ UNCHANGED exists

SomebodyCloses(p) ==
    /\ p \in exists \ closed /\ closed' = closed \cup {p}
    /\ UNCHANGED <<exists, lined, head, page, modal, busy, toast, net, lost>>

-----------------------------------------------------------------------------
(* openDetail, answered.                                                   *)
Filled(got) == got

(* The buttons of an order that is not open are disabled.                  *)
Writable(got) == ~got.closed

ShowDetail(got) ==
    /\ detail' = got /\ view' = "detail" /\ form' = Filled(got) /\ table' = got.po
    /\ saveOn' = Writable(got)

(* The finally of a dialog whose order was fetched again.                  *)
Afterwards(r) == busy \ {r.waits}

Opened(r) ==
    /\ r.kind = "get" /\ r.at # "sent"
    /\ net' = net \ {r} /\ busy' = Afterwards(r)
    /\ ShowDetail(r.got)
    /\ UNCHANGED <<server, modal, toast, lost>>

Saved(r) ==
    /\ r.kind = "save" /\ r.at # "sent"
    /\ net' = net \ {r} /\ saveOn' = TRUE
    /\ IF r.at = "done" THEN detail' = r.got /\ table' = r.got.po ELSE UNCHANGED <<detail, table>>
    /\ UNCHANGED <<server, view, form, modal, busy, toast, lost>>

(* New, Add line and Close, answered: hide the dialog and open the order.  *)
(* If the user has left it, reading the id of none fails.                  *)
Finished(r, opens) ==
    /\ r.at # "sent"
    /\ modal' = IF r.at = "done" /\ modal.kind = r.kind THEN NoModal ELSE modal
    /\ IF r.at = "done" /\ opens # None
       THEN net' = (net \ {r}) \cup {Call(r.id, "get", opens, None, r.waits)} /\ UNCHANGED busy
       ELSE net' = net \ {r} /\ busy' = Afterwards(r)
    /\ UNCHANGED <<server, page, toast, lost>>

PoCreated(r) == r.kind = "new" /\ Finished(r, r.got.po)
LineAdded(r) == r.kind = "line" /\ Finished(r, detail.po)
PoClosed(r) == r.kind = "close" /\ Finished(r, detail.po)

Deleted(r) ==
    /\ r.kind = "delete" /\ r.at # "sent"
    /\ LET opens == r.at = "done" /\ detail # NoPo IN
       /\ toast' = [said |-> IF opens THEN "Line deleted" ELSE "Delete refused", refused |-> r.at = "refused"]
       /\ net' = (net \ {r}) \cup
            (IF opens THEN {Call(r.id, "get", detail.po, None, "none")} ELSE {})
    /\ UNCHANGED <<server, page, modal, busy, lost>>

(* saveLineExtendedFields: renderDetail, which nothing defines, throws     *)
(* before the dialog is hidden.                                            *)
ErpSaved(r) ==
    /\ r.kind = "erp" /\ r.at # "sent"
    /\ net' = net \ {r} /\ busy' = Afterwards(r)
    /\ detail' = IF r.at = "done" THEN r.got ELSE detail
    /\ UNCHANGED <<server, view, form, table, saveOn, modal, toast, lost>>

Lost(r) ==
    /\ lost < MaxLost /\ lost' = lost + 1
    /\ net' = net \ {r} /\ busy' = Afterwards(r)
    /\ saveOn' = (saveOn \/ r.kind = "save")
    /\ UNCHANGED <<server, view, form, table, detail, modal, toast>>

Answer(r) ==
    \/ Opened(r) \/ Saved(r) \/ Deleted(r) \/ ErpSaved(r)
    \/ PoCreated(r) \/ LineAdded(r) \/ PoClosed(r)

-----------------------------------------------------------------------------
Init ==
    /\ exists \in SUBSET PO /\ exists # {} /\ closed = {} /\ lined \in SUBSET exists
    /\ head = [p \in PO |-> p]
    /\ view = "list" /\ form = NoPo /\ table = None /\ detail = NoPo /\ saveOn = TRUE
    /\ modal = NoModal /\ busy = {} /\ toast = NoToast /\ net = {} /\ lost = 0

Next ==
    \/ \E p \in PO : ClickRow(p) \/ SomebodyCloses(p)
    \/ Refresh \/ BackToList \/ SaveHeader \/ DeleteLine
    \/ OpenNewPoModal \/ OpenAddLineModal \/ OpenCloseModal \/ OpenEditLineModal
    \/ OpenDeleteDialog \/ Dismiss
    \/ SaveNewPo \/ SaveAddLine \/ ConfirmClose \/ SaveLineExtendedFields
    \/ \E r \in net : Serve(r) \/ Answer(r) \/ Lost(r)

Settles(n) == \E r \in net : r.id = n /\ (Serve(r) \/ Answer(r))
Spec == Init /\ [][Next]_vars /\ \A n \in 1 .. MaxCall : WF_vars(Settles(n))

-----------------------------------------------------------------------------
(* Each dialog waits for a call of its own, and is disabled meanwhile.     *)
TypeOK ==
    /\ exists \subseteq PO /\ closed \subseteq exists /\ lined \subseteq exists
    /\ detail.po \in exists \cup {None} /\ form.po \in exists \cup {None}
    /\ busy = {r.waits : r \in net} \ {"none"}

(* currentDetail is the order the form shows, and none in the list.        *)
FormIsDetail == detail.po = IF view = "detail" THEN form.po ELSE None

(* What is typed in the form of one order is saved in no other.            *)
HeadIsItsOwn == \A p \in PO : head[p] = p

(* The button of a dialog comes back after every outcome.                  *)
Held(kind) == kind \in busy

(* Where no header is saved, that of an order shown closed is not edited.  *)
ClosedIsDisabled == ~Saving /\ view = "detail" /\ form.closed => ~saveOn

(* A line called deleted is not one the server refused to delete.          *)
DeletedIsDeleted == toast.said = "Line deleted" => ~toast.refused

(* The four as every step keeps them: where headers are saved a user who   *)
(* waits has one call under way, of the order that is open; elsewhere no   *)
(* call sets currentDetail but the one that opens an order.                *)
ShowsInv ==
    /\ view \in {"list", "detail"} /\ (view = "list" => detail = NoPo)
    /\ \A r \in net : {"kind", "po", "of", "at", "got"} \subseteq DOMAIN r
    /\ ~Saving => modal.kind # "erp" /\ \A r \in net : r.kind \notin {"save", "erp"}
    /\ Patient => \A r, q \in net : r = q
    /\ \A r \in net : r.kind \in {"save", "erp"} =>
        /\ Patient => view = "detail" /\ detail.po = r.po
        /\ r.kind = "save" /\ Patient => r.of = r.po
        /\ r.at = "done" => r.got.po = r.po
    /\ DOMAIN head = PO
    /\ Patient \/ ~Saving => FormIsDetail /\ HeadIsItsOwn
    /\ ClosedIsDisabled /\ DeletedIsDeleted
=============================================================================
