----------------------------- MODULE PullDrawer -----------------------------
(***************************************************************************)
(* The pull drawer of the dashboard (dashboard.js) and the item            *)
(* administration in it: the header with its totals, the items table, the  *)
(* add, edit, ERP fields and windows modals, the delete confirmation.      *)
(*                                                                         *)
(* The handlers read the variables selectedPullId, drawerPullIdForItems,   *)
(* drawerItems and editingItemId before and after their requests, and an   *)
(* answer writes them whatever the operator has opened meanwhile.          *)
(***************************************************************************)
EXTENDS Integers, FiniteSets, Functions

CONSTANTS
    Pull, Item, Hour,
    Owner,    \* [Item -> Pull], the pull an item belongs to or would be added to
    Initial,  \* the items of the server at the start
    Received, \* the windows that have receipts
    Linking,  \* the pulls with LockPoByPull: the drawer counts their POs
    Qty,      \* the quantities typed
    Lossy,    \* requests and answers may get lost
    MaxSend,  \* bound on requests that change something
    MaxLook,  \* bound on drawers and modals opened
    NoPull, NoItem

DrawerAssumption ==
    /\ Owner \in [Item -> Pull]
    /\ Initial \subseteq Item /\ Received \subseteq Item \X Hour
    /\ Linking \subseteq Pull /\ Qty \subseteq Nat \ {0} /\ Hour # {}
    /\ Lossy \in BOOLEAN /\ {MaxSend, MaxLook} \subseteq Nat
    /\ NoPull \notin Pull /\ NoItem \notin Item

VARIABLES
    server,   \* the items of the server, their windows and quantities
    pulls,    \* the totals in pulls, the list of the board
    selected, \* selectedPullId: the drawer is open on it
    drawn,    \* what the sections of the drawer show
    items,    \* drawerItems, as the table shows them
    itemsFor, \* drawerPullIdForItems
    editing,  \* editingItemId
    modal,    \* the modal on top
    busy,     \* the disabled save buttons
    net,      \* requests not answered yet
    sends, looks,
    held      \* the totals each pull has had on the server

copies == <<pulls, drawn, items, itemsFor>>
vars == <<server, copies, selected, editing, modal, busy, net, sends, looks, held>>

-----------------------------------------------------------------------------
(* A plan gives each of its items the quantity of each of its windows; 0   *)
(* is an hour without a window.                                            *)

NoPlan == [h \in Hour |-> 0]
Empty == [i \in {} |-> NoPlan]
QtyOf(plan, i) == SumFunction([h \in Hour |-> plan[i][h]])
Total(plan) == SumFunction([i \in DOMAIN plan |-> QtyOf(plan, i)])

(* GET /api/pulls/{id}/items, and the summary of the pull.                 *)
ItemsOf(p) == [i \in {j \in DOMAIN server : Owner[j] = p} |-> server[i]]

Saves == {"add", "edit", "ext"}
Changes == Saves \cup {"delete", "window"}

Unused == CHOOSE n \in 1 .. Cardinality(net) + 1 : \A r \in net : r.id # n

Request(k, p, i, t) ==
    [id |-> Unused, kind |-> k, pull |-> p, item |-> i, plan |-> NoPlan, added |-> FALSE,
     then |-> t, state |-> "sent", rows |-> Empty]

-----------------------------------------------------------------------------
(* The server and the network.                                             *)

(* The item is looked up under the pull of the URL.                        *)
Accepts(r) ==
    CASE r.kind = "add" -> r.item \notin DOMAIN server /\ Owner[r.item] = r.pull
      [] r.kind \in {"edit", "ext"} -> r.item \in DOMAIN ItemsOf(r.pull)
      [] r.kind = "delete" ->
            r.item \in DOMAIN ItemsOf(r.pull) /\ \A h \in Hour : <<r.item, h>> \notin Received
      [] r.kind = "window" ->
            /\ r.item \in DOMAIN ItemsOf(r.pull)
            /\ \A h \in DOMAIN r.plan :
                /\ r.added <=> server[r.item][h] = 0
                /\ r.plan[h] = 0 => <<r.item, h>> \notin Received
      [] OTHER -> TRUE

After(r) ==
    CASE r.kind = "add" ->
            [i \in DOMAIN server \cup {r.item} |-> IF i = r.item THEN r.plan ELSE server[i]]
      [] r.kind = "window" ->
            [server EXCEPT ![r.item] = [h \in Hour |-> IF h \in DOMAIN r.plan THEN r.plan[h] ELSE @[h]]]
      [] r.kind = "delete" -> [i \in DOMAIN server \ {r.item} |-> server[i]]
      [] OTHER -> server

Serve(r) ==
    /\ r.state = "sent"
    /\ server' = IF Accepts(r) THEN After(r) ELSE server
    /\ net' = (net \ {r}) \cup
        {[r EXCEPT !.state = IF Accepts(r) THEN "ok" ELSE "refused",
                   !.rows = IF r.kind \in {"items", "detail"} THEN ItemsOf(r.pull) ELSE Empty]}
    /\ held' = [p \in Pull |-> held[p] \cup {Total(ItemsOf(p)')}]
    /\ UNCHANGED <<copies, selected, editing, modal, busy, sends, looks>>

Lose(r) ==
    /\ Lossy /\ r.state \in {"sent", "ok", "refused"}
    /\ net' = (net \ {r}) \cup {[r EXCEPT !.state = "lost"]}
    /\ UNCHANGED <<server, copies, selected, editing, modal, busy, sends, looks, held>>

-----------------------------------------------------------------------------
(* The drawer.                                                             *)

NoModal == [kind |-> "none", pull |-> NoPull, item |-> NoItem, rowsOf |-> NoItem, rows |-> NoPlan]
NotDrawn == [pull |-> NoPull, total |-> 0, linked |-> "none"]

Look == looks < MaxLook /\ looks' = looks + 1 /\ UNCHANGED sends

(* renderDrawerSections: the number of linked POs is fetched.              *)
Sections(p, total) ==
    [pull |-> p, total |-> total, linked |-> IF p \in Linking THEN "loading" ELSE "none"]
CountLinks(p) == IF p \in Linking THEN {Request("linked", p, NoItem, "none")} ELSE {}

(* A second request sent in the same step has the next number.             *)
AlsoItems(p, N) ==
    {[Request("items", p, NoItem, "none") EXCEPT !.id =
        CHOOSE n \in 1 .. Cardinality(net) + 2 : \A r \in net \cup N : r.id # n]}

(* openDrawer, and loadItemsForDrawer up to its fetch.                     *)
OpenDrawer(p) ==
    /\ selected = NoPull /\ modal.kind = "none" /\ Look
    /\ selected' = p
    /\ drawn' = Sections(p, pulls[p])
    /\ itemsFor' = p
    /\ net' = net \cup CountLinks(p) \cup AlsoItems(p, CountLinks(p))
    /\ UNCHANGED <<server, pulls, items, editing, modal, busy, held>>

(* hidden.bs.offcanvas                                                     *)
CloseDrawer ==
    /\ selected # NoPull
    /\ selected' = NoPull
    /\ drawn' = NotDrawn
    /\ UNCHANGED <<server, pulls, items, itemsFor, editing, modal, busy, net, sends, looks, held>>

(* GET /api/pos answers a page of rows in a record; the handler filters    *)
(* the record as if it were the rows, which throws: a dash is shown.       *)
LinkedAnswer(r) ==
    /\ r.kind = "linked" /\ r.state \in {"ok", "lost"}
    /\ net' = net \ {r}
    /\ drawn' = IF drawn.pull # NoPull THEN [drawn EXCEPT !.linked = "dash"] ELSE drawn
    /\ UNCHANGED <<server, pulls, selected, items, itemsFor, editing, modal, busy, sends, looks, held>>

(* What runs after the refresh the caller awaited: its finally block, or   *)
(* the rest of refreshWindowsModal, which looks editingItemId up now.      *)
FreedBy(r) == busy \ {r.then}

RenderedItem(r) == editing

Continue(r, rows) ==
    /\ busy' = FreedBy(r)
    /\ modal' = IF r.then = "window" /\ modal.kind = "window" /\ RenderedItem(r) \in DOMAIN rows
                THEN [modal EXCEPT !.rowsOf = RenderedItem(r), !.rows = rows[RenderedItem(r)]]
                ELSE modal

ItemsAnswer(r) ==
    /\ r.kind = "items" /\ r.state \in {"ok", "lost"}
    /\ net' = net \ {r}
    /\ items' = IF r.state = "ok" THEN r.rows ELSE Empty
    /\ Continue(r, items')
    /\ UNCHANGED <<server, pulls, selected, drawn, itemsFor, editing, sends, looks, held>>

Fresh(r) == Total(r.rows)

(* refreshPullDetailDrawer; any failure falls back to the items alone.     *)
DetailAnswer(r) ==
    /\ r.kind = "detail" /\ r.state \in {"ok", "lost"}
    /\ itemsFor' = r.pull
    /\ IF r.state = "ok"
       THEN /\ pulls' = [pulls EXCEPT ![r.pull] = Fresh(r)]
            /\ drawn' = IF selected # NoPull THEN Sections(r.pull, Fresh(r)) ELSE drawn
            /\ items' = r.rows
            /\ net' = (net \ {r}) \cup CountLinks(r.pull)
            /\ Continue(r, r.rows)
       ELSE /\ net' = (net \ {r}) \cup {Request("items", r.pull, r.item, r.then)}
            /\ UNCHANGED <<pulls, drawn, items, busy, modal>>
    /\ UNCHANGED <<server, selected, editing, sends, looks, held>>

-----------------------------------------------------------------------------
(* The modals.                                                             *)

TableInFront == selected # NoPull /\ modal.kind = "none"

OpenAddItem ==
    /\ TableInFront /\ Look
    /\ itemsFor' = selected
    /\ modal' = [NoModal EXCEPT !.kind = "add", !.pull = selected]
    /\ UNCHANGED <<server, pulls, selected, drawn, items, editing, busy, net, held>>

ItemModal(k, i) ==
    /\ TableInFront /\ i \in DOMAIN items /\ Look
    /\ modal' = [NoModal EXCEPT !.kind = k, !.item = i]

(* Edit and windows share editingItemId, the ERP fields have their own.    *)
OpenEditItem(i) ==
    /\ ItemModal("edit", i)
    /\ editing' = i
    /\ UNCHANGED <<server, copies, selected, busy, net, held>>

OpenExtendedFields(i) ==
    /\ ItemModal("ext", i)
    /\ UNCHANGED <<server, copies, selected, editing, busy, net, held>>

OpenWindows(i) ==
    /\ TableInFront /\ i \in DOMAIN items /\ Look
    /\ modal' = [NoModal EXCEPT !.kind = "window", !.item = i, !.rowsOf = i, !.rows = items[i]]
    /\ editing' = i
    /\ UNCHANGED <<server, copies, selected, busy, net, held>>

(* confirmAction                                                           *)
AskDelete(i) ==
    /\ ItemModal("confirm", i)
    /\ UNCHANGED <<server, copies, selected, editing, busy, net, held>>

CloseModal ==
    /\ modal.kind # "none"
    /\ modal' = NoModal
    /\ UNCHANGED <<server, copies, selected, editing, busy, net, sends, looks, held>>

SendChange(r) ==
    /\ sends < MaxSend /\ sends' = sends + 1 /\ UNCHANGED looks
    /\ net' = net \cup {r}

(* saveAddItem: the windows of the form have distinct hours and a positive *)
(* quantity; others are refused before anything is sent.                   *)
Form == {f \in [Hour -> Qty \cup {0}] : \E h \in Hour : f[h] > 0}

SaveAddItem ==
    /\ modal.kind = "add" /\ "add" \notin busy
    /\ itemsFor # NoPull
    /\ \E i \in Item, f \in Form :
        /\ Owner[i] = itemsFor /\ i \notin DOMAIN server
        /\ SendChange([Request("add", itemsFor, i, "none") EXCEPT !.plan = f])
    /\ busy' = busy \cup {"add"}
    /\ UNCHANGED <<server, copies, selected, editing, modal, held>>

SaveEditItem ==
    /\ modal.kind = "edit" /\ "edit" \notin busy
    /\ SendChange(Request("edit", itemsFor, editing, "none"))
    /\ busy' = busy \cup {"edit"}
    /\ UNCHANGED <<server, copies, selected, editing, modal, held>>

SaveExtendedFields ==
    /\ modal.kind = "ext" /\ "ext" \notin busy
    /\ SendChange(Request("ext", itemsFor, modal.item, "none"))
    /\ busy' = busy \cup {"ext"}
    /\ UNCHANGED <<server, copies, selected, editing, modal, held>>

(* The pull is read when the operator has confirmed.                       *)
DeleteItem ==
    /\ modal.kind = "confirm"
    /\ SendChange(Request("delete", itemsFor, modal.item, "none"))
    /\ modal' = NoModal
    /\ UNCHANGED <<server, copies, selected, editing, busy, held>>

(* Save or delete a window on display, or add one at a free hour; none of  *)
(* these buttons is disabled.  The request names one hour.                 *)
ChangeWindow ==
    /\ modal.kind = "window"
    /\ \E h \in Hour, q \in Qty \cup {0} :
        /\ q = 0 => modal.rows[h] > 0 /\ <<modal.rowsOf, h>> \notin Received
        /\ SendChange([Request("window", itemsFor, editing, "none")
                        EXCEPT !.plan = [x \in {h} |-> q], !.added = (modal.rows[h] = 0)])
    /\ UNCHANGED <<server, copies, selected, editing, modal, busy, held>>

FreedByFailure(r) == IF r.state = "ok" THEN busy ELSE busy \ {r.kind}

(* The answer to a change: the refresh is of the pull the table is for by  *)
(* then; a delete and a window have no button to give back.                *)
ChangeAnswer(r) ==
    /\ r.kind \in Changes /\ r.state \in {"ok", "refused", "lost"}
    /\ busy' = FreedByFailure(r)
    /\ IF r.state = "ok"
       THEN /\ net' = (net \ {r}) \cup
                {Request("detail", itemsFor, r.item, IF r.kind = "delete" THEN "none" ELSE r.kind)}
            /\ modal' = IF r.kind \in Saves /\ modal.kind = r.kind THEN NoModal ELSE modal
       ELSE net' = net \ {r} /\ UNCHANGED modal
    /\ UNCHANGED <<server, copies, selected, editing, sends, looks, held>>

-----------------------------------------------------------------------------
Init ==
    /\ server = [i \in Initial |-> [h \in Hour |-> 1]]
    /\ pulls = [p \in Pull |-> Total(ItemsOf(p))]
    /\ selected = NoPull /\ drawn = NotDrawn
    /\ items = Empty /\ itemsFor = NoPull /\ editing = NoItem
    /\ modal = NoModal /\ busy = {} /\ net = {}
    /\ sends = 0 /\ looks = 0
    /\ held = [p \in Pull |-> {pulls[p]}]

Answer(r) == LinkedAnswer(r) \/ ItemsAnswer(r) \/ DetailAnswer(r) \/ ChangeAnswer(r)

User ==
    \/ \E p \in Pull : OpenDrawer(p)
    \/ CloseDrawer \/ CloseModal \/ OpenAddItem
    \/ \E i \in Item : OpenEditItem(i) \/ OpenExtendedFields(i) \/ OpenWindows(i) \/ AskDelete(i)
    \/ SaveAddItem \/ SaveEditItem \/ SaveExtendedFields \/ DeleteItem \/ ChangeWindow

Next == User \/ \E r \in net : Serve(r) \/ Lose(r) \/ Answer(r)

(* Every fetch settles.                                                    *)
Settles(n) == \E r \in net : r.id = n /\ (Serve(r) \/ Answer(r))

Spec == Init /\ [][Next]_vars /\ \A n \in 1 .. MaxSend + 2 * MaxLook : WF_vars(Settles(n))

-----------------------------------------------------------------------------
Held(k) == {r \in net : r.kind = k \/ r.then = k}

(* Requests, copies and modals are well formed.                            *)
TypeOK ==
    /\ DOMAIN server \subseteq Item /\ \A i \in DOMAIN server : server[i] \in [Hour -> Nat]
    /\ pulls \in [Pull -> Nat]
    /\ {selected, drawn.pull, itemsFor} \subseteq Pull \cup {NoPull}
    /\ DOMAIN items \subseteq Item /\ {editing, modal.item, modal.rowsOf} \subseteq Item \cup {NoItem}
    /\ busy \subseteq Saves
    /\ \A r \in net : r.item \in Item \cup {NoItem} /\ r.pull \in Pull
    /\ \A r, q \in net : r.id = q.id => r = q

(* A save button is disabled exactly from the click to the end of the      *)
(* refresh after it, and saves once, whatever modals are opened meanwhile. *)
ButtonHeldByItsSave ==
    \A k \in Saves : Cardinality(Held(k)) =< 1 /\ (k \in busy <=> Held(k) # {})

(* The same as every step keeps it: a request is of one save at most.      *)
HeldInv ==
    /\ busy \subseteq Saves
    /\ \A r \in net : {"kind", "then", "state"} \subseteq DOMAIN r
    /\ \A r \in net : r.kind \notin {"items", "detail"} => r.then = "none"
    /\ \A k \in Saves : (k \in busy <=> Held(k) # {}) /\ \A r, q \in Held(k) : r = q

(* Every save button comes back: the finally blocks run after a refusal, a *)
(* lost answer and a refresh that falls back to the items alone.           *)
SaveHeld(k) == k \in busy

(* The windows modal lists, and its buttons change, the windows of the     *)
(* item in its title, although the rest of refreshWindowsModal runs after  *)
(* the modal may have been opened on another item.                         *)
WindowsOfItsItem == modal.kind = "window" => modal.rowsOf = modal.item /\ editing = modal.item

(* However refreshes overlap, the totals of the list and of the drawer are *)
(* totals the server has had: no handler adds up what the page shows.      *)
TotalsFromServer ==
    /\ \A p \in Pull : pulls[p] \in held[p]
    /\ drawn.pull # NoPull => drawn.total \in held[drawn.pull]

(* The two as every step keeps them: an answer under way has a total that  *)
(* the server had.                                                         *)
ShownInv ==
    /\ {"kind", "item", "rowsOf"} \subseteq DOMAIN modal /\ {"pull", "total"} \subseteq DOMAIN drawn
    /\ {itemsFor, selected, drawn.pull} \subseteq Pull \cup {NoPull}
    /\ DOMAIN pulls = Pull /\ \A p \in Pull : Total(ItemsOf(p)) \in held[p]
    /\ \A r \in net :
        /\ {"kind", "pull", "state", "rows", "then"} \subseteq DOMAIN r /\ r.pull \in Pull \cup {NoPull}
        /\ r.kind = "detail" /\ r.state = "ok" /\ r.pull \in Pull => Total(r.rows) \in held[r.pull]
    /\ WindowsOfItsItem /\ TotalsFromServer
=============================================================================
