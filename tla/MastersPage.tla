---------------------------- MODULE MastersPage -----------------------------
(***************************************************************************)
(* Users, warehouses and who is assigned where (masters.js): two tables    *)
(* drawn from arrays the page keeps, a dialog for either kind of record,   *)
(* the question before a deletion, and handlers that send one request      *)
(* after the other and draw the tables at their end.  No button is held    *)
(* while a handler runs, so several may be under way.  A record is its     *)
(* identity and whether it is active.                                      *)
(***************************************************************************)
EXTENDS Integers, FiniteSets, Sequences

CONSTANTS
    User, House, Me, \* I am one of the users
    Stocked,         \* warehouses that have pulls
    NewUser, NewHouse, None, \* records to be created; no record
    Patient,         \* whether the user waits until the page is quiet
    MaxRun, MaxOther, MaxLost \* bounds: handlers started, others' edits, calls lost

MastersAssumption ==
    /\ User \cap House = {} /\ None \notin User \cup House /\ Me \in User
    /\ Stocked \subseteq House /\ NewUser \in (User \ {Me}) \cup {None}
    /\ NewHouse \in House \cup {None}
    /\ Patient \in BOOLEAN /\ {MaxRun, MaxOther, MaxLost} \subseteq Nat

VARIABLES
    db,     \* the server: records, active ones, assignments
    known,  \* the arrays users, warehouses and assignments
    table,  \* the same as each table was drawn from
    form,   \* the dialogs: the record shown, its boxes
    confirm, \* the question, and _confirmCb
    sent,   \* deletions sent since the last question
    runs,   \* handlers under way, each with its request
    started, others, lost

vars == <<db, known, table, form, confirm, sent, runs, started, others, lost>>

Record == User \cup House
NoForm == [open |-> FALSE, of |-> None, offered |-> {}, boxes |-> {}]
Nothing == [records |-> {}, active |-> {}, link |-> {}]

-----------------------------------------------------------------------------
(* MastersService: what each request does, and when it is refused.  The    *)
(* assignments of a record that goes are deleted with it.                  *)
Without(d, x) ==
    [records |-> d.records \ {x}, active |-> d.active \ {x},
     link |-> {l \in d.link : x \notin {l[1], l[2]}}]
WithState(d, x, on) ==
    [d EXCEPT !.records = @ \cup {x}, !.active = IF on THEN @ \cup {x} ELSE @ \ {x}]
WithLinks(d, u, boxes) ==
    [d EXCEPT !.link = {l \in @ : l[1] # u} \cup ({u} \X boxes)]

Accepts(r) ==
    LET x == r.of IN
    CASE Head(r.todo) \in {"getUsers", "getHouses"} -> TRUE
      [] Head(r.todo) = "post" -> x \notin db.records /\ r.boxes \subseteq db.records
      [] Head(r.todo) = "put" -> x \in db.records
      [] Head(r.todo) = "putLinks" -> x \in db.records /\ r.boxes \subseteq db.records
      [] Head(r.todo) = "delete" -> x \in db.records \ (Stocked \cup {Me})

Effect(r) ==
    CASE Head(r.todo) = "post" -> WithLinks(WithState(db, r.of, r.active), r.of, r.boxes)
      [] Head(r.todo) = "put" -> WithState(db, r.of, r.active)
      [] Head(r.todo) = "putLinks" -> WithLinks(db, r.of, r.boxes)
      [] Head(r.todo) = "delete" -> Without(db, r.of)
      [] OTHER -> db

-----------------------------------------------------------------------------
(* The handlers as the requests they send one after the other.             *)
SaveUser(x) ==
    IF x = NewUser THEN <<"post", "getUsers", "getHouses">>
    ELSE <<"put", "putLinks", "getUsers", "getHouses">>
SaveHouse(x) == <<IF x = NewHouse THEN "post" ELSE "put", "getHouses">>
DeleteUser == <<"delete", "getUsers", "getHouses">>
DeleteHouse == <<"delete", "getHouses", "getUsers">>

Handler(kind, x, boxes, on, todo) ==
    [id |-> started, kind |-> kind, of |-> x, boxes |-> boxes, active |-> on,
     todo |-> todo, state |-> "sent", data |-> Nothing]

Serve(r) ==
    /\ r.state = "sent"
    /\ runs' = (runs \ {r}) \cup
          {[r EXCEPT !.state = IF Accepts(r) THEN "ok" ELSE "refused", !.data = db]}
    /\ db' = IF Accepts(r) THEN Effect(r) ELSE db
    /\ UNCHANGED <<known, table, form, confirm, sent, started, others, lost>>

(* syncUsers and syncWarehouses: an answer replaces the arrays of its own. *)
Ids(d, X) == [records |-> d.records \cap X, active |-> d.active \cap X]
Joined(u, w, l) ==
    [records |-> u.records \cup w.records, active |-> u.active \cup w.active, link |-> l]
Synced(r) ==
    CASE Head(r.todo) = "getUsers" -> Joined(Ids(r.data, User), Ids(known, House), r.data.link)
      [] Head(r.todo) = "getHouses" -> Joined(Ids(known, User), Ids(r.data, House), known.link)
      [] OTHER -> known

(* renderUsers and renderWarehouses.                                       *)
Drawn(k) == [users |-> k, houses |-> k]

Closes(r) == r.kind \in {"user", "house"} /\ form.of \in (IF r.kind = "user" THEN User ELSE House)

Answer(r) ==
    /\ r.state = "ok"
    /\ known' = Synced(r)
    /\ IF Len(r.todo) > 1
       THEN /\ runs' = (runs \ {r}) \cup {[r EXCEPT !.todo = Tail(@), !.state = "sent", !.data = Nothing]}
            /\ UNCHANGED <<table, form>>
       ELSE /\ runs' = runs \ {r}
            /\ table' = Drawn(known')
            /\ form' = IF Closes(r) THEN NoForm ELSE form
    /\ UNCHANGED <<db, confirm, sent, started, others, lost>>

(* The catch block: a message, and no more.                                *)
Refused(r) ==
    /\ r.state = "refused" /\ runs' = runs \ {r}
    /\ UNCHANGED <<db, known, table, form, confirm, sent, started, others, lost>>

Lose(r) ==
    /\ lost < MaxLost /\ lost' = lost + 1
    /\ runs' = runs \ {r}
    /\ UNCHANGED <<db, known, table, form, confirm, sent, started, others>>

-----------------------------------------------------------------------------
(* The user.  A dialog covers the tables; a row is found in the arrays, or *)
(* the click does nothing.                                                 *)
Free ==
    /\ ~form.open /\ confirm.state = "hidden"
    /\ Patient => runs = {}
Row(x) == x \in known.records /\ x \in (IF x \in User THEN table.users ELSE table.houses).records

OpenUserModal(u) ==
    /\ Free /\ (Row(u) \/ u \in ({NewUser} \cap User) \ known.records)
    /\ form' = [open |-> TRUE, of |-> u, offered |-> known.records \cap House,
                boxes |-> {w \in known.records \cap House : <<u, w>> \in known.link}]
    /\ UNCHANGED <<db, known, table, confirm, sent, runs, started, others, lost>>

OpenWarehouseModal(w) ==
    /\ Free /\ (Row(w) \/ w \in ({NewHouse} \cap House) \ known.records)
    /\ form' = [NoForm EXCEPT !.open = TRUE, !.of = w]
    /\ UNCHANGED <<db, known, table, confirm, sent, runs, started, others, lost>>

Tick(w) ==
    /\ form.open /\ w \in form.offered
    /\ form' = [form EXCEPT !.boxes = IF w \in @ THEN @ \ {w} ELSE @ \cup {w}]
    /\ UNCHANGED <<db, known, table, confirm, sent, runs, started, others, lost>>

Dismiss ==
    /\ form.open /\ form' = NoForm
    /\ UNCHANGED <<db, known, table, confirm, sent, runs, started, others, lost>>

Begin(r) == started < MaxRun /\ started' = started + 1 /\ runs' = runs \cup {r}

Save ==
    /\ form.open /\ (Patient => runs = {})
    /\ \E on \in BOOLEAN :
          IF form.of \in User
          THEN Begin(Handler("user", form.of, form.boxes, on, SaveUser(form.of)))
          ELSE Begin(Handler("house", form.of, {}, on, SaveHouse(form.of)))
    /\ UNCHANGED <<db, known, table, form, confirm, sent, others, lost>>

(* deleteUser, deleteWarehouse and confirmAction: the question names the   *)
(* record, and keeps what is to be done.                                   *)
AskDelete(x) ==
    /\ Free /\ Row(x) /\ started < MaxRun
    /\ confirm' = [state |-> "shown", callback |-> x]
    /\ sent' = 0
    /\ UNCHANGED <<db, known, table, form, runs, started, others, lost>>

(* btn-confirm-ok, which can be clicked until the dialog has faded.        *)
ConfirmOk ==
    /\ confirm.state # "hidden"
    /\ confirm' = [state |-> "fading", callback |-> None]
    /\ IF confirm.callback = None
       THEN UNCHANGED <<runs, started, sent>>
       ELSE LET x == confirm.callback IN
            /\ Begin(Handler("delete", x, {}, FALSE, IF x \in User THEN DeleteUser ELSE DeleteHouse))
            /\ sent' = sent + 1
    /\ UNCHANGED <<db, known, table, form, others, lost>>

ConfirmDismiss ==
    /\ confirm.state = "shown" /\ confirm' = [confirm EXCEPT !.state = "fading"]
    /\ UNCHANGED <<db, known, table, form, sent, runs, started, others, lost>>

Faded ==
    /\ confirm.state = "fading" /\ confirm' = [confirm EXCEPT !.state = "hidden"]
    /\ UNCHANGED <<db, known, table, form, sent, runs, started, others, lost>>

(* The filters over a table draw it again from the arrays.                 *)
FilterUsers ==
    /\ table' = [table EXCEPT !.users = known]
    /\ UNCHANGED <<db, known, form, confirm, sent, runs, started, others, lost>>
FilterHouses ==
    /\ table' = [table EXCEPT !.houses = known]
    /\ UNCHANGED <<db, known, form, confirm, sent, runs, started, others, lost>>

(* Another admin.                                                          *)
SomebodyEdits ==
    /\ others < MaxOther /\ others' = others + 1
    /\ \/ \E x \in db.records \ (Stocked \cup {Me}) : db' = Without(db, x)
       \/ \E u \in db.records \cap User, boxes \in SUBSET (db.records \cap House) :
             db' = WithLinks(db, u, boxes)
    /\ UNCHANGED <<known, table, form, confirm, sent, runs, started, lost>>

-----------------------------------------------------------------------------
(* The page loads both lists at once, and draws when it has both.          *)
Init ==
    /\ LET all == Record \ {NewUser, NewHouse} IN
       db = [records |-> all, active |-> all,
             link |-> (all \cap User) \X (all \cap House)]
    /\ known = Nothing /\ table = Drawn(Nothing)
    /\ form = NoForm /\ confirm = [state |-> "hidden", callback |-> None]
    /\ sent = 0
    /\ \E todo \in {<<"getUsers", "getHouses">>, <<"getHouses", "getUsers">>} :
          runs = {[id |-> -1, kind |-> "init", of |-> None, boxes |-> {}, active |-> FALSE,
                   todo |-> todo, state |-> "sent", data |-> Nothing]}
    /\ started = 0 /\ others = 0 /\ lost = 0

Next ==
    \/ \E r \in runs : Serve(r) \/ Answer(r) \/ Refused(r) \/ Lose(r)
    \/ \E u \in User : OpenUserModal(u)
    \/ \E w \in House : OpenWarehouseModal(w) \/ Tick(w)
    \/ \E x \in Record : AskDelete(x)
    \/ Dismiss \/ Save \/ ConfirmOk \/ ConfirmDismiss \/ Faded
    \/ FilterUsers \/ FilterHouses \/ SomebodyEdits

Spec == Init /\ [][Next]_vars

-----------------------------------------------------------------------------
(* Assignments are of records there are.                                   *)
Whole(d) ==
    /\ d.records \subseteq Record /\ d.active \subseteq d.records
    /\ d.link \subseteq (d.records \cap User) \X (d.records \cap House)
TypeOK ==
    /\ Whole(db)
    /\ form.boxes \subseteq form.offered
    /\ Cardinality({r.id : r \in runs}) = Cardinality(runs)

(* confirmAction: one answer to a question deletes one record, the one it  *)
(* was about, however fast the button is clicked.                          *)
DeletesAsAsked == sent =< 1

(* Kept by every step: while the callback is there nothing was sent.       *)
AskedInv ==
    /\ confirm \in [state : {"hidden", "shown", "fading"}, callback : Record \cup {None}]
    /\ sent \in 0 .. 1
    /\ confirm.callback # None => sent = 0

(* Once all handlers have ended well both tables show the arrays as they   *)
(* are, also when handlers overlapped and tables were drawn between two    *)
(* answers.                                                                *)
Quiet == runs = {} /\ lost = 0
TablesFollow == Quiet => table = Drawn(known)

(* A user who waits is shown what the server has, assignments that went    *)
(* with a record included.                                                 *)
InStep == Quiet /\ Patient /\ others = 0 => known = db
=============================================================================
