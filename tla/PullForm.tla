------------------------------ MODULE PullForm -------------------------------
(***************************************************************************)
(* The dialog of the dashboard that creates and edits pulls                *)
(* (dashboard.js).  Both handlers set the mode and the title, wait for the *)
(* warehouses the first time, and fill the fields after that; saving reads *)
(* the mode and the fields, and waits for the board to be loaded again.    *)
(***************************************************************************)
EXTENDS Integers, FiniteSets

CONSTANTS
    Pull,
    Lossy,
    MaxOpen, \* bound on openings of the dialog
    MaxSave, \* bound on saves
    NoPull   \* a new pull, or none

FormAssumption ==
    /\ NoPull \notin Pull
    /\ Lossy \in BOOLEAN /\ {MaxOpen, MaxSave} \subseteq Nat

VARIABLES
    header,  \* what the server has in the dates and notes of each pull
    drawer,  \* the pull whose drawer is open
    cache,   \* warehousesCache: none yet, the list, or empty after a failure
    mode, editing, \* pullModalMode and editingPullId
    form,    \* the fields: whose values they show, and whether the number is enabled
    open,    \* the dialog is shown
    enabled, \* pm-save
    net,     \* requests not answered yet
    opens, saves

vars == <<header, drawer, cache, mode, editing, form, open, enabled, net, opens, saves>>

Unused == CHOOSE n \in 1 .. Cardinality(net) + 1 : \A r \in net : r.id # n

(* for: the pull a handler was started for, NoPull for a new one; values:  *)
(* whose values are saved.                                                 *)
Request(k, p, v) == [id |-> Unused, kind |-> k, for |-> p, values |-> v, state |-> "sent"]

(* The server refuses a pull with a number that is taken.                  *)
Accepts(r) == r.kind # "save" \/ r.for # NoPull \/ r.values = NoPull

Serve(r) ==
    /\ r.state = "sent"
    /\ net' = (net \ {r}) \cup {[r EXCEPT !.state = IF Accepts(r) THEN "ok" ELSE "refused"]}
    /\ header' = IF r.kind = "save" /\ Accepts(r) /\ r.for # NoPull
                 THEN [header EXCEPT ![r.for] = r.values] ELSE header
    /\ UNCHANGED <<drawer, cache, mode, editing, form, open, enabled, opens, saves>>

Lose(r) ==
    /\ Lossy /\ r.state # "lost"
    /\ net' = (net \ {r}) \cup {[r EXCEPT !.state = "lost"]}
    /\ UNCHANGED <<header, drawer, cache, mode, editing, form, open, enabled, opens, saves>>

-----------------------------------------------------------------------------
OpenDrawer(p) ==
    /\ ~open /\ drawer = NoPull
    /\ drawer' = p
    /\ UNCHANGED <<header, cache, mode, editing, form, open, enabled, net, opens, saves>>

CloseDrawer ==
    /\ ~open /\ drawer # NoPull
    /\ drawer' = NoPull
    /\ UNCHANGED <<header, cache, mode, editing, form, open, enabled, net, opens, saves>>

(* What the handlers do once the warehouses are there.                     *)
FillForNew ==
    /\ form' = [of |-> NoPull, number |-> TRUE]
    /\ open' = TRUE
    /\ UNCHANGED drawer

FillForEdit(p) ==
    /\ form' = [of |-> p, number |-> FALSE]
    /\ open' = TRUE
    /\ drawer' = NoPull

Fill(p) == IF p = NoPull THEN FillForNew ELSE FillForEdit(p)

(* ensureWarehouses: no wait when the cache is there, were it empty.       *)
Start(p) ==
    /\ opens < MaxOpen /\ opens' = opens + 1
    /\ IF cache = "none"
       THEN net' = net \cup {Request("warehouses", p, NoPull)} /\ UNCHANGED <<form, open, drawer>>
       ELSE Fill(p) /\ UNCHANGED net
    /\ UNCHANGED <<header, cache, enabled, saves>>

Edited(p) == p

OpenCreate ==
    /\ ~open /\ drawer = NoPull
    /\ mode' = "create" /\ editing' = Edited(NoPull)
    /\ Start(NoPull)

OpenEdit ==
    /\ ~open /\ drawer # NoPull
    /\ mode' = "edit" /\ editing' = Edited(drawer)
    /\ Start(drawer)

WarehousesAnswer(r) ==
    /\ r.kind = "warehouses" /\ r.state \in {"ok", "lost"}
    /\ net' = net \ {r}
    /\ cache' = IF r.state = "ok" THEN "list" ELSE "empty"
    /\ Fill(r.for)
    /\ UNCHANGED <<header, mode, editing, enabled, opens, saves>>

Dismiss ==
    /\ open
    /\ open' = FALSE
    /\ UNCHANGED <<header, drawer, cache, mode, editing, form, enabled, net, opens, saves>>

TargetOfMode == IF mode = "create" THEN NoPull ELSE editing

(* savePullModal, up to its fetch: a new pull needs a warehouse.           *)
Save ==
    /\ open /\ enabled
    /\ saves < MaxSave /\ saves' = saves + 1
    /\ mode = "create" => cache = "list"
    /\ net' = net \cup {Request("save", TargetOfMode, form.of)}
    /\ enabled' = FALSE
    /\ UNCHANGED <<header, drawer, cache, mode, editing, form, open, opens>>

ComesBack(r) == r.state # "ok"

SaveAnswer(r) ==
    /\ r.kind = "save" /\ r.state \in {"ok", "refused", "lost"}
    /\ enabled' = ComesBack(r)
    /\ IF r.state = "ok"
       THEN open' = FALSE /\ net' = (net \ {r}) \cup {Request("load", NoPull, NoPull)}
       ELSE net' = net \ {r} /\ UNCHANGED open
    /\ UNCHANGED <<header, drawer, cache, mode, editing, form, opens, saves>>

(* loadPulls catches everything: the finally block runs.                   *)
LoadAnswer(r) ==
    /\ r.kind = "load" /\ r.state \in {"ok", "lost"}
    /\ net' = net \ {r}
    /\ enabled' = TRUE
    /\ UNCHANGED <<header, drawer, cache, mode, editing, form, open, opens, saves>>

-----------------------------------------------------------------------------
Init ==
    /\ header = [p \in Pull |-> p]
    /\ drawer = NoPull /\ cache = "none"
    /\ mode = "create" /\ editing = NoPull
    /\ form = [of |-> NoPull, number |-> TRUE]
    /\ open = FALSE /\ enabled = TRUE
    /\ net = {} /\ opens = 0 /\ saves = 0

User == (\E p \in Pull : OpenDrawer(p)) \/ CloseDrawer \/ OpenCreate \/ OpenEdit \/ Dismiss \/ Save
Answer(r) == WarehousesAnswer(r) \/ SaveAnswer(r) \/ LoadAnswer(r)
Next == User \/ \E r \in net : Serve(r) \/ Lose(r) \/ Answer(r)

Settles(n) == \E r \in net : r.id = n /\ (Serve(r) \/ Answer(r))

Spec == Init /\ [][Next]_vars /\ \A n \in 1 .. MaxOpen + 1 : WF_vars(Settles(n))

-----------------------------------------------------------------------------
Saving == {r \in net : r.kind \in {"save", "load"}}

(* Requests and fields are well formed; the mode says which pull is edited.*)
TypeOK ==
    /\ header \in [Pull -> Pull \cup {NoPull}] /\ drawer \in Pull \cup {NoPull}
    /\ cache \in {"none", "list", "empty"}
    /\ mode \in {"create", "edit"} /\ editing \in Pull \cup {NoPull}
    /\ mode = "edit" <=> editing # NoPull
    /\ form \in [of : Pull \cup {NoPull}, number : BOOLEAN]
    /\ \A r, q \in net : r.id = q.id => r = q

(* One save at a time, over all the openings of the dialog, until the      *)
(* board is loaded again.                                                  *)
OneSaveAtATime == Cardinality(Saving) =< 1 /\ (enabled <=> Saving = {})

(* The same as every step keeps it: a request stays of its kind.           *)
SavingInv ==
    /\ enabled \in BOOLEAN
    /\ \A r \in net : {"kind", "state"} \subseteq DOMAIN r
    /\ \A r, q \in Saving : r = q
    /\ enabled <=> Saving = {}

(* The save button comes back, whatever is refused or lost.                *)
SaveHeld == ~enabled
=============================================================================
