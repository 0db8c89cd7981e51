----------------------------- MODULE PullPicker -----------------------------
(***************************************************************************)
(* The picker of a pull in the dialog of a new order                       *)
(* (attachPullAutocomplete of pos.js): a text is looked up after a         *)
(* debounce, among the pulls of the warehouse chosen; answers come in any  *)
(* order or not at all.                                                    *)
(***************************************************************************)
EXTENDS Integers, FiniteSets

CONSTANTS
    Warehouse, Text, Short, None,
    Shortening, \* whether the user erases a text before its answer came
    Retyping,   \* whether the user types a text again before its answer came
    MaxItems,   \* take of the lookup
    MaxNet, MaxLost \* bounds on the lookups under way and lost

PullPickerAssumption ==
    /\ Short \notin Text /\ None \notin Text \cup Warehouse
    /\ Shortening \in BOOLEAN /\ Retyping \in BOOLEAN
    /\ MaxItems \in Nat \ {0} /\ MaxNet \in Nat \ {0} /\ MaxLost \in Nat

VARIABLES
    warehouse, \* n-warehouse
    text,      \* the input
    debounce,
    lastQuery,
    items,     \* the pulls found, all of a warehouse and a text
    highlighted,
    visible,   \* results are not hidden
    chosen,    \* the warehouse of the pull in the hidden input
    net, lost

list == <<items, highlighted, visible>>
vars == <<warehouse, text, debounce, lastQuery, list, chosen, net, lost>>

NoItems == [of |-> None, q |-> None, n |-> 0]
Unused == CHOOSE n \in 1 .. MaxNet : \A r \in net : r.id # n

-----------------------------------------------------------------------------
Type(q) ==
    /\ chosen = None /\ q # text
    /\ q = Short => Shortening \/ net = {}
    /\ \A r \in net : r.q = q => Retyping
    /\ text' = q /\ debounce' = TRUE
    /\ UNCHANGED <<warehouse, lastQuery, list, chosen, net, lost>>

(* search, up to its fetch; a short text only hides the list.              *)
Search ==
    /\ debounce /\ debounce' = FALSE
    /\ IF text = Short
       THEN /\ visible' = FALSE /\ items' = NoItems
            /\ UNCHANGED <<lastQuery, net>>
       ELSE /\ Cardinality(net) < MaxNet
            /\ lastQuery' = text
            /\ net' = net \cup {[id |-> Unused, wh |-> warehouse, q |-> text]}
            /\ UNCHANGED <<visible, items>>
    /\ UNCHANGED <<warehouse, text, highlighted, chosen, lost>>

(* The answers that are shown.  Mutant: all.                               *)
CurrentAny(r) == TRUE
Current(r) == r.q = lastQuery

(* What is highlighted of n pulls found.                                   *)
FirstOf(n) == IF n > 0 THEN 0 ELSE -1

Found(r, n) ==
    /\ net' = net \ {r}
    /\ IF Current(r)
       THEN items' = [of |-> r.wh, q |-> r.q, n |-> n] /\ highlighted' = FirstOf(n) /\ visible' = TRUE
       ELSE UNCHANGED list
    /\ UNCHANGED <<warehouse, text, debounce, lastQuery, chosen, lost>>

(* A lookup that fails empties the list, whichever it was.                 *)
Fails(r) ==
    /\ lost < MaxLost /\ lost' = lost + 1 /\ net' = net \ {r}
    /\ items' = NoItems /\ visible' = TRUE
    /\ UNCHANGED <<warehouse, text, debounce, lastQuery, highlighted, chosen>>

(* The arrow keys, the mouse and Enter over the list; the mouse picks      *)
(* what it is over.                                                        *)
Highlight(n) ==
    /\ visible /\ items.n > 0 /\ n \in 0 .. items.n - 1 /\ highlighted' = n
    /\ UNCHANGED <<warehouse, text, debounce, lastQuery, items, visible, chosen, net, lost>>

SelectItem ==
    /\ visible /\ items.n > 0 /\ highlighted >= 0
    /\ chosen' = items.of /\ visible' = FALSE
    /\ UNCHANGED <<warehouse, text, debounce, lastQuery, items, highlighted, net, lost>>

(* Escape, or a click elsewhere.                                           *)
Hide ==
    /\ visible /\ visible' = FALSE
    /\ UNCHANGED <<warehouse, text, debounce, lastQuery, items, highlighted, chosen, net, lost>>

(* reset.                                                                  *)
Forgets == Short
Reset ==
    /\ chosen' = None /\ text' = Short /\ visible' = FALSE
    /\ items' = NoItems /\ highlighted' = -1 /\ lastQuery' = Forgets
    /\ UNCHANGED <<debounce, net, lost>>

Clear == chosen # None /\ Reset /\ UNCHANGED warehouse
ChangeWarehouse(w) == w # warehouse /\ warehouse' = w /\ Reset

-----------------------------------------------------------------------------
Init ==
    /\ warehouse \in Warehouse /\ text = Short /\ debounce = FALSE /\ lastQuery = Short
    /\ items = NoItems /\ highlighted = -1 /\ visible = FALSE /\ chosen = None
    /\ net = {} /\ lost = 0

Next ==
    \/ \E q \in Text \cup {Short} : Type(q)
    \/ Search \/ SelectItem \/ Hide \/ Clear
    \/ \E n \in 0 .. MaxItems - 1 : Highlight(n)
    \/ \E w \in Warehouse : ChangeWarehouse(w)
    \/ \E r \in net : Fails(r) \/ \E n \in 0 .. MaxItems : Found(r, n)

Spec == Init /\ [][Next]_vars

-----------------------------------------------------------------------------
(* What is highlighted, and so what Enter picks, is one of the pulls.      *)
TypeOK ==
    /\ warehouse \in Warehouse /\ chosen \in Warehouse \cup {None}
    /\ items.n > 0 => highlighted \in 0 .. items.n - 1

(* What is listed was found for the last text looked up, once its lookup   *)
(* is over.                                                                *)
ShowsLastQuery == items.n > 0 /\ (\A r \in net : r.q # lastQuery) => items.q = lastQuery

(* The pulls listed, and the one picked, are of the order's warehouse.     *)
PickerScoped ==
    /\ items.n > 0 => items.of = warehouse
    /\ chosen # None => chosen = warehouse

(* What is listed is what was typed, once it was looked up.                *)
ListedIsTyped == visible /\ items.n > 0 /\ ~debounce /\ net = {} => items.q = text

(* The three as every step keeps them: the lookup of lastQuery was made in *)
(* the warehouse chosen, as no text is typed again before its answer came; *)
(* and lastQuery is the text, unless a search is due or the list is empty. *)
ListInv ==
    /\ text \in Text \cup {Short} /\ debounce \in BOOLEAN
    /\ \A r \in net : r.q \in Text
    /\ ~Retyping =>
        /\ debounce => \A r \in net : r.q # text
        /\ \A r \in net : r.q = lastQuery => r.wh = warehouse
        /\ PickerScoped
    /\ ShowsLastQuery
    /\ ~Shortening =>
        /\ text = Short => lastQuery = Short \/ net = {}
        /\ debounce \/ lastQuery = text \/ (text = Short /\ net = {} /\ items.n = 0)
=============================================================================
