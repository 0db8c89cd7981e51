------------------------------ MODULE PullBoard ------------------------------
(***************************************************************************)
(* The board of the dashboard (dashboard.js): the list of pulls it loads,  *)
(* the filters applied by the server and by the page, the cards that are   *)
(* drawn, the figures above them and the Excel export.                     *)
(*                                                                         *)
(* Some filters are sent with the request and applied again on the page,   *)
(* others are applied on the page only; a handler either draws the board   *)
(* again or loads it again, and loads may be answered in any order.        *)
(***************************************************************************)
EXTENDS Integers, FiniteSets, FiniteSetsExt

CONSTANTS
    Pull,
    Age,        \* [Pull -> Int], days since the date of the pull
    Locked,     \* pulls with LockPoByPull
    Warehouse, WhOf,
    ServerHits, \* pulls the server finds for the search text: number, warehouse
    PageHits,   \* pulls the page finds for it: the operator's name too
    Units,      \* [Pull -> Nat], expected units
    Ranges,     \* the custom ranges picked, records of ages
    Lossy,
    MaxLoad,    \* bound on loads sent
    MaxOther,   \* bound on pulls created by other users
    NoRange

BoardAssumption ==
    /\ Age \in [Pull -> Int] /\ Units \in [Pull -> Nat] /\ WhOf \in [Pull -> Warehouse]
    /\ Locked \subseteq Pull /\ ServerHits \subseteq PageHits /\ PageHits \subseteq Pull
    /\ \A g \in Ranges : g.from >= g.to
    /\ Lossy \in BOOLEAN /\ {MaxLoad, MaxOther} \subseteq Nat

VARIABLES
    server,  \* the pulls there are
    pulls,   \* the pulls of the last load, with their dateGroup
    wh, date, lock, text,   \* the filters; text: something is in the search box
    range,   \* customRange
    due,     \* the search timer is running
    shown,   \* what render() has drawn
    figure,  \* sum-thru and sum-total as updateSummary has written them
    loads,   \* loads not answered yet; the latest is the last sent
    sent, others,
    failed   \* the last load the board waited for has failed

filters == <<wh, date, lock, text, range>>
board == <<pulls, shown, figure>>
vars == <<server, board, filters, due, loads, sent, others, failed>>

Dates == {"all", "today", "last_2_days", "yesterday", "this_week", "last_week", "custom"}

-----------------------------------------------------------------------------
(* classifyDateGroup: a date in the future falls into this week.           *)
GroupOf(age) ==
    CASE age = 0 -> "today"
      [] age = 1 -> "yesterday"
      [] age \notin {0, 1} /\ age =< 6 -> "this_week"
      [] age > 6 /\ age =< 13 -> "last_week"
      [] age > 13 -> "older"

InRange(age, g) == age =< g.from /\ age >= g.to

(* The date filter of the page.                                            *)
PassesDate(age, d, g) ==
    \/ d = "all"
    \/ d = "custom" /\ (g = NoRange \/ InRange(age, g))
    \/ d = "last_2_days" /\ GroupOf(age) \in {"today", "yesterday"}
    \/ GroupOf(age) = d

(* pullPasses                                                              *)
Passes(p) ==
    /\ wh \in {"all", WhOf[p]}
    /\ PassesDate(Age[p], date, range)
    /\ lock = "locked" => p \in Locked
    /\ lock = "unlocked" => p \notin Locked
    /\ text => p \in PageHits

Filtered(S) == {p \in S : Passes(p)}
UnitsOf(S) == SumFunction([p \in S |-> Units[p]])

(* render and updateSummary                                                *)
Drawn(S) ==
    /\ shown' = S
    /\ figure' = [total |-> Cardinality(S), units |-> UnitsOf(S)]

(* Called in the step that changes pulls or a filter: of the new values.   *)
Render == Drawn(Filtered(pulls)')

-----------------------------------------------------------------------------
(* loadPulls, up to its fetch: the search text and a custom range are sent *)
(* along; the warehouse goes by a name the server does not read.           *)
LoadPulls ==
    /\ sent < MaxLoad
    /\ sent' = sent + 1
    /\ loads' = {[l EXCEPT !.latest = FALSE] : l \in loads} \cup
        {[n |-> sent + 1, latest |-> TRUE, state |-> "sent", rows |-> {},
          q |-> text, range |-> IF date' = "custom" THEN range' ELSE NoRange]}
    /\ failed' = FALSE

Query(l) == {p \in server : (l.q => p \in ServerHits) /\ (l.range # NoRange => InRange(Age[p], l.range))}

Serve(l) ==
    /\ l.state = "sent"
    /\ loads' = (loads \ {l}) \cup {[l EXCEPT !.state = "ok", !.rows = Query(l)]}
    /\ UNCHANGED <<server, board, filters, due, sent, others, failed>>

Lose(l) ==
    /\ Lossy /\ l.state \in {"sent", "ok"}
    /\ loads' = (loads \ {l}) \cup {[l EXCEPT !.state = "lost"]}
    /\ UNCHANGED <<server, board, filters, due, sent, others, failed>>

(* The status is in: a superseded load is dropped, else its body is read.  *)
LoadHead(l) ==
    /\ l.state = "ok"
    /\ loads' = (loads \ {l}) \cup (IF l.latest THEN {[l EXCEPT !.state = "reading"]} ELSE {})
    /\ UNCHANGED <<server, board, filters, due, sent, others, failed>>

LoadBody(l) ==
    /\ l.state = "reading"
    /\ loads' = loads \ {l}
    /\ pulls' = l.rows
    /\ UNCHANGED <<server, filters, due, sent, others, failed>>
    /\ Render

(* A failed load is reported and leaves the board as it is.                *)
LoadLost(l) ==
    /\ l.state = "lost"
    /\ loads' = loads \ {l}
    /\ failed' = TRUE
    /\ UNCHANGED <<server, board, filters, due, sent, others>>

-----------------------------------------------------------------------------
(* The filters.                                                            *)

SetWarehouse ==
    /\ wh' \in {"all"} \cup Warehouse
    /\ UNCHANGED <<server, pulls, date, lock, text, range, due, loads, sent, others, failed>>
    /\ Render

SetLock ==
    /\ lock' \in {"all", "locked", "unlocked"}
    /\ UNCHANGED <<server, pulls, wh, date, text, range, due, loads, sent, others, failed>>
    /\ Render

(* The board is drawn 120 ms after the last key.                           *)
Type ==
    /\ text' = ~text
    /\ due' = TRUE
    /\ UNCHANGED <<server, board, wh, date, lock, range, loads, sent, others, failed>>

SearchTimer ==
    /\ due
    /\ due' = FALSE
    /\ UNCHANGED <<server, pulls, filters, loads, sent, others, failed>>
    /\ Render

RangeAfter(d) == IF d = "custom" THEN range ELSE NoRange

(* Leaving custom forgets the range and draws what was loaded for it.      *)
SetDate ==
    /\ date' \in Dates \ {date}
    /\ range' = RangeAfter(date')
    /\ UNCHANGED <<server, pulls, wh, lock, text, due, others>>
    /\ IF date' = "custom" /\ range' # NoRange
       THEN LoadPulls /\ UNCHANGED <<shown, figure>>
       ELSE Render /\ UNCHANGED <<loads, sent, failed>>

ApplyRange ==
    /\ date = "custom"
    /\ range' \in Ranges
    /\ UNCHANGED date
    /\ LoadPulls
    /\ UNCHANGED <<server, board, wh, lock, text, due, others>>

ClearRange ==
    /\ date = "custom"
    /\ range' = NoRange
    /\ UNCHANGED date
    /\ LoadPulls
    /\ UNCHANGED <<server, board, wh, lock, text, due, others>>

(* After a pull was saved, or an ERP sync has ended.                       *)
Reload ==
    /\ UNCHANGED <<date, range>>
    /\ LoadPulls
    /\ UNCHANGED <<server, board, wh, lock, text, due, others>>

OtherUser ==
    /\ others < MaxOther
    /\ others' = others + 1
    /\ \E p \in Pull \ server : server' = server \cup {p}
    /\ UNCHANGED <<board, filters, due, loads, sent, failed>>

(* exportToExcel: the rows of the workbook; nothing is exported if none.   *)
Exported == Filtered(pulls)

-----------------------------------------------------------------------------
(* The page opens on the last two days, or on the option of its address,   *)
(* and loads once the warehouses have been fetched.                        *)
Init ==
    /\ server \in {S \in SUBSET Pull : Cardinality(Pull \ S) = MaxOther}
    /\ pulls = {} /\ shown = {} /\ figure = [total |-> 0, units |-> 0]
    /\ wh = "all" /\ lock = "all" /\ text = FALSE
    /\ date \in {"last_2_days", "custom"} /\ range = NoRange
    /\ due = FALSE /\ others = 0 /\ failed = FALSE
    /\ sent = 1
    /\ loads = {[n |-> 1, latest |-> TRUE, state |-> "sent", rows |-> {}, q |-> FALSE, range |-> NoRange]}

User == SetWarehouse \/ SetLock \/ Type \/ SetDate \/ ApplyRange \/ ClearRange \/ Reload
Answer(l) == LoadHead(l) \/ LoadBody(l) \/ LoadLost(l)
Next == User \/ SearchTimer \/ OtherUser \/ \E l \in loads : Serve(l) \/ Lose(l) \/ Answer(l)

Spec == Init /\ [][Next]_vars

-----------------------------------------------------------------------------
(* Filters, loads and figures are well formed.                             *)
TypeOK ==
    /\ {server, pulls, shown} \subseteq SUBSET Pull
    /\ wh \in {"all"} \cup Warehouse /\ lock \in {"all", "locked", "unlocked"}
    /\ date \in Dates /\ range \in Ranges \cup {NoRange} /\ text \in BOOLEAN
    /\ figure \in [total : Nat, units : Nat]
    /\ date # "custom" => range = NoRange
    /\ \A l \in loads : l.n \in 1 .. sent /\ (l.latest <=> l.n = sent)

(* Every handler that changes a filter draws the board, or loads it: once  *)
(* the timer and the loads are done the board is what the filters say, and *)
(* the export and the figures agree with the cards.                        *)
BoardFollowsFilters ==
    (~due /\ loads = {} /\ ~failed) =>
        /\ shown = Exported
        /\ figure = [total |-> Cardinality(shown), units |-> UnitsOf(shown)]

(* The days a named filter stands for.                                     *)
DaysOf(d) ==
    CASE d = "today" -> [from |-> 0, to |-> 0]
      [] d = "yesterday" -> [from |-> 1, to |-> 1]
      [] d = "last_2_days" -> [from |-> 1, to |-> 0]
      [] d = "this_week" -> [from |-> 6, to |-> 2]
      [] d = "last_week" -> [from |-> 13, to |-> 7]

(* A named filter, computed in buckets, leaves the cards that the custom   *)
(* range of its days would leave, for every date that is not in the future.*)
NamedIsRange ==
    date \notin {"all", "custom"} =>
        \A age \in 0 .. 20 : PassesDate(age, date, range) <=> PassesDate(age, "custom", DaysOf(date))
=============================================================================
