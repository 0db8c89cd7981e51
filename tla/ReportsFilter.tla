---------------------------- MODULE ReportsFilter ----------------------------
(***************************************************************************)
(* The filters of the list of closed pulls on the reports page             *)
(* (reports.js): the rows come with the page, a row carries the day its    *)
(* pull was closed on, and the named ranges are counted from today.  Time  *)
(* is in hours of a day of DayLength; the server dates a closing in UTC,   *)
(* the browser knows the local day, Offset hours ahead.                    *)
(***************************************************************************)
EXTENDS Integers, FiniteSets

CONSTANTS
    Row, Warehouse,
    DayLength, Offset,
    Picks,  \* the days a custom range can begin and end on
    Horizon \* bound on the age of a closing, in hours

FilterAssumption ==
    /\ DayLength \in Nat \ {0} /\ Offset \in 0 .. DayLength - 1 /\ Horizon \in Nat /\ Picks \subseteq Nat

VARIABLES
    now,       \* the hour, UTC
    closed,    \* the hour each row's pull was closed, UTC
    warehouse, \* of each row
    range, from, to, wh, \* the filter bar
    visible, count       \* the rows shown, and the number over them

vars == <<now, closed, warehouse, range, from, to, wh, visible, count>>

Ranges == {"all", "today", "last_2_days", "yesterday", "this_week", "last_week", "custom"}

(* data-closed-at, and today at midnight.                                  *)
ClosedAt(r) == closed[r] \div DayLength
Today == (now + Offset) \div DayLength

GroupOf(day) ==
    LET days == Today - day IN
    CASE days = 0 -> "today"
      [] days = 1 -> "yesterday"
      [] days # 0 /\ days # 1 /\ days =< 6 -> "this_week"
      [] days > 6 /\ days =< 13 -> "last_week"
      [] OTHER -> "older"

PassesDate(r) ==
    CASE range = "all" -> TRUE
      [] range = "custom" -> from =< ClosedAt(r) /\ ClosedAt(r) =< to
      [] range = "last_2_days" -> GroupOf(ClosedAt(r)) \in {"today", "yesterday"}
      [] OTHER -> GroupOf(ClosedAt(r)) = range

Passes(r) == PassesDate(r) /\ (wh # "" => warehouse[r] = wh)
Shown == {r \in Row : Passes(r)}

ApplyFilters == visible' = Shown' /\ count' = Cardinality(Shown')

SetRange(x) == range' = x /\ UNCHANGED <<now, closed, warehouse, from, to, wh>> /\ ApplyFilters

(* The dates count only in a custom range.                                 *)
SetDates(f, t) ==
    /\ range = "custom" /\ from' = f /\ to' = t
    /\ UNCHANGED <<now, closed, warehouse, range, wh>> /\ ApplyFilters

SetWarehouse(w) == wh' = w /\ UNCHANGED <<now, closed, warehouse, range, from, to>> /\ ApplyFilters

-----------------------------------------------------------------------------
(* The page of a moment; a row's pull was closed before.                   *)
Init ==
    /\ now \in Horizon .. Horizon + DayLength - 1
    /\ closed \in [Row -> 0 .. now]
    /\ warehouse \in [Row -> Warehouse]
    /\ range = "last_2_days" /\ from = 0 /\ to = Horizon /\ wh = ""
    /\ visible = Shown /\ count = Cardinality(Shown)

Next ==
    \/ \E x \in Ranges : SetRange(x)
    \/ \E f, t \in Picks : SetDates(f, t)
    \/ \E w \in Warehouse \cup {""} : SetWarehouse(w)

Spec == Init /\ [][Next]_vars

-----------------------------------------------------------------------------
(* What is shown is of the chosen warehouse and range, and counted.        *)
TypeOK ==
    /\ visible \subseteq Row /\ count = Cardinality(visible)
    /\ range \in Ranges /\ wh \in Warehouse \cup {""}

(* The named ranges are stretches of days that fit together: no pull       *)
(* closed between two that are shown is hidden but for its warehouse, this *)
(* week ends with the sixth day back and the week before with the next     *)
(* seven.                                                                  *)
RangesFit ==
    /\ \A r, s \in visible, q \in Row \ visible :
          ClosedAt(r) =< ClosedAt(q) /\ ClosedAt(q) =< ClosedAt(s) => wh # "" /\ warehouse[q] # wh
    /\ \A r \in Row : wh = "" =>
          /\ range = "this_week" => (r \in visible <=> Today - ClosedAt(r) \in 2 .. 6)
          /\ range = "last_week" => (r \in visible <=> Today - ClosedAt(r) \in 7 .. 13)

=============================================================================
