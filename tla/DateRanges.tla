----------------------------- MODULE DateRanges -----------------------------
(***************************************************************************)
(* The named ranges of days of three pages: transactions.js and masters.js *)
(* make instants, the end excluded, of a journal of receipts and of the    *)
(* audit log; pos.js makes days, both ends included, of the dates of       *)
(* orders.  An instant is an hour; a day has 24 of them but for one, when  *)
(* the clock is changed.                                                   *)
(***************************************************************************)
EXTENDS Integers

CONSTANTS
    Day,       \* the days from a Monday on that may be today, a multiple of 7
    OddLength, \* what the odd day may last
    Label      \* the options of f-date

DateRangesAssumption == Day \subseteq Nat /\ OddLength \subseteq 23 .. 25

VARIABLES
    today, odd, length, \* the odd day, and its hours
    label, first, last, \* f-date, date-from, date-to
    asked  \* the day, the ranges of the three pages of the last requests

vars == <<today, odd, length, label, first, last, asked>>

NoDate == -1

(* new Date(year, month, day): the first instant of a day.                 *)
StartOfDay(d) == 24 * d + (IF d > odd THEN length - 24 ELSE 0)

(* getDay() || 7.                                                          *)
DayOfWeek(d) == IF (d + 1) % 7 = 0 THEN 7 ELSE (d + 1) % 7
ThisMonday == today - (DayOfWeek(today) - 1)

(* 86400000 milliseconds.                                                  *)
PastLast == 24

(* computeDateRange of transactions.js; the end is excluded, or none.      *)
Instants ==
    CASE label = "today" -> [from |-> StartOfDay(today), to |-> NoDate]
      [] label = "last_2_days" -> [from |-> StartOfDay(today - 1), to |-> NoDate]
      [] label = "yesterday" -> [from |-> StartOfDay(today - 1), to |-> StartOfDay(today)]
      [] label = "this_week" -> [from |-> StartOfDay(ThisMonday), to |-> NoDate]
      [] label = "last_week" -> [from |-> StartOfDay(ThisMonday - 7), to |-> StartOfDay(ThisMonday)]
      [] label = "custom" -> [from |-> StartOfDay(first), to |-> StartOfDay(last) + PastLast]

(* auditDateRange of masters.js; the end is excluded.                      *)
Audited ==
    CASE label = "today" -> [from |-> StartOfDay(today), to |-> StartOfDay(today + 1)]
      [] label = "last_2_days" -> [from |-> StartOfDay(today - 1), to |-> StartOfDay(today + 1)]
      [] label = "yesterday" -> [from |-> StartOfDay(today - 1), to |-> StartOfDay(today)]
      [] label = "this_week" -> [from |-> StartOfDay(ThisMonday), to |-> StartOfDay(today + 1)]
      [] label = "last_week" -> [from |-> StartOfDay(ThisMonday - 7), to |-> StartOfDay(ThisMonday)]
      [] label = "custom" -> [from |-> StartOfDay(first), to |-> StartOfDay(last) + PastLast]

(* computeDateRange of pos.js; both ends are included.                     *)
Days ==
    CASE label = "today" -> [from |-> today, to |-> today]
      [] label = "last_2_days" -> [from |-> today - 1, to |-> today]
      [] label = "yesterday" -> [from |-> today - 1, to |-> today - 1]
      [] label = "this_week" -> [from |-> ThisMonday, to |-> today]
      [] label = "last_week" -> [from |-> ThisMonday - 7, to |-> ThisMonday - 1]
      [] label = "custom" -> [from |-> first, to |-> last]

(* A request of each page computes its range anew.                         *)
Ranges == [on |-> today, label |-> label, instants |-> Instants, audited |-> Audited, days |-> Days]
Ask == asked' = Ranges

(* Midnight, while the page stays open.                                    *)
Midnight ==
    /\ today + 1 \in Day /\ today' = today + 1
    /\ UNCHANGED <<odd, length, label, first, last, asked>>

Choose(l) ==
    /\ label' = l
    /\ UNCHANGED <<today, odd, length, first, last, asked>>

(* date-apply refuses a range that ends before it begins.                  *)
Accepts(f, l) == f =< l
Apply(f, l) ==
    /\ label = "custom" /\ Accepts(f, l)
    /\ first' = f /\ last' = l
    /\ UNCHANGED <<today, odd, length, label, asked>>

Request == Ask /\ UNCHANGED <<today, odd, length, label, first, last>>

Init ==
    /\ today \in Day /\ odd \in today - 14 .. today + 1 /\ length \in OddLength
    /\ label = "last_2_days" /\ first = today /\ last = today
    /\ asked = Ranges

Next ==
    \/ Midnight \/ Request
    \/ \E l \in Label : Choose(l)
    \/ \E f, l \in Day : Apply(f, l)

Spec == Init /\ [][Next]_vars

-----------------------------------------------------------------------------
TypeOK ==
    /\ today \in Day /\ label \in Label /\ first =< last
    /\ asked.on =< today /\ asked.days.from =< asked.days.to

(* The pages mean the same days by a name: the instants begin with the     *)
(* first of the days and end with the last of them, or are open when that  *)
(* is the day of the request, whenever the clock is changed.               *)
PagesAgree ==
    asked.label # "custom" =>
        /\ asked.instants.from = StartOfDay(asked.days.from)
        /\ \/ asked.instants.to = StartOfDay(asked.days.to + 1)
           \/ asked.instants.to = NoDate /\ asked.days.to = asked.on
        /\ asked.audited.from = asked.instants.from
        /\ asked.audited.to = StartOfDay(asked.days.to + 1)

(* A week goes from Monday to Sunday, last week ends where this one        *)
(* begins, and today is in this week.                                      *)
WeeksAreWeeks ==
    /\ asked.label = "last_week" =>
          /\ asked.days.from % 7 = 0 /\ asked.days.to = asked.days.from + 6
          /\ asked.on \in asked.days.to + 1 .. asked.days.to + 7
    /\ asked.label = "this_week" =>
          asked.days.from % 7 = 0 /\ asked.on \in asked.days.from .. asked.days.from + 6

(* A range picked by hand takes its last day whole, and nothing after it.  *)
CustomIsWhole ==
    asked.label = "custom" =>
        /\ asked.instants.from = StartOfDay(asked.days.from)
        /\ asked.instants.to = StartOfDay(asked.days.to + 1)
        /\ asked.audited = asked.instants
=============================================================================
