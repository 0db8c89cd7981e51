--------------------------- MODULE ReceivingGrid ---------------------------
(***************************************************************************)
(* What the receiving page computes from the sheet it has loaded: the      *)
(* state of a cell, the rows of the visible period, the figures above the  *)
(* grid, the state of the toolbar buttons, the totals to be signed and the *)
(* sheets of the Excel export.  The same question, whether the pull is     *)
(* complete, is answered by several functions over different hours.        *)
(***************************************************************************)
EXTENDS Integers, Sequences, FiniteSets, FiniteSetsExt

CONSTANTS
    Item,
    Starts,     \* the options of period-select, in their order
    Windows,    \* item and hour of the windows of the sheet
    Expected,   \* [Windows -> Nat]
    MaxQty,     \* bound on the quantities received
    Filters     \* the options of filter-select

Hour == 0 .. 23

GridAssumption ==
    /\ Windows \subseteq Item \X Hour
    /\ Expected \in [Windows -> Nat]
    /\ \A p \in DOMAIN Starts : Starts[p] \in Hour

VARIABLES
    got,       \* schedule[h].r
    status,    \* normal, new or canceled
    period,    \* index of the selected option
    filter,    \* filter-select
    clock,     \* the hour of the wall clock
    closed,    \* pullClosed
    reopens    \* canReopenPull of the user

gridVars == <<got, status, period, filter, clock, closed, reopens>>

Planned == {w \in Windows : Expected[w] > 0}
Live == {i \in Item : status[i] # "canceled"}
LivePlanned == {w \in Planned : status[w[1]] # "canceled"}
SumBy(S, f(_)) == FoldSet(LAMBDA x, acc : f(x) + acc, 0, S)

-----------------------------------------------------------------------------
(* getCell                                                                 *)
CellState(i, h) ==
    LET w == <<i, h>>
    IN CASE w \notin Planned -> "empty"
         [] w \in Planned /\ got[w] > Expected[w] -> "over"
         [] w \in Planned /\ got[w] = Expected[w] -> "complete"
         [] w \in Planned /\ got[w] < Expected[w] -> "pending"

(* currentPeriodHours, of the period at an index.                          *)
HoursOf(p) == {(Starts[p] + k) % 24 : k \in 0 .. 3}

Within(i, p) == {w \in Planned : w[1] = i /\ w[2] \in HoursOf(p)}
Short(w) == got[w] < Expected[w]

(* itemClass, of the period at an index.                                   *)
ItemClass(i, p) ==
    IF status[i] = "canceled" THEN "canceled"
    ELSE IF \E w \in Within(i, p) : Short(w) THEN "outstanding" ELSE "received"

PassesFilter(i, p) == filter = "all" \/ ItemClass(i, p) = filter

(* render: the cells of the rows shown, of which those of a row that is    *)
(* not canceled open the modal.                                            *)
Shown(p) == {i \in Item : PassesFilter(i, p)}
Clickable(p) == (Shown(p) \cap Live) \X HoursOf(p)

Got(S) == SumBy(S, LAMBDA w : got[w])
Exp(S) == SumBy(S, LAMBDA w : Expected[w])

(* updateStats, of the period at an index.                                 *)
Stats(p) ==
    LET cells == {w \in LivePlanned : w[2] \in HoursOf(p)}
    IN [exp |-> Exp(cells), rec |-> Got(cells),
        pending |-> Cardinality({w \in cells : CellState(w[1], w[2]) = "pending"}),
        active |-> Cardinality(Live),
        canceled |-> Cardinality(Item \ Live),
        new |-> Cardinality({i \in Item : status[i] = "new"})]

(* isFullyReceived: every hour of every row, not the period alone.         *)
FullyReceived == LivePlanned # {} /\ \A w \in LivePlanned : ~Short(w)

(* updateCloseButton                                                       *)
CloseButton ==
    [visible |-> ~(closed /\ reopens), enabled |-> ~closed /\ FullyReceived]
ReopenVisible == closed /\ reopens

(* openCloseModal: the totals the user puts a signature under.             *)
Declared == [exp |-> Exp(LivePlanned), rec |-> Got(LivePlanned), items |-> Cardinality(Live)]

(* buildExportRows: one row per planned window, one per item.              *)
DetailStatus(w) ==
    CASE w[1] \notin Live -> "Canceled"
      [] w[1] \in Live /\ ~Short(w) -> "Complete"
      [] w[1] \in Live /\ Short(w) /\ got[w] > 0 -> "Partial"
      [] OTHER -> "Pending"

SummaryStatus(i) ==
    LET mine == {w \in Planned : w[1] = i}
    IN CASE i \notin Live -> "Canceled"
         [] i \in Live /\ mine = {} -> "No schedule"
         [] i \in Live /\ mine # {} /\ Got(mine) >= Exp(mine) -> "Fully received"
         [] i \in Live /\ Got(mine) \in 1 .. Exp(mine) - 1 -> "Outstanding"
         [] OTHER -> "Pending"

-----------------------------------------------------------------------------
(* periodStartContainingNow: the first option whose window holds the hour. *)
InWindow(h, s) ==
    LET end == (s + 4) % 24
    IN IF end > s THEN s =< h /\ h < end ELSE h >= s \/ h < end
Containing(h) == {p \in DOMAIN Starts : InWindow(h, Starts[p])}
PeriodOfNow == IF Containing(clock) = {} THEN 1 ELSE Min(Containing(clock))

(* updatePeriodNowAffordances                                              *)
OnNow == period = PeriodOfNow

(* stepPeriod: the options are walked as a cycle.                          *)
Cycled(d) == ((period - 1 + d + Len(Starts)) % Len(Starts)) + 1

StepPeriod(d) ==
    /\ period' = Cycled(d)
    /\ UNCHANGED <<got, status, filter, clock, closed, reopens>>

JumpPeriodToNow ==
    /\ ~OnNow
    /\ period' = PeriodOfNow
    /\ UNCHANGED <<got, status, filter, clock, closed, reopens>>

SetFilter(f) ==
    /\ filter' = f
    /\ UNCHANGED <<got, status, period, clock, closed, reopens>>

(* The status menu, on an open sheet.                                      *)
SetStatus(i, s) ==
    /\ ~closed
    /\ status' = [status EXCEPT ![i] = s]
    /\ UNCHANGED <<got, period, filter, clock, closed, reopens>>

(* slot.r takes the quantity of an answer; only a window has one.          *)
SetReceived(w, q) ==
    /\ got' = [got EXCEPT ![w] = q]
    /\ UNCHANGED <<status, period, filter, clock, closed, reopens>>

(* The close modal is behind the button, the server's answer closes.       *)
Close ==
    /\ CloseButton.visible /\ CloseButton.enabled
    /\ closed' = TRUE
    /\ UNCHANGED <<got, status, period, filter, clock, reopens>>

ReopenSheet ==
    /\ ReopenVisible
    /\ closed' = FALSE
    /\ UNCHANGED <<got, status, period, filter, clock, reopens>>

Tick ==
    /\ clock' = (clock + 1) % 24
    /\ UNCHANGED <<got, status, period, filter, closed, reopens>>

(* startup selects the period of the hour.                                 *)
GridInit ==
    /\ got = [w \in Windows |-> 0]
    /\ status = [i \in Item |-> "normal"]
    /\ clock \in Hour
    /\ period = PeriodOfNow
    /\ filter = "all"
    /\ closed = FALSE
    /\ reopens \in BOOLEAN

GridNext ==
    \/ \E d \in {-1, 1} : StepPeriod(d)
    \/ JumpPeriodToNow \/ Close \/ ReopenSheet \/ Tick
    \/ \E f \in Filters : SetFilter(f)
    \/ \E i \in Item, s \in {"normal", "new", "canceled"} : SetStatus(i, s)
    \/ \E w \in Windows, q \in 0 .. MaxQty : SetReceived(w, q)

GridSpec == GridInit /\ [][GridNext]_gridVars

-----------------------------------------------------------------------------
(* The page's sheet and selectors are well formed.                         *)
GridTypeOK ==
    /\ got \in [Windows -> 0 .. MaxQty]
    /\ status \in [Item -> {"normal", "new", "canceled"}]
    /\ period \in DOMAIN Starts
    /\ filter \in Filters
    /\ clock \in Hour
    /\ {closed, reopens} \subseteq BOOLEAN

(* The six periods tile the day: one contains the clock, the fallback of   *)
(* periodStartContainingNow is never taken, and its columns show the hour. *)
PeriodsTile ==
    /\ Cardinality(Containing(clock)) = 1
    /\ clock \in HoursOf(PeriodOfNow)

(* A short window of a live row can be opened in one period, also when     *)
(* only outstanding rows are shown: no filter hides work still to be done. *)
ShortIsReachable ==
    filter \in {"all", "outstanding"} =>
        \A w \in LivePlanned :
            Short(w) => Cardinality({p \in DOMAIN Starts : w \in Clickable(p)}) = 1

(* The close button and the periods agree: it is ready when something is   *)
(* planned and no period has an outstanding row left.                      *)
ReadyWhenNothingOutstanding ==
    FullyReceived <=>
        /\ LivePlanned # {}
        /\ \A i \in Item, p \in DOMAIN Starts : ItemClass(i, p) # "outstanding"

(* The figures of the six periods add up to the totals that are signed,    *)
(* and a sheet that can be closed has no window pending in any of them.    *)
PeriodsAddUp ==
    /\ SumBy(DOMAIN Starts, LAMBDA p : Stats(p).exp) = Declared.exp
    /\ SumBy(DOMAIN Starts, LAMBDA p : Stats(p).rec) = Declared.rec
    /\ CloseButton.enabled => \A p \in DOMAIN Starts : Stats(p).pending = 0

(* What is signed is what is exported: a sheet that can be closed exports  *)
(* only complete rows for its live items, and declares all of the plan.    *)
SignedIsExported ==
    CloseButton.enabled =>
        /\ \A w \in Planned : DetailStatus(w) \in {"Complete", "Canceled"}
        /\ \A i \in Live : SummaryStatus(i) \in {"Fully received", "No schedule"}
        /\ Declared.rec >= Declared.exp
=============================================================================
