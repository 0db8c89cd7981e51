------------------------------ MODULE MCPages ------------------------------
(***************************************************************************)
(* The pages for TLC: those of PageCalls, about which PagesProofs has      *)
(* theorems, with values for their constants, and the others, a scene for  *)
(* every choice of theirs.                                                 *)
(***************************************************************************)
EXTENDS PageCalls

-----------------------------------------------------------------------------
(* Two pieces planned of one item, one of the others; the lines of one pull.*)
Planned(I) == [c \in I \X {8} |-> IF c[1] = "i1" THEN 2 ELSE 1]
OnePlan == Planned(Item)
TwoPlans == Planned(Items)
OneOwner == [i \in Line |-> "p1"]
(* Two pulls, the second with one item, of items there or to be added; an  *)
(* admin of two warehouses and an operator of one; both known sources;     *)
(* audit rows of two actions.                                              *)
TwoOwners == [i \in Entry |-> IF i = "b" THEN "p2" ELSE "p1"]
Assignments == [u \in Person |-> IF u = "ann" THEN {"w1", "w2"} ELSE {"w2"}]
BothKnown == <<"BPI_PRS", "PRB_PRS">>
Kinds == [x \in Logged |-> IF x = 2 THEN "b" ELSE "a"]
Presets == {"today", "last_2_days", "yesterday", "this_week", "last_week"}

(* The receiving page: quantities that are typed; requests and answers    *)
(* that get lost once.                                                    *)
RecTyping == INSTANCE ReceivingPage WITH
    Item <- {"i2"}, Hour <- {8}, Expected <- Planned({"i2"}), PoCap <- 3, HourCap <- FALSE,
    Typed <- {1}, CanReopen <- FALSE, Lossy <- FALSE, Markable <- {}, MaxPost <- 1, MaxLook <- 2,
    MaxOther <- 0, server <- m1, grid <- m2, canceled <- m3, closed <- m4, modal <- m5,
    panel <- m6, journal <- m7, drawer <- m8, dialog <- m9, sign <- m10, net <- m11,
    posts <- m12, looks <- m13, others <- m14, held <- m15
RecLossyOnce == INSTANCE ReceivingPage WITH
    Item <- {"i1"}, Hour <- {8}, Expected <- Planned({"i1"}), PoCap <- 3, HourCap <- FALSE,
    Typed <- {}, CanReopen <- FALSE, Lossy <- TRUE, Markable <- {}, MaxPost <- 1, MaxLook <- 1,
    MaxOther <- 0, server <- m1, grid <- m2, canceled <- m3, closed <- m4, modal <- m5,
    panel <- m6, journal <- m7, drawer <- m8, dialog <- m9, sign <- m10, net <- m11,
    posts <- m12, looks <- m13, others <- m14, held <- m15

(* The six periods, two windows of one item before and after midnight.     *)
Grid == INSTANCE ReceivingGrid WITH
    Item <- {"i1", "i2"}, Starts <- <<7, 11, 15, 19, 23, 3>>,
    Windows <- {<<"i1", 22>>, <<"i1", 2>>},
    Expected <- [w \in {<<"i1", 22>>, <<"i1", 2>>} |-> 1], MaxQty <- 2,
    Filters <- {"all", "outstanding"}, got <- m1, status <- m2, period <- m3, filter <- m4,
    clock <- m5, closed <- m6, reopens <- m7

(* Pulls of today and a week ago, two loads; or one added by another user. *)
Board == INSTANCE PullBoard WITH
    Pull <- {0, 7}, Age <- [p \in {0, 7} |-> p], Locked <- {7}, Warehouse <- {"w1", "w2"},
    WhOf <- [p \in {0, 7} |-> IF p = 0 THEN "w1" ELSE "w2"], ServerHits <- {7},
    PageHits <- {0, 7}, Units <- [p \in {0, 7} |-> IF p = 0 THEN 3 ELSE 1],
    Ranges <- {[from |-> 7, to |-> 6]}, Lossy <- TRUE, MaxLoad <- 2, MaxOther <- 0,
    NoRange <- None, server <- m1, pulls <- m2, wh <- m3, date <- m4, lock <- m5, text <- m6,
    range <- m7, due <- m8, shown <- m9, figure <- m10, loads <- m11, sent <- m12, others <- m13,
    failed <- m14
BoardNew == INSTANCE PullBoard WITH
    Pull <- {0, 7}, Age <- [p \in {0, 7} |-> p], Locked <- {7}, Warehouse <- {"w1", "w2"},
    WhOf <- [p \in {0, 7} |-> IF p = 0 THEN "w1" ELSE "w2"], ServerHits <- {7},
    PageHits <- {0, 7}, Units <- [p \in {0, 7} |-> IF p = 0 THEN 3 ELSE 1],
    Ranges <- {[from |-> 7, to |-> 6]}, Lossy <- TRUE, MaxLoad <- 1, MaxOther <- 1,
    NoRange <- None, server <- m1, pulls <- m2, wh <- m3, date <- m4, lock <- m5, text <- m6,
    range <- m7, due <- m8, shown <- m9, figure <- m10, loads <- m11, sent <- m12, others <- m13,
    failed <- m14

(* Three receipts of two operators, or three orders, of which the search   *)
(* finds two, on pages of one; with answers that overtake each other, or   *)
(* in order and exported.                                                  *)
Tx == INSTANCE TxPage WITH
    Receipt <- 1 .. 3, Operator <- {"ann", "bob"},
    By <- [x \in 1 .. 3 |-> IF x = 3 THEN "bob" ELSE "ann"], Matching <- {1, 3},
    InHour <- {2, 3}, PageSize <- 1, MaxLoad <- 2, MaxLost <- 1, MaxExport <- 0, All <- None,
    search <- m1, operator <- m2, hour <- m3, operators <- m4, debounce <- m5, page <- m6,
    rows <- m7, total <- m8, pager <- m9, failed <- m10, exported <- m11, net <- m12, lost <- m13
TxOrdered == INSTANCE TxPage WITH
    Receipt <- 1 .. 3, Operator <- {"ann", "bob"},
    By <- [x \in 1 .. 3 |-> IF x = 3 THEN "bob" ELSE "ann"], Matching <- {1, 3},
    InHour <- {2, 3}, PageSize <- 1, MaxLoad <- 1, MaxLost <- 0, MaxExport <- 1, All <- None,
    search <- m1, operator <- m2, hour <- m3, operators <- m4, debounce <- m5, page <- m6,
    rows <- m7, total <- m8, pager <- m9, failed <- m10, exported <- m11, net <- m12, lost <- m13
List == INSTANCE PoList WITH
    Order <- {1, 2}, Linked <- {2}, Matching <- {1}, PageSize <- 1, Leaving <- TRUE,
    MaxLoad <- 2, MaxLost <- 0, MaxExport <- 0, open <- m1, search <- m2, linkage <- m3,
    debounce <- m4, page <- m5, rows <- m6, total <- m7, shown <- m8, pager <- m9,
    exported <- m10, net <- m11, lost <- m12
ListOrdered == INSTANCE PoList WITH
    Order <- 1 .. 3, Linked <- {2}, Matching <- {1, 3}, PageSize <- 1, Leaving <- FALSE,
    MaxLoad <- 1, MaxLost <- 1, MaxExport <- 1, open <- m1, search <- m2, linkage <- m3,
    debounce <- m4, page <- m5, rows <- m6, total <- m7, shown <- m8, pager <- m9,
    exported <- m10, net <- m11, lost <- m12

(* A job of two attempts; two runs.                                        *)
SyncOnce == INSTANCE SyncDialog WITH
    Job <- {"j1"}, MaxClick <- 2, MaxTries <- 2, Lossy <- TRUE, None <- None,
    Recurring <- "recurring", jobs <- m1, holder <- m2, ran <- m3, open <- m4, busy <- m5,
    status <- m6, timers <- m7, pollTimer <- m8, toasted <- m9, net <- m10, clicks <- m11
History == INSTANCE SyncHistory WITH
    MaxRun <- 2, MaxList <- 2, MaxNet <- 2, MaxLoss <- 1, log <- m1, phase <- m2, shown <- m3,
    banner <- m4, net <- m5, asked <- m6, losses <- m7

(* Two rows closed within a fortnight, with days of one hour.              *)
Filter == INSTANCE ReportsFilter WITH
    Row <- {"a", "b"}, Warehouse <- {"BKK", "CNX"}, DayLength <- 1, Offset <- 0, Picks <- {4},
    Horizon <- 9, now <- m1, closed <- m2, warehouse <- m3, range <- m4, from <- m5, to <- m6,
    wh <- m7, visible <- m8, count <- m9

(* Two exports of which one is the user's; one that is run twice.          *)
Exp == INSTANCE ExportsPage WITH
    Export <- {"e1", "e2"}, Mine <- {"e1"}, MaxRun <- 1, MaxLoad <- 1, MaxLost <- 1,
    status <- m1, runs <- m2, grabbed <- m3, tab <- m4, seeAll <- m5, rows <- m6, error <- m7,
    timer <- m8, marking <- m9, marked <- m10, net <- m11, lost <- m12
ExpTwice == INSTANCE ExportsPage WITH
    Export <- {"e1"}, Mine <- {"e1"}, MaxRun <- 2, MaxLoad <- 1, MaxLost <- 0, status <- m1,
    runs <- m2, grabbed <- m3, tab <- m4, seeAll <- m5, rows <- m6, error <- m7, timer <- m8,
    marking <- m9, marked <- m10, net <- m11, lost <- m12
Counters == INSTANCE ExportCounters WITH
    MaxAsk <- 2, MaxChange <- 1, MaxLost <- 1, value <- m1, shown <- m2, bump <- m3, visit <- m4,
    polling <- m5, net <- m6, changes <- m7, lost <- m8

(* Six days from a Thursday on, one of them odd; three days to choose.     *)
Dates == INSTANCE DateRanges WITH
    Day <- 17 .. 22, OddLength <- {23, 25}, Label <- Presets, today <- m1, odd <- m2,
    length <- m3, label <- m4, first <- m5, last <- m6, asked <- m7
DatesCustom == INSTANCE DateRanges WITH
    Day <- 14 .. 16, OddLength <- {24}, Label <- Presets \cup {"custom"}, today <- m1, odd <- m2,
    length <- m3, label <- m4, first <- m5, last <- m6, asked <- m7

(* A user and a warehouse to be created, a user who waits; an answer lost *)
(* and another admin's edit.                                              *)
Masters == INSTANCE MastersPage WITH
    User <- {"ann", "bob", "new"}, House <- {"w1", "w2"}, Me <- "ann", Stocked <- {},
    NewUser <- "new", NewHouse <- "w2", None <- None, Patient <- TRUE, MaxRun <- 2,
    MaxOther <- 0, MaxLost <- 0, db <- m1, known <- m2, table <- m3, form <- m4, confirm <- m5,
    sent <- m6, runs <- m7, started <- m8, others <- m9, lost <- m10
MastersLossy == INSTANCE MastersPage WITH
    User <- {"ann", "bob"}, House <- {"w1"}, Me <- "ann", Stocked <- {}, NewUser <- None,
    NewHouse <- None, None <- None, Patient <- FALSE, MaxRun <- 1, MaxOther <- 1, MaxLost <- 1,
    db <- m1, known <- m2, table <- m3, form <- m4, confirm <- m5, sent <- m6, runs <- m7,
    started <- m8, others <- m9, lost <- m10

(* Three rows of which a list takes two, and one still to be written.      *)
Audit == INSTANCE AuditTab WITH
    Row <- 1 .. 3, Written <- {1, 2}, Action <- {"a", "b"},
    Kind <- [x \in 1 .. 3 |-> IF x = 2 THEN "b" ELSE "a"], Finds <- {1, 3}, Holds <- {2, 3},
    Recent <- {2, 3}, Take <- 2, InOrder <- TRUE, MaxLoad <- 2, MaxLost <- 0, All <- None,
    log <- m1, search <- m2, action <- m3, recent <- m4, tab <- m5, debounce <- m6, rows <- m7,
    shown <- m8, writing <- m9, net <- m10, lost <- m11

ASSUME ConstantsFit ==
    /\ RecTyping!PageAssumption /\ RecLossyOnce!PageAssumption /\ Grid!GridAssumption
    /\ Board!BoardAssumption /\ BoardNew!BoardAssumption /\ Tx!TxAssumption
    /\ TxOrdered!TxAssumption /\ List!PoListAssumption /\ ListOrdered!PoListAssumption
    /\ SyncOnce!DialogAssumption /\ History!HistoryAssumption
    /\ Filter!FilterAssumption /\ Exp!PageAssumption /\ ExpTwice!PageAssumption
    /\ Counters!CountersAssumption /\ Dates!DateRangesAssumption
    /\ DatesCustom!DateRangesAssumption /\ Masters!MastersAssumption
    /\ MastersLossy!MastersAssumption /\ Audit!AuditAssumption

-----------------------------------------------------------------------------
Init ==
    \/ CallsInit
    \/ /\ scene \in Scene
       /\ \/ On("typing") /\ RecTyping!Init
          \/ On("lossyOnce") /\ RecLossyOnce!Init
          \/ On("grid") /\ Grid!GridInit /\ Zero8
          \/ On("board") /\ Board!Init /\ Zero15
          \/ On("boardNew") /\ BoardNew!Init /\ Zero15
          \/ On("receipts") /\ Tx!Init /\ Zero14
          \/ On("receiptsInOrder") /\ TxOrdered!Init /\ Zero14
          \/ On("orders") /\ List!Init /\ Zero13
          \/ On("ordersInOrder") /\ ListOrdered!Init /\ Zero13
          \/ On("syncOnce") /\ SyncOnce!Init /\ Zero12
          \/ On("history") /\ History!Init /\ Zero8
          \/ On("filter") /\ Filter!Init /\ Zero10
          \/ On("exports") /\ Exp!Init /\ Zero13
          \/ On("exportTwice") /\ ExpTwice!Init /\ Zero13
          \/ On("counters") /\ Counters!Init /\ Zero9
          \/ On("dates") /\ Dates!Init /\ Zero8
          \/ On("custom") /\ DatesCustom!Init /\ Zero8
          \/ On("masters") /\ Masters!Init /\ Zero11
          \/ On("mastersLossy") /\ MastersLossy!Init /\ Zero11
          \/ On("audit") /\ Audit!Init /\ Zero12

Next ==
    \/ CallsNext
    \/ Step("typing") /\ RecTyping!Next
    \/ Step("lossyOnce") /\ RecLossyOnce!Next
    \/ Step("grid") /\ Grid!GridNext /\ Same8
    \/ Step("board") /\ Board!Next /\ Same15
    \/ Step("boardNew") /\ BoardNew!Next /\ Same15
    \/ Step("receipts") /\ Tx!Next /\ Same14
    \/ Step("receiptsInOrder") /\ TxOrdered!Next /\ Same14
    \/ Step("orders") /\ List!Next /\ Same13
    \/ Step("ordersInOrder") /\ ListOrdered!Next /\ Same13
    \/ Step("syncOnce") /\ SyncOnce!Next /\ Same12
    \/ Step("history") /\ History!Next /\ Same8
    \/ Step("filter") /\ Filter!Next /\ Same10
    \/ Step("exports") /\ Exp!Next /\ Same13
    \/ Step("exportTwice") /\ ExpTwice!Next /\ Same13
    \/ Step("counters") /\ Counters!Next /\ Same9
    \/ Step("dates") /\ Dates!Next /\ Same8
    \/ Step("custom") /\ DatesCustom!Next /\ Same8
    \/ Step("masters") /\ Masters!Next /\ Same11
    \/ Step("mastersLossy") /\ MastersLossy!Next /\ Same11
    \/ Step("audit") /\ Audit!Next /\ Same12

Behaviour == Init /\ [][Next]_vars

-----------------------------------------------------------------------------
(* Fairness.  As the scene never changes, one condition says for each      *)
(* scene what its module asks for: every request settles and what the      *)
(* server and the page have begun goes on, ...                             *)
GoesOn(n) ==
    \/ Step("lossyOnce") /\ RecLossyOnce!Settles(n)
    \/ Step("drawerSaves") /\ DrawerSaves!Settles(n) /\ Same14
    \/ Step("form") /\ Form!Settles(n) /\ Same12
    \/ Step("cancel") /\ n = 1 /\ Cancel!Settles /\ Same9
    \/ Step("order") /\ OrderPage!Settles(n) /\ Same15
    \/ /\ Step("syncOnce") /\ Same12
       /\ \/ SyncOnce!Settles(n)
          \/ n = 5 /\ SyncOnce!Worker("j1")
          \/ n = 6 /\ SyncOnce!PollTimer("j1")
          \/ n = 7 /\ SyncOnce!EndRecurring
    \/ Step("history") /\ Same8 /\ (History!Settles(n) \/ (n = 3 /\ History!Tick) \/ (n = 4 /\ History!RunGoesOn))
    \/ Step("imports") /\ Imports!Settles(n) /\ Same10
    \/ Step("reports") /\ Reports!Settles(n) /\ Same8
    \/ /\ Step("exportTwice") /\ Same13
       /\ \/ ExpTwice!Settles(n)
          \/ n = 3 /\ ExpTwice!MarkAnswered("e1")
          \/ n = 4 /\ ExpTwice!Ends("e1")
    \/ /\ Step("counters") /\ Same9
       /\ \/ Counters!Settles(n)
          \/ n = 5 /\ Counters!Start
          \/ n = 6 /\ Counters!AskPills
          \/ n = 7 /\ Counters!Counted
    \/ Step("login") /\ Same11 /\ (Login!Settles(n) \/ (n = 4 /\ (Login!ServePost \/ Login!PostAnswer)))

Spec == Behaviour /\ \A n \in 1 .. 7 : WF_vars(GoesOn(n))

(* ... and timers fire that are set again and again.                       *)
Fires(n) ==
    \/ n = 1 /\ Step("exportTwice") /\ ExpTwice!TimerFires /\ Same13
    \/ n = 2 /\ Step("exportTwice") /\ ExpTwice!DelayEnds("e1") /\ Same13
    \/ n = 1 /\ Step("counters") /\ Counters!Poll("unread") /\ Same9
    \/ n = 2 /\ Step("counters") /\ Counters!Poll("pending") /\ Same9
    \/ n = 3 /\ Step("counters") /\ Counters!MarkAllRead /\ Same9
TimersFire == \A n \in 1 .. 3 : SF_vars(Fires(n))

-----------------------------------------------------------------------------
(* Each page's state is what its module says; with that, what the proofs   *)
(* of OneCallAtATime, AnswersTheirCalls and ShowsWhatItNames rest on.      *)
TypeOK ==
    /\ CallsInv
    /\ On("shared") => RecShared!TypeOK
    /\ On("cells") => RecCells!TypeOK
    /\ On("typing") => RecTyping!TypeOK
    /\ On("lossy") => RecLossy!TypeOK
    /\ On("grid") => Grid!GridTypeOK
    /\ On("drawer") => Drawer!TypeOK
    /\ On("drawerSaves") => DrawerSaves!TypeOK
    /\ On("board") => Board!TypeOK
    /\ On("form") => Form!TypeOK
    /\ On("picker") => Pick!TypeOK
    /\ On("pager") => Pages!TypeOK
    /\ On("receipts") => Tx!TypeOK
    /\ On("orders") => List!TypeOK
    /\ On("cancel") => Cancel!TypeOK
    /\ On("order") => OrderPage!TypeOK
    /\ On("orderRacing") => OrderRacing!TypeOK
    /\ On("sync") => Sync!TypeOK
    /\ On("sources") => Sources!TypeOK
    /\ On("history") => History!TypeOK
    /\ On("imports") => Imports!TypeOK
    /\ On("reports") => Reports!TypeOK
    /\ On("filter") => Filter!TypeOK
    /\ On("exports") => Exp!TypeOK
    /\ On("exportTwice") => ExpTwice!TypeOK
    /\ On("counters") => Counters!TypeOK
    /\ On("login") => Login!TypeOK
    /\ On("custom") => DatesCustom!TypeOK
    /\ On("masters") => Masters!TypeOK
    /\ On("mastersRacing") => MastersRacing!TypeOK
    /\ On("mastersLossy") => MastersLossy!TypeOK
    /\ On("audit") => Audit!TypeOK
    /\ On("auditRacing") => AuditRacing!TypeOK

(* Figures agree with what they stand for: periods with the sheet that is  *)
(* signed and exported, the board with its filters and ranges, the pager   *)
(* and the export with the rows, weeks with days, the tables of users and  *)
(* warehouses and the audit log with the server, once a page is quiet.     *)
FiguresFollow ==
    /\ On("grid") =>
          /\ Grid!PeriodsTile /\ Grid!ShortIsReachable /\ Grid!ReadyWhenNothingOutstanding
          /\ Grid!PeriodsAddUp /\ Grid!SignedIsExported
    /\ On("board") => Board!BoardFollowsFilters /\ Board!NamedIsRange
    /\ On("boardNew") => BoardNew!BoardFollowsFilters
    /\ On("receipts") => Tx!PagerFollows
    /\ On("receiptsInOrder") => TxOrdered!NotStrandedInOrder /\ TxOrdered!ExportCovers
    /\ On("orders") => List!RowsOfPage
    /\ On("ordersInOrder") => ListOrdered!NotStrandedInOrder /\ ListOrdered!ExportCovers
    /\ On("pager") => Pages!WindowShows /\ Pages!ButtonsLead
    /\ On("filter") => Filter!RangesFit
    /\ On("exports") => Exp!QuietWhenSettled
    /\ On("exportTwice") => ExpTwice!QuietWhenSettled
    /\ On("dates") => Dates!PagesAgree /\ Dates!WeeksAreWeeks
    /\ On("custom") => DatesCustom!CustomIsWhole
    /\ On("masters") => Masters!InStep
    /\ On("mastersRacing") => MastersRacing!TablesFollow
    /\ On("mastersLossy") => MastersLossy!TablesFollow
    /\ On("audit") => Audit!ListIsComplete

(* No page is left waiting: every button that was disabled is enabled      *)
(* again and every panel finds its way back, whatever is refused or lost.  *)
Held(n) ==
    \/ On("drawerSaves") /\ n =< 3 /\ DrawerSaves!SaveHeld(<<"add", "edit", "ext">>[n])
    \/ On("order") /\ OrderPage!Held(<<"new", "line", "close", "erp">>[n])
    \/ n = 1 /\
       \/ On("lossyOnce") /\ RecLossyOnce!CancelHeld
       \/ On("form") /\ Form!SaveHeld
       \/ On("cancel") /\ Cancel!CancelHeld
       \/ On("syncOnce") /\ SyncOnce!Disabled
       \/ On("imports") /\ ~Imports!Way
       \/ On("reports") /\ Reports!Loading
       \/ On("login") /\ Login!SigningIn
ControlsComeBack == \A n \in 1 .. 4 : Held(n) ~> ~Held(n)

(* What is shown catches up with the server: an export that has ended, or  *)
(* was grabbed, is listed so; the banner of a run goes with it; and the    *)
(* counters become the server's.                                           *)
Rests == On("history") => History!Resting
Agrees == (On("history") => History!BannerDown) /\ (On("counters") => Counters!InStep)
Unseen == On("exportTwice") /\ ExpTwice!EndedUnseen("e1")
Caught == On("exportTwice") => ExpTwice!Caught("e1")
Grabbed == On("exportTwice") /\ ExpTwice!GrabbedHere("e1")
Drifted == On("exportTwice") => ExpTwice!Drifted("e1")
ShownCatchesUp ==
    TimersFire => (Unseen ~> Caught) /\ (Grabbed ~> Drifted) /\ (<>[]Rests => <>[]Agrees)
=============================================================================
