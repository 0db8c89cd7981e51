----------------------------- MODULE PageCalls ------------------------------
(***************************************************************************)
(* The pages whose calls overlap: what is proved of them, for every value  *)
(* of the constants.  A page shares no state with another: what they have  *)
(* in common is the server, which each module has the part of that its     *)
(* page sees.  So a behaviour has one of them open, the scene, and m1 ..   *)
(* m15 are its variables; what it does not need stays 0.                   *)
(***************************************************************************)
EXTENDS Integers, Sequences

CONSTANTS
    Scene,     \* those of the run
    None, Recurring,
    Few, More, Most, \* the bounds: calls, clicks, polls, losses
    Item, Items, Hours, Plan, Plans, PoCap, Markable, \* receiving: one item, or several
    Pull, Pulls, Line, Owner, Initial, Received, Qty, \* pulls, the lines of their drawer
    Entry, Place, First, Linking, Pieces, \* a drawer that is looked around in
    MaxButtons, PageSizes, MaxTotal, \* the pagination control
    Receipt, Workbook, Job, Account, House, Me,
    Orders, Houses, Typing, Stub, \* orders, warehouses and the texts that find a pull
    Person, Assigned, Demo, Registry, \* users, their warehouses, the ERP sources
    Logged, Old, Act, Kind, Finds, Holds, Recent \* rows of the audit log

VARIABLES scene, m1, m2, m3, m4, m5, m6, m7, m8, m9, m10, m11, m12, m13, m14, m15

vars == <<scene, m1, m2, m3, m4, m5, m6, m7, m8, m9, m10, m11, m12, m13, m14, m15>>

-----------------------------------------------------------------------------
(* The receiving page: a row that may be canceled, with another user; two  *)
(* cells; requests and answers that get lost.                              *)
RecShared == INSTANCE ReceivingPage WITH
    Item <- Item, Hour <- Hours, Expected <- Plan, PoCap <- PoCap, HourCap <- FALSE,
    Typed <- {}, CanReopen <- TRUE, Lossy <- FALSE, Markable <- Markable, MaxPost <- Few,
    MaxLook <- Few, MaxOther <- Few, server <- m1, grid <- m2, canceled <- m3, closed <- m4,
    modal <- m5, panel <- m6, journal <- m7, drawer <- m8, dialog <- m9, sign <- m10, net <- m11,
    posts <- m12, looks <- m13, others <- m14, held <- m15
RecCells == INSTANCE ReceivingPage WITH
    Item <- Items, Hour <- Hours, Expected <- Plans, PoCap <- Few,
    HourCap <- FALSE, Typed <- {}, CanReopen <- FALSE, Lossy <- FALSE, Markable <- {},
    MaxPost <- More, MaxLook <- Few, MaxOther <- 0, server <- m1, grid <- m2, canceled <- m3,
    closed <- m4, modal <- m5, panel <- m6, journal <- m7, drawer <- m8, dialog <- m9,
    sign <- m10, net <- m11, posts <- m12, looks <- m13, others <- m14, held <- m15
RecLossy == INSTANCE ReceivingPage WITH
    Item <- Item, Hour <- Hours, Expected <- Plan, PoCap <- PoCap, HourCap <- FALSE,
    Typed <- {}, CanReopen <- FALSE, Lossy <- TRUE, Markable <- {}, MaxPost <- More,
    MaxLook <- Few, MaxOther <- 0, server <- m1, grid <- m2, canceled <- m3, closed <- m4, modal <- m5,
    panel <- m6, journal <- m7, drawer <- m8, dialog <- m9, sign <- m10, net <- m11,
    posts <- m12, looks <- m13, others <- m14, held <- m15

(* The items of a drawer, saved more than once, with answers that get lost.*)
DrawerSaves == INSTANCE PullDrawer WITH
    Pull <- Pull, Item <- Line, Owner <- Owner, Initial <- Initial,
    Linking <- {}, Qty <- Qty, Lossy <- TRUE, MaxSend <- More, MaxLook <- More, Hour <- Hours,
    Received <- Received, NoPull <- None, NoItem <- None, server <- m1, pulls <- m2, selected <- m3,
    drawn <- m4, items <- m5, itemsFor <- m6, editing <- m7, modal <- m8, busy <- m9, net <- m10,
    sends <- m11, looks <- m12, held <- m13

(* The drawer and its modals, opened on one item after another.            *)
Drawer == INSTANCE PullDrawer WITH
    Pull <- Pulls, Item <- Entry, Owner <- Place, Initial <- First, Linking <- Linking,
    Qty <- Pieces, Lossy <- FALSE, MaxSend <- Few, MaxLook <- Most, Hour <- Hours,
    Received <- Received, NoPull <- None, NoItem <- None, server <- m1, pulls <- m2,
    selected <- m3, drawn <- m4, items <- m5, itemsFor <- m6, editing <- m7, modal <- m8,
    busy <- m9, net <- m10, sends <- m11, looks <- m12, held <- m13

(* The dialog that creates and edits pulls.                                *)
Form == INSTANCE PullForm WITH
    Pull <- Pulls, Lossy <- TRUE, MaxOpen <- More, MaxSave <- More, NoPull <- None,
    header <- m1, drawer <- m2, cache <- m3, mode <- m4, editing <- m5, form <- m6, open <- m7,
    enabled <- m8, net <- m9, opens <- m10, saves <- m11

(* The pages of a list.                                                    *)
Pages == INSTANCE Pager WITH
    MaxButtons <- MaxButtons, PageSizes <- PageSizes, MaxTotal <- MaxTotal, page <- m1,
    size <- m2, total <- m3, rendered <- m4, asked <- m5

(* Receipts and calls lost.                                                *)
Cancel == INSTANCE TxCancel WITH
    Receipt <- Receipt, None <- None, MaxLost <- More, reversals <- m1, rows <- m2,
    shown <- m3, target <- m4, disabled <- m5, post <- m6, list <- m7, lost <- m8

(* Jobs of the ERP sync.                                                   *)
Sync == INSTANCE SyncDialog WITH
    Job <- Job, MaxClick <- More, MaxTries <- Few, Lossy <- TRUE, None <- None,
    Recurring <- Recurring, jobs <- m1, holder <- m2, ran <- m3, open <- m4, busy <- m5,
    status <- m6, timers <- m7, pollTimer <- m8, toasted <- m9, net <- m10, clicks <- m11

(* Workbooks, and the polls of their runs.                                 *)
Imports == INSTANCE ImportsPage WITH
    Run <- Workbook, MaxAttempts <- More, MaxRefused <- Few, Lossy <- TRUE, None <- None, runs <- m1,
    panels <- m2, confirm <- m3, dialog <- m4, current <- m5, body <- m6, net <- m7, loops <- m8,
    refused <- m9

(* Two handlers at once.                                                   *)
MastersRacing == INSTANCE MastersPage WITH
    User <- Account, House <- House, Me <- Me, Stocked <- {}, NewUser <- None,
    NewHouse <- None, None <- None, Patient <- FALSE, MaxRun <- More, MaxOther <- 0, MaxLost <- 0,
    db <- m1, known <- m2, table <- m3, form <- m4, confirm <- m5, sent <- m6, runs <- m7,
    started <- m8, others <- m9, lost <- m10

(* Orders; a user who waits for the answers and one who does not.          *)
OrderPage == INSTANCE PoPage WITH
    PO <- Orders, None <- None, Saving <- TRUE, Patient <- TRUE, MaxCall <- Few,
    MaxLost <- Few, exists <- m1, closed <- m2, lined <- m3, head <- m4, view <- m5, form <- m6,
    table <- m7, detail <- m8, saveOn <- m9, modal <- m10, busy <- m11, toast <- m12, net <- m13,
    lost <- m14
OrderRacing == INSTANCE PoPage WITH
    PO <- Pull, None <- None, Saving <- FALSE, Patient <- FALSE, MaxCall <- More, MaxLost <- 0,
    exists <- m1, closed <- m2, lined <- m3, head <- m4, view <- m5, form <- m6, table <- m7,
    detail <- m8, saveOn <- m9, modal <- m10, busy <- m11, toast <- m12, net <- m13, lost <- m14

(* Warehouses, texts, lookups under way, none of them twice for one text.  *)
Pick == INSTANCE PullPicker WITH
    Warehouse <- Houses, Text <- Typing, Short <- Stub, None <- None,
    Shortening <- TRUE, Retyping <- FALSE, MaxItems <- More, MaxNet <- More, MaxLost <- Few,
    warehouse <- m1, text <- m2, debounce <- m3, lastQuery <- m4, items <- m5, highlighted <- m6,
    visible <- m7, chosen <- m8, net <- m9, lost <- m10
PickTyped == INSTANCE PullPicker WITH
    Warehouse <- Houses, Text <- Typing, Short <- Stub, None <- None,
    Shortening <- FALSE, Retyping <- FALSE, MaxItems <- More, MaxNet <- More, MaxLost <- 0,
    warehouse <- m1, text <- m2, debounce <- m3, lastQuery <- m4, items <- m5, highlighted <- m6,
    visible <- m7, chosen <- m8, net <- m9, lost <- m10

(* Closed pulls, previewed one after another.                              *)
Reports == INSTANCE ReportsPage WITH
    Pull <- Pulls, MaxLoad <- Most, Lossy <- TRUE, None <- None, selected <- m1, type <- m2,
    title <- m3, body <- m4, enabled <- m5, net <- m6, loads <- m7

(* Users who sign in.                                                      *)
Login == INSTANCE LoginPage WITH
    User <- Person, Warehouse <- Houses, Assigned <- Assigned, Demo <- Demo, MaxLookup <- More,
    MaxLost <- Few, None <- None, username <- m1, debounce <- m2, token <- m3, options <- m4,
    chosen <- m5, button <- m6, session <- m7, lookups <- m8, post <- m9, lost <- m10

(* The sources of the ERP.                                                 *)
Sources == INSTANCE SourceList WITH
    Registry <- Registry, MaxOpen <- Most, All <- None, config <- m1, open <- m2,
    options <- m3, value <- m4, label <- m5, posted <- m6, net <- m7, opens <- m8

(* The audit log, with answers that overtake each other.                   *)
AuditRacing == INSTANCE AuditTab WITH
    Row <- Logged, Written <- Old, Action <- Act, Kind <- Kind, Finds <- Finds, Holds <- Holds,
    Recent <- Recent, Take <- More, InOrder <- FALSE, MaxLoad <- More, MaxLost <- Few,
    All <- None, log <- m1, search <- m2, action <- m3, recent <- m4, tab <- m5, debounce <- m6,
    rows <- m7, shown <- m8, writing <- m9, net <- m10, lost <- m11

ASSUME CallsFit ==
    /\ RecShared!PageAssumption /\ RecCells!PageAssumption
    /\ RecLossy!PageAssumption /\ DrawerSaves!DrawerAssumption
    /\ Form!FormAssumption /\ Pages!PagerAssumption
    /\ Cancel!TxCancelAssumption /\ Sync!DialogAssumption
    /\ Imports!ImportsAssumption /\ MastersRacing!MastersAssumption
    /\ Drawer!DrawerAssumption /\ OrderPage!PoPageAssumption /\ OrderRacing!PoPageAssumption
    /\ Pick!PullPickerAssumption /\ PickTyped!PullPickerAssumption
    /\ Reports!ReportsAssumption /\ Login!LoginAssumption /\ Sources!ListAssumption
    /\ AuditRacing!AuditAssumption

-----------------------------------------------------------------------------
(* The variables a page does not need.                                     *)
Zero15 == m15 = 0
Zero14 == m14 = 0 /\ Zero15
Zero13 == m13 = 0 /\ Zero14
Zero12 == m12 = 0 /\ Zero13
Zero11 == m11 = 0 /\ Zero12
Zero10 == m10 = 0 /\ Zero11
Zero9 == m9 = 0 /\ Zero10
Zero8 == m8 = 0 /\ Zero9
Zero7 == m7 = 0 /\ Zero8
Zero6 == m6 = 0 /\ Zero7
Same15 == UNCHANGED m15
Same14 == UNCHANGED m14 /\ Same15
Same13 == UNCHANGED m13 /\ Same14
Same12 == UNCHANGED m12 /\ Same13
Same11 == UNCHANGED m11 /\ Same12
Same10 == UNCHANGED m10 /\ Same11
Same9 == UNCHANGED m9 /\ Same10
Same8 == UNCHANGED m8 /\ Same9
Same7 == UNCHANGED m7 /\ Same8
Same6 == UNCHANGED m6 /\ Same7

On(s) == scene = s
Step(s) == scene = s /\ UNCHANGED scene

CallsInit ==
    /\ scene \in Scene
    /\ \/ On("shared") /\ RecShared!Init
       \/ On("cells") /\ RecCells!Init
       \/ On("lossy") /\ RecLossy!Init
       \/ On("drawerSaves") /\ DrawerSaves!Init /\ Zero14
       \/ On("form") /\ Form!Init /\ Zero12
       \/ On("pager") /\ Pages!Init /\ Zero6
       \/ On("cancel") /\ Cancel!Init /\ Zero9
       \/ On("sync") /\ Sync!Init /\ Zero12
       \/ On("imports") /\ Imports!Init /\ Zero10
       \/ On("mastersRacing") /\ MastersRacing!Init /\ Zero11
       \/ On("drawer") /\ Drawer!Init /\ Zero14
       \/ On("order") /\ OrderPage!Init /\ Zero15
       \/ On("orderRacing") /\ OrderRacing!Init /\ Zero15
       \/ On("picker") /\ Pick!Init /\ Zero11
       \/ On("typed") /\ PickTyped!Init /\ Zero11
       \/ On("reports") /\ Reports!Init /\ Zero8
       \/ On("login") /\ Login!Init /\ Zero11
       \/ On("sources") /\ Sources!Init /\ Zero9
       \/ On("auditRacing") /\ AuditRacing!Init /\ Zero12

CallsNext ==
    \/ Step("shared") /\ RecShared!Next
    \/ Step("cells") /\ RecCells!Next
    \/ Step("lossy") /\ RecLossy!Next
    \/ Step("drawerSaves") /\ DrawerSaves!Next /\ Same14
    \/ Step("form") /\ Form!Next /\ Same12
    \/ Step("pager") /\ Pages!Next /\ Same6
    \/ Step("cancel") /\ Cancel!Next /\ Same9
    \/ Step("sync") /\ Sync!Next /\ Same12
    \/ Step("imports") /\ Imports!Next /\ Same10
    \/ Step("mastersRacing") /\ MastersRacing!Next /\ Same11
    \/ Step("drawer") /\ Drawer!Next /\ Same14
    \/ Step("order") /\ OrderPage!Next /\ Same15
    \/ Step("orderRacing") /\ OrderRacing!Next /\ Same15
    \/ Step("picker") /\ Pick!Next /\ Same11
    \/ Step("typed") /\ PickTyped!Next /\ Same11
    \/ Step("reports") /\ Reports!Next /\ Same8
    \/ Step("login") /\ Login!Next /\ Same11
    \/ Step("sources") /\ Sources!Next /\ Same9
    \/ Step("auditRacing") /\ AuditRacing!Next /\ Same12

Calls == CallsInit /\ [][CallsNext]_vars

-----------------------------------------------------------------------------
(* Over dialogs left and opened again: a cancel and a save are under way   *)
(* once, their buttons disabled exactly meanwhile; a run is confirmed and  *)
(* a receipt reversed once; a deletion asked for once is sent once.  The   *)
(* buttons of a receipt and of a sync, which other requests set as well,   *)
(* are not disabled without something under way or a refusal on display.   *)
OneCallAtATime ==
    /\ On("lossy") => RecLossy!OneCancelAtATime /\ RecLossy!ConfirmNeverStuck
    /\ On("drawerSaves") => DrawerSaves!ButtonHeldByItsSave
    /\ On("form") => Form!OneSaveAtATime
    /\ On("imports") => Imports!ConfirmedOnce
    /\ On("cancel") => Cancel!ReversedOnce
    /\ On("sync") => Sync!BusyMeansPending
    /\ On("mastersRacing") => MastersRacing!DeletesAsAsked

(* An answer changes what its request was about and nothing else: the cell *)
(* it was sent for, the receipt that was shown, the sheet it closed, the   *)
(* page that was clicked.                                                  *)
AnswersItsCall ==
    /\ On("cells") => RecCells!ChangesItsCell
    /\ On("shared") => RecShared!ClosesByAnswer
    /\ On("cancel") => Cancel!PostsShown
    /\ On("pager") => Pages!Moves
AnswersTheirCalls == [][AnswersItsCall]_vars

(* What a page shows is of what it names, in whatever order answers come:  *)
(* quantities and totals the server has had, windows of the item in the    *)
(* title, the form of the order that is open, the warehouses of the user   *)
(* typed, the source that is posted, the outcome there was, audit rows     *)
(* with the text searched.                                                 *)
ShowsWhatItNames ==
    /\ On("shared") => RecShared!GridFromServer
    /\ On("drawer") => Drawer!WindowsOfItsItem /\ Drawer!TotalsFromServer
    /\ On("order") => OrderPage!FormIsDetail /\ OrderPage!HeadIsItsOwn /\ OrderPage!DeletedIsDeleted
    /\ On("orderRacing") => OrderRacing!FormIsDetail /\ OrderRacing!ClosedIsDisabled
    /\ On("cancel") => Cancel!ModalHasTarget
    /\ On("picker") => Pick!ShowsLastQuery /\ Pick!PickerScoped
    /\ On("typed") => PickTyped!ListedIsTyped
    /\ On("reports") => Reports!TitleNamesSelected
    /\ On("login") => Login!OptionsFollow /\ Login!SessionAssigned
    /\ On("sources") => Sources!LabelTellsPosted
    /\ On("sync") => Sync!ReportedSucceeded
    /\ On("auditRacing") => AuditRacing!ShownHolds

(* The three as every step of a page keeps them.                           *)
CallsInv ==
    /\ On("shared") => RecShared!GridInv
    /\ On("cells") => DOMAIN m2 = RecCells!Cell
    /\ On("lossy") => RecLossy!BothInv
    /\ On("drawerSaves") => DrawerSaves!HeldInv
    /\ On("form") => Form!SavingInv
    /\ On("pager") => Pages!RenderedInv
    /\ On("cancel") => Cancel!CancelInv
    /\ On("sync") => Sync!PendingInv /\ Sync!ReportInv
    /\ On("imports") => Imports!ConfirmInv
    /\ On("mastersRacing") => MastersRacing!AskedInv
    /\ On("drawer") => Drawer!ShownInv
    /\ On("order") => OrderPage!ShowsInv
    /\ On("orderRacing") => OrderRacing!ShowsInv
    /\ On("picker") => Pick!ListInv
    /\ On("typed") => PickTyped!ListInv
    /\ On("reports") => Reports!TitleNamesSelected
    /\ On("login") => Login!FollowInv
    /\ On("sources") => Sources!LabelTellsPosted
    /\ On("auditRacing") => AuditRacing!HoldsInv
=============================================================================
