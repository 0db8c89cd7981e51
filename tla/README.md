# ReceivingOps: a formal model

TLA+ models of ReceivingOps (an ASP.NET Core 8 application over SQL Server, with
Hangfire for background jobs and plain JavaScript pages): its receiving core,
its background jobs, the transactions on the receiving tables statement by
statement, and its pages. With them are the TLC runs that check them on small
instances, and the theorems TLAPS proves for every instance: of the receiving
core, the import, the background jobs, the transactions, and the calls of the
pages.

## The system

A warehouse plans **pulls**: a pull has items, an item has hour windows, a
window has an expected quantity. Procurement enters **purchase orders** with
lines. A **receive** books pieces of an item into a window and draws them, oldest
order first, from the open PO lines with that item code; a **cancel** writes a
reversal. The `Receipts` table is an append-only ledger; the quantities on PO
lines and windows are caches of it. An ERP plans pulls of its own, which a sync
brings in; lists are exported as workbooks and mailed.

| component | state | operations | what is hard | what makes it correct |
|---|---|---|---|---|
| receipt ledger (`ReceiptService`) | `Receipts`, the two cached quantities, PO and pull status | preview, receive, cancel | caches against ledger; FIFO over several lines; auto-close and reopen | caches equal the ledger; no line or locked window is overdrawn; each receipt reversed once; oldest order first |
| pull closing (`CloseService`) | pull status | close, reopen | what may still change a closed pull | a closed pull is complete and frozen |
| pull plan (`PullAdminService`, `PullItemAdminService`) | pulls, items, windows | create, update, delete | edits after receipts exist | no receipt loses its window; caps hold |
| purchase orders (`PurchaseOrderAdminService`) | POs, lines | create, update, close, add and delete line | edits racing receipts; a manual close against the automatic one | no receipt loses its line |
| concurrent transactions | row and range locks | the statements of the services above | lock order, reads without locks, deadlock victims | the ledger balances however statements fall together |
| PO import (`PoImportService`, `PoImportController`, `PoImportJob`) | a log row per upload, a Hangfire job per confirm | upload, validate, confirm, run | enqueue before mark; retries; crash between commit and mark | success means imported; all or nothing |
| exports (`ExportService`, three jobs) | a log row and a file per export | enqueue, run, mail or log the link, download, sweep | retries after the mail is sent, processes that die | a row tells the truth about file and link |
| ERP sync (`ErpSyncJob`, `ErpSyncMutex`) | a mutex, a log row per run | scheduled and manual run | mutex leak, overlap, partial failure | one run at a time; succeeded means every source was gone through |
| ERP upsert (`ErpUpsertService`, `BpiPrsSource`) | pulls, items, windows | draft, insert, update, skip | revisions while pieces are received | no plan below what came; signed pulls untouched |
| pages (`wwwroot/js`) | copies of server state, dialogs, timers | every handler and the answers to its requests | answers out of order, lost, or for what is no longer shown | one call at a time; what is shown is of what it names; no control stays disabled |
| application settings (`Services/Config`) | a table of keys over files and environment | seed and migrate at every start, save, clear, reset | starts and requests that die between two rows | what was saved stands; a start changes no value |
| masters, audit | single rows | create, update, delete, assign | the page above them | tables show what there is; a deletion is sent once |
| readers, report builders | none of their own | queries, layout | nothing a model checker reaches | - |

Services interact through the database: the receipt ledger, the plan and the PO
services write the same five tables (`Pulls`, `PullItems`, `PullItemWindows`,
`PurchaseOrders`, `PurchaseOrderLines`) plus `Receipts`; the import inserts POs;
the ERP upsert inserts and edits pulls. Background work goes through Hangfire
queues (two workers), requests through controllers that check role and warehouse
access. A page has only requests and answers, and shares nothing with another page
but the server. `PROJECT.json` lists the components with their status, and under
`hazards` the places where the code is hard to test, each with the properties
that watch it.

## Modules

| module | models | rests on |
|---|---|---|
| `Totals` | SUM over finite sets, as a count of pieces, with the lemmas on it | - |
| `Receiving` | every state-changing operation of the receipt, close, plan and PO services and the import's insert | `Totals` |
| `ReceiveWalk` | the allocation loop of preview and receive, an iteration per step | `Receiving` |
| `ReceiveLocks` | receive, cancel and PO administration statement by statement under locks | `Totals` |
| `PoImport` | upload, confirm, Hangfire job, log row, with faults | - |
| `ErpSyncRun` | the sync job, its mutex, its row, Hangfire around it | - |
| `ErpUpsert` | a source's draft of a pull and the upsert of it | - |
| `ExportLife` | what the log of exports promises its readers (abstract) | - |
| `Exports` | request, job, link, file and row of an export; implements `ExportLife` | - |
| `AppSettings` | the settings table, the seeder, the migrator, the configuration requests | - |
| `ReceivingPage`, `ReceivingGrid` | `receiving.js`: its requests; what it computes from the sheet | - |
| `PullBoard`, `PullDrawer`, `PullForm` | `dashboard.js`: board, drawer, dialog of a pull | - |
| `SyncDialog`, `SourceList`, `SyncHistory` | the dialog that starts a sync, its list of sources, the page of runs | - |
| `ImportsPage` | `imports.js` | - |
| `ReportsPage`, `ReportsFilter` | `reports.js`: preview pane; filters | - |
| `ExportsPage`, `ExportCounters` | `exports.js` and the badge; the log behind it does what `ExportLife` allows | `ExportLife` |
| `LoginPage` | `login.js` with `AuthService.LoginAsync` | - |
| `TxPage`, `TxCancel` | `transactions.js`: list; cancel dialog | - |
| `PoList`, `PoPage`, `PullPicker` | `pos.js`: list; one order and its dialogs; picker | - |
| `MastersPage`, `AuditTab` | `masters.js` and `MastersService`: users, warehouses, assignments; the audit log | - |
| `Pager`, `DateRanges` | the pagination control; the named ranges of three pages | - |
| `PageCalls` | the pages whose calls overlap, with constants for their instances | fourteen pages |
| `MCReceiving`, `MCReceiveWalk`, `MCPoImport` | small instances for TLC | the above |
| `MCServer` | small instances of the jobs and transactions; of the exports any instance | the above, `ExportLife` |
| `MCPages` | values for the constants of `PageCalls`, small instances of all other pages | `PageCalls`, the pages |
| `ReceivingProofs` | theorems about the receiving core and its allocation loop | `ReceiveWalk` |
| `PoImportProofs` | theorems about the import | `PoImport` |
| `ErpSyncProofs`, `UpsertProofs` | theorems about the sync job and the upsert | `ErpSyncRun`; `ErpUpsert` |
| `LocksProofs` | theorems about concurrent transactions | `ReceiveLocks` |
| `ServerProofs` | the properties of the run `server` as theorems; exports and their refinement; the settings | `MCServer` and the proof modules it instantiates |
| `PagesProofs` | theorems about the calls of the pages and what they show | `PageCalls` |

### Scenes

A page shares no variable with another, nor does a background job with another,
so the product of two of them would only multiply states. `MCServer` and
`MCPages` instantiate each module once for every choice of its constants and let
a behaviour have one instance, its **scene**: the constant `Scene` of a
configuration is the set of scenes of the run, the variable `scene` says which
one a behaviour has, and `m1`, `m2`, ... are the variables of its module in the
order the module declares them. A property of a run is a conjunction with one
part for each module it concerns, and every part is a named definition of that
module with its own comment. The composition that does exist is stated as well:
`Exports` and `ExportsPage` meet in `ExportLife`, which the first implements and
the second takes as its server.

A scene that is proved about as a whole takes constants for its constants: the
exports of `MCServer` (`Export`, `MaxRetry`, `MaxCrash`), and the nineteen scenes of
`PageCalls`, to which `MCPages.cfg` gives values and about which `PagesProofs`
speaks for every value. `MCPages` extends `PageCalls`: its initial states and its
steps are those of `PageCalls` or of its other scenes, and as the scene of a
behaviour never changes, a behaviour in one of the
nineteen is a behaviour of `Calls`.

### Receiving: state and actions against the code

`pull`, `item`, `expected`, `received`, `po`, `poDate`, `ordered`, `consumed`
are columns of the tables named beside them in the module; `"none"` or 0 stands
for a row that does not exist. `receipts` is the ledger with its rows as records,
`voidedBy` its one updatable column (`ReversedById`). `forfeited` stands for what
the audit trail knows and the tables do not: which POs were last closed by hand.
It is read by properties only. Columns fixed at insert (warehouse, codes, numbers,
the strictness flags of a pull, the PO's pull link) are constants, and
descriptive columns are left out.

Every service method runs in one transaction that locks the rows it decides on,
so an action is a whole method: its guards are the method's early refusals, and a
refused request is no action. Details that are easy to miss and are in the model:

- the window row must exist even on pulls without `LockHourCap`, because the
  response reads it back in the transaction with a query that demands a row;
- the status CASE after a receive prefers `fully_received` over `in_progress`,
  never demotes, and looks at non-canceled items only;
- a cancel gives the pieces back to the line they came from, reopens its PO
  whoever closed it and demotes a fully received pull;
- `DeleteLine` and `DeleteItem` look for any receipt at all, reversals included,
  while the window guards look at the cached quantity;
- a PO entered by hand must name an open pull of its warehouse, an imported one
  names a pull number nobody looks up.

`Take(C, q, l)`, what a receive for `q` takes from line `l` of the candidates
`C`, is a closed form: what the lines ahead leave of `q`, up to the line's own
remainder. `ReceiveWalk` runs the loop of the code beside it and shows that the
loop's plan is this closed form.

### ReceiveLocks: the same operations, statement by statement

`Receiving` takes a transaction as one step. `ReceiveLocks` is what that rests
on: `tx` holds for each connection its operation, the next statement and the plan
it has made; `owner` and `exclusive` are the locks. The isolation level is SQL
Server's default, READ COMMITTED with locks (the repository never sets another
one and does not turn snapshots on): `UPDLOCK` and writes are held to the end, a
plain read waits for writers and keeps nothing, `HOLDLOCK` on the candidate lines
is a lock on the range of the item, which an insert of such a line waits for.
When transactions wait in a circle the database picks a victim, whose request
fails. Operations that touch one pull only serialise on its row and are left to
`Receiving`.

### PoImport: state and actions against the code

`status` is `PoImportLog.Status`, `owner` says which import inserted a PO number.
`confirm` and `job` are program counters: a confirm request reads, enqueues,
marks; a job reads, marks running, inserts (one transaction), marks succeeded,
writes the audit row, or goes through the catch block and back to Hangfire. Each
SQL statement outside the insert is an action of its own, so requests and jobs
interleave between them. Faults (bounded by `MaxFaults`) are a client that
disconnects, a statement that fails at any point of the job, and a crash of the
process, which drops requests and makes Hangfire hand running jobs out again.
Hangfire itself is external and modelled from how the code uses it: one job at a
time under `DisableConcurrentExecution`, re-queueing after an exception up to the
retry limit, re-delivery after a crash.

### ErpSyncRun, ErpUpsert, Exports

`ErpSyncRun`: `jobs` and the lock per method are Hangfire's, `mutex` is
`ErpSyncMutex`, `at` the statement each worker is at, `rows` the log. The cron and
the endpoint enqueue; a job takes the mutex or is skipped, inserts its row (which
is outside the `try` block), applies one source after the other, marks the row,
and gives the mutex back in `finally`. Any statement may throw and the process
may die, after which the mutex is free again, being in memory.

`ErpUpsert`: `erp` is what the ERP holds of one pull, `Draft` what the transform
makes of the rows of the last days (an hour that is missing becomes the default
hour, rows of one hour are added). `UpdatePull` is the upsert transaction as one
step: new items and windows, quantities raised to what was received at least,
items the draft lacks canceled; a signed pull is skipped. Beside it the ERP
revises, days pass, and operators receive, cancel, close, reopen and edit.

`Exports`: the row is inserted, then the job is enqueued; the job marks it
running, writes the file, hands the link to the mail service, marks it succeeded,
and Hangfire learns last that it is over. `smtp` is whether the process that runs
has SMTP settings: without them `MailKitEmailService.SendAsync` logs the link and
returns, and the job succeeds all the same, so `told` has where each link has been
put. The job is tried again after an exception, and run again from its start after
its process died, wherever that was, with the settings of the next one. The host
sweeps old workbooks away. The statements on the row may fail as well: `unwritten`
has the exports whose last one did, which only the properties read.

In `ErpSyncRun` a source is *applied* when the run has gone through it:
`UpsertAsync` catches what goes wrong with a single pull, counts it and goes on, so
a run that succeeded may have pulls that failed.

### AppSettings

`row` is `dbo.AppSettings` (a cleared key keeps its row), `file` and `env` are what
`IConfiguration` reads, and `Reads` is the precedence of `GetAsync`. `pc` and `todo`
follow a start through seeder and migrator, one row per action, `request` an
admin's save, clear or reset, one key per action. A start or a request may die
after any row, a statement may fail, and while the process is down a release may
change a file or the environment. The earlier release's table with its flat keys
is one of the tables a behaviour begins with.

### The pages

All have one shape. What the browser holds is a variable named like the code's
(`currentDetail`, `cancelTarget`, `refreshTimer`, ...); what the server holds of it
is one more. A request is a record in `net` with what it asked; the server serves
it in one action and the page takes the answer in another, which is the code after
the `await`, so that clicks, timers, other answers and other users come in
between. Sequence numbers and tokens, where the code has them, are modelled where
the code compares them. `Lossy`, or a bound on losses, lets a request be refused
or an answer not come; an exception then runs the handler's `catch` and `finally`. A
server of a page is the code behind its endpoint cut down to what the page can tell
apart (`map` names it); where it may refuse for what no page variable holds, it may
refuse at any time (`LoginPage.ServePost`, the receipts on a line in `PoPage`).
Texts, layout, theme and toasts are left out, unless a toast reports an outcome.

## Runs

| run | question | result |
|---|---|---|
| `receiving` | do the ledger, caches, caps, statuses and FIFO order hold under every order of operations? | holds |
| `fifo_walk` | is the loop's plan the closed form, and does it always end with nothing wanted? | holds |
| `po_import` | does a finished import tell the truth, and does every job end? | holds |
| `server` | are the jobs and the transactions right whatever fails, dies or runs beside them? | holds |
| `server_live` | does everything begun on the server end, and does the plan catch up with the ERP? | holds |
| `pages` | does a page send one call at a time, and show what it names, whatever order answers come in? | holds |
| `pages_live` | does every control come back, and what is shown catch up? | holds |
| `forfeit_sticks` | does a PO closed by hand stay out of the pool? | violated: a cancel reopens it |
| `failed_is_rolled_back` | has a failed import left nothing behind? | violated: a double confirm overwrites a success |
| `queued_ends` | does a queued import reach a final status? | violated: the job may run before the row is marked |
| `running_ends` | does a running import reach a final status? | violated: the job that is run again after a crash gives up |
| `fifo_query_repeats` | does the FIFO query of a receive keep its answer until the commit? | violated: PO headers are not locked |

The five violated runs check a sentence of the repository's documents, comments or
messages against the code; `findings` quotes it. `running_ends` has one fault, the
others none.

What the properties of the four runs of server and pages say, part by part:

| property | parts |
|---|---|
| `OneSync` | one sync at a time, whatever triggered it; the mutex is taken exactly while one runs; a row that says succeeded had every source gone through; a job is skipped only for one that runs |
| `CapKept` | no plan below what was received; a signed pull is not revised and stays complete until it is reopened |
| `Idempotent` | a second sync of the same rows changes nothing |
| `OperatorsDecide` | no upsert makes a canceled item normal again; no start, whole or cut off, changes a setting that was saved or cleared, nor what a key outside the migration reads as; flat keys reach their successors and are gone |
| `LedgerBalances` | line caches equal the live receipts within what was ordered; no receipt without its line |
| `PlanHolds` | what a receive plans under its locks is what it would plan when it commits, unless a header was edited |
| `NoDeadlock` | receives and cancels of one item never wait in a circle |
| `SucceededIsSent` | succeeded or downloaded means that the workbook was written and the link mailed or logged; the process that marks a row, if it can mail, has mailed; a job that is over has a row that says how; a row says queued while its job waits |
| `ImplementsLife` | the rows of `Exports` implement `ExportLife`, crashes and retries included |
| `WorkEnds` | jobs, transactions and exports that were begun end; what the ERP asks for gets into the plan |
| `OneCallAtATime` | over dialogs left and opened again: one cancel, save, confirmation, reversal; the buttons of cancels and saves are held exactly meanwhile, Confirm of a receipt and the button of a sync never without a reason; a confirmed deletion is sent once |
| `ShowsWhatItNames` | quantities and totals the server has had; windows of the item in the title; the form of the open order; warehouses of the name typed; pulls of the warehouse chosen; the source posted; outcomes there were; audit rows that hold the text |
| `FiguresFollow` | periods tile the day and add up to the sheet that is signed and exported; board, pager, lists and exports agree with their filters; the tables of users and warehouses and the audit log are what the server has; ranges are days and weeks; timers rest only when nothing is in flight |
| `AnswersTheirCalls` | an answer changes the cell it was sent for; a sheet is closed by the answer to a close; a reversal is of the receipt shown; a click leads where the button says |
| `ControlsComeBack` | every disabled button and every panel without one is enabled again |
| `ShownCatchesUp` | an export that ended or was grabbed is listed so; the banner goes with its run; counters become the server's |

### Bounds

- `receiving`: a strict pull (both locks on) and a loose one compete for two POs
  with three lines, one of them for another item code so that a PO is not full
  when its first line is. Window plans of 1 or 3 pieces, orders of 2, receives of 1
  or 3: a receive may fit a line, span two lines, exceed the plan of a loose
  window or be refused. Two dates decide FIFO either way. Three receive/cancel
  calls allow receive-cancel-receive, a split receipt cancelled in either order,
  and two receives on one line. One hour suffices: windows of an item interact
  only through `Outstanding`, which the two pulls and canceled items exercise.
- `fifo_walk`: four lines over three POs in every combination of dates,
  order quantities and earlier receipts, requests of 2 and 5.
- `po_import`: workbooks `{n1, n2}` and `{n2}`, two confirms on any run, one retry
  per job, two faults anywhere.
- `server`: two Hangfire workers (the code's number), two jobs of two attempts, two
  sources, two faults, so that a retry meets a crash and a second job; two items
  with rows on two days, two hours, one row without an hour and two in one window;
  two connections (a circle of two is the shortest) and three or four transactions
  over two POs that share an item; two exports with two attempts, two deaths of the
  process, and statements on the row that fail at any attempt; a section with a
  secret and one with a key that was renamed, two admins with two requests, three faults and a
  release.
  `server_live` has smaller instances of the same, with failures that `server`
  leaves out, and one export with the four attempts of the code.
- `pages`: two of what can be confused (cells, pulls, orders, receipts, exports,
  warehouses, users, texts), two requests that can overtake each other, one or two
  losses (`Few` is 1, `More` is 2, `Most` is 3, for calls, clicks and polls too).
  `DateRanges` has six days across a week's end and an odd day of 23 or 25 hours;
  `Pager` has up to twelve pages, past the seven that fit.
- `pages_live`: the same, one dialog or page at a time. Of the probes behind the
  banner and of each counter two are under way at once, so that an answer overtakes
  the one before it, and one is lost; of the list of exports one is under way, and
  none is lost, as a loss ends its refreshes (see the section on behaviours).

The comment over each instance in `MCServer` and `MCPages` says what it is for.

### Fairness

`receiving` claims no liveness: operators may stop at any time, hence no deadlock
check either. `fifo_walk` is a sequential loop, weakly fair. `po_import` assumes
that Hangfire's two workers keep taking jobs and that a request once begun
continues (weak fairness of a job's next step and of a request's next step), not
that anybody confirms, that faults occur or that lock waits time out.

`server_live` assumes weak fairness of Hangfire's workers, of each connection's
next statement (the database resolves deadlocks, as SQL Server does), of an
export's job, and of the upsert, which a cron starts again and again.

`pages_live` assumes that a request once sent is settled, by an answer or an error:
browsers time out. It assumes that the server goes on with what it began (a job, a
run) and that an interval fires. No user is assumed to do anything. `ShownCatchesUp`
alone has a premise, `TimersFire`, which asks for strong fairness: a poll that is
set again and again is at some time sent while the number of requests under way,
which the model bounds and the browser does not, leaves room for it.

A behaviour may stop: operators need not do anything, bounded requests are used up,
and a loop that has ended is at its end. So no run checks TLC's deadlock; that what
must go on does is said by `NoDeadlock` and the liveness properties.

## Proofs

TLAPS proves every safety invariant, every action property and the refinement of
the runs `receiving`, `fifo_walk`, `po_import` and `server`. What it proves of a
component holds for all values of its constants; what is assumed of them is named
in its module:

| assumption | says |
|---|---|
| `ConstantsAssumption` (`Receiving`) | the UNIQUE keys of the schema, quantities that are positive numbers, finitely many PO lines |
| `ImportAssumption` (`PoImport`) | a workbook has a PO number; the owners are distinct |
| `ErpSyncRunAssumption`, `ErpUpsertAssumption`, `ExportAssumption` | bounds are numbers; hours and quantities are numbers, the default hour is an hour |
| `ReceiveLocksAssumption` | finitely many lines, of numbers; no connection is "nobody" |
| `AppSettingsAssumption` | flat keys are not keys of the page, each has a successor of its own, which no earlier release had |
| `CallsFit` (`PageCalls`) | bounds are numbers, a page has sizes above 0, "none" is no pull, receipt, job, run or record; finitely many jobs and imports; each entry of a drawer has a pull, each user warehouses; audit rows are numbers; a short text is none of the texts |

Three theorems have one hypothesis more, each a case in which the code does not
promise it, and the run has it too: `MutexCorrect` asks that the one statement
outside the `try` block not fail (`~InsertMayFail`), `PlanCorrect` that no header be
edited from outside (`HeadersStay`), `NoDeadlockCorrect` that the lines be of one
item (`OneItem`). The section on behaviours says what happens otherwise.

**Sums.** `Totals` derives how `SumOf` behaves over disjoint sets, one
more or one less element, subsets and renamings from the library's facts on finite
sets: a sum is a number of pieces, so no induction is needed.

**FIFO.** The order of the lines is strict and total (`FifoOrder`), so the pieces
of a line start where those of the lines before it end (`AheadGrows`). Laid end
to end they map one to one into `1..n`, `n` being the whole stock, and an
injection between finite sets of equal size is onto (`FifoPositions`). A receive
for `q` takes the pieces in `1..q`, hence exactly `q` of them: `FifoDrawsAll`,
the reason why a line cache and a window cache can agree. `OldestFirst` follows
from `AheadGrows`. The loop keeps `LoopInv` (the lines passed are the first ones,
`left` is what they could not give), so that each iteration gives a line its `Take`
(`WalkCorrect`).

**The ledger.** That caches balance the ledger is not inductive by itself: deleting
a line or a window resets a cache and re-adding it starts from 0, which is right
only if nothing live is left there, and a cancel takes off the right quantity only
if its receipt is reversed for the first time. `BookInv` carries this: types; ids
come from past calls (`IdsSpent`); `ReversalsPair`; `LiveReceiptsHaveRows`; and each
cache is the sum over the receipts nobody has cancelled (`CachesLive`). `BookPlan`,
`BookOrders`, `BookReceive` and `BookCancel` preserve it. Reversing is a bijection
between the cancelled receipts and the reversals that negates quantities, so the
balance of a line or window is the sum of its live receipts (`NetIsLive`), and both
balances follow.

**The rules.** On `BookInv` rest the capacities (a line that appears is empty; a
slice is no more than what remains), `AutoClosedIsFull` (it needs the capacity after
the step: a filled line holds its order, not more), `PendingIsUntouched` (it needs
that an item's pull exists) and the closed-pull properties, which need the types
alone.

**The import.** `ImportInv` adds to the checked invariants that the lock admits one
job, that a job past its insert has all its POs in the table, that a job inside
`RunAsync` works on a run that was confirmed, and that no other worker can mark a
run between a job's last mark and its audit row.

**The sync.** `OneSync` is about the workers, but what excludes a second sync is the
mutex, and what excludes a second worker on a job is Hangfire's state of it.
`SyncInv` ties the three together: a worker that is past the mutex has it
(`Excludes`), the mutex is taken for somebody or was never given back (`GivenBack`),
a job is running exactly when one worker is at it, and its row says where that worker
is (`Rows`). A crash, which empties all workers at once, keeps it because the mutex
goes with the process.

**The upsert.** `UpsertInv` adds to what the run checks the types and that a pull that
is not there has no items and no pieces (`Untouched`). `CapKept` and `SignedStands`
hold because a quantity is raised to what was received at least, and received only
under the cap; `Idempotent` because a quantity so raised is raised no further by the
same draft. The draft itself is a sum over rows, so it never asks for an item it does
not have (`DraftType`).

**Transactions.** `LocksInv` says of every transaction, statement by statement, which
locks it has and what it knows (`TxOK`): a planned slice is on a line it has locked,
which nobody else can write, and within what remains there; the receipt a cancel has
locked is not voided, and its line is there. So a commit, which adds its slices to the
caches and to the ledger, keeps their sum whoever runs beside it (`LedgerCorrect`,
`ReceiptsCorrect`). `PlanInv` adds for `PlanHolds` that every line of the item is
locked and that a closed PO has no line with anything left (`ClosedIsFull`): then only
a cancel could bring a line into the plan, and it would have to lock it first.
`HoldsInv` says which locks may be held at which statement. From it each transaction
waits only for one further on in the order receipt, pull, lines, headers (`WaitsFor`),
so no set of them waits in a circle, however many there are (`NoCircle`).

**Exports.** `ExportInv` follows the row, the file, the link and the job through an
attempt: who is past the mail service has put the link where its process can, an
ended job has an ended row, and a row has run at most once for each attempt and each
death of the process (`Counted`). What a worker has just written is not swept.
With it every step of `Exports` is a step of `ExportLife` or leaves the row as it is
(`LifeStep`), hence `LifeScene`. When the last statement of an attempt fails the row
keeps what it said before, though the job may be over: `RowTellsJob` excepts the
exports in `unwritten`, and the refinement needs no exception. These proofs are in
`ServerProofs`, about the scene of `MCServer`, whose constants are any.

**The settings.** `SavedStands` is not inductive: the migrator writes over a nested
key without a value, which a cleared one is. It is safe because a nested key can be
cleared only on the page, the page is there only after a start has come to its end,
and then no flat key has a value left (`Uncleared`), nor will one get it: the seeder
writes flat keys only into an empty table, where no nested key is cleared (`Seeding`).
That no value is lost on the way also needs that no two flat keys have the
same successor. This proof is in `ServerProofs`, about the instance of `MCServer`, and
uses of the instance nothing but `AppSettingsAssumption`.

**From components to runs.** The run `server` checks properties of `MCServer`, each
with a part for every scene it concerns. `ServerProofs` proves the same definitions:
the invariant `Sound` says that the component of the scene that runs satisfies its
inductive invariant, by the lemmas of its proof module under the substitution of
the scene, and every property of the run follows from it. So what TLC finds true of
these instances is shown there to be an instance of what is true of all.

**The calls of the pages.** `OneCallAtATime` and `AnswersTheirCalls` hold because of what
is under way, so each page's part of `CallsInv` says what requests there can be:

- the receiving page (`BothInv`): a cancel and the journal it draws last are the only
  requests that hold the button of the dialog, there is one of them at most, and the
  panel of a receive waits for a request exactly while one is due;
- the drawer (`HeldInv`): a request belongs to one save at most, and the refresh after
  a save takes its place, so a button is released by the last of its requests only;
- the dialog of a pull (`SavingInv`) and of a cancel (`CancelInv`): one save, one
  reversal under way, over all openings; the receipt that is posted is the one shown;
- the ERP dialog (`PendingInv`): it stays disabled only while something is to come. That
  an accepted trigger has a job to poll needs a count: no more triggers are under way
  than jobs are left (`Unanswered`, `FreeJobs`), which is why the jobs are finitely many;
- the import page (`ConfirmInv`): a run that a workbook under way will show is nobody's
  current run and is being confirmed by nobody, and no two workbooks show the same one;
- the deletion of a user or warehouse (`AskedInv`): while the callback is there, nothing
  was sent; the pager (`RenderedInv`): its buttons are those of its state.

None is inductive without this: a request that shared its run or its button with
another could release it early. Quantities, bounds and the sets of items, pulls,
receipts, jobs, runs and users are any that `CallsFit` allows.

**What the pages show.** `ShowsWhatItNames` holds because of what is under way and what
it will say, so its parts of `CallsInv` relate every request to the server, or to the
control it was made from:

- the grid of receiving (`GridInv`) and the totals of the drawer (`ShownInv`): an answer
  under way carries a quantity its cell has held, a total its pull has had, wherever it
  is overtaken; the windows shown are of the item that is edited;
- orders (`ShowsInv`): where headers are saved, of a user who waits, the one call there is
  names the order that is open, so an answer is put into its own form; of a user who
  does not wait, where nothing is saved, only the answer that opens an order sets the
  one in use. A closed order keeps its button disabled there, and only there: see the
  section on behaviours;
- the picker (`ListInv`): as no text is typed again before its answer came, the lookup of
  the last text was made in the warehouse that is chosen;
- sign-in (`FollowInv`): a later lookup has a larger token, so the latest is for the name
  typed, unless one is due or the name is empty;
- the ERP dialog (`ReportInv`): a job is followed by one poll, one timer or one accepted
  trigger, never two; a job that nobody runs is followed by none, and the trigger that
  is accepted gets such a job, which is the count of `PendingInv` again; one that
  succeeded is not run again, so what was reported stays true;
- the audit log (`HoldsInv`): what is drawn is filtered by the text when it is drawn, and
  an answer under way has rows of the log alone; the previews (`TitleNamesSelected`) and
  the list of sources (`LabelTellsPosted`) need no more than they say.

TLC checked every inductive invariant on the instances of the runs before it was
proved.

What stays with TLC: liveness under fairness (`WalkEnds`, `JobsEnd`, `WorkEnds`,
`ControlsComeBack`, `ShownCatchesUp`), which is beyond the prover; the five violated
properties, which are refuted; and of the pages `FiguresFollow` and the types: figures
of one page each, sums and filters over lists of rows, in instances `MCPages` alone has.

## Behaviours the properties leave room for

While the code was translated these showed; the models have them, and properties
are worded so as not to deny them. Each is a few steps long in the module named.

Server:

- `Receiving`: a line with a receipt and its cancel can never be deleted, though the
  message asks for the cancel (`PurchaseOrderAdminService.cs:311`), as the reversal is a
  receipt too; items and windows of a fully received pull are edited, and it stays fully
  received with a window short, where `IPullItemAdminService.cs:10` says read-only.
- `PoImport`: the retry of an import that failed reads `failed` and ends as done
  (`PoImportJob.cs:115`), so Hangfire shows it as succeeded; a run whose worker died is
  left running in the same way: the run `running_ends`.
- `ReceiveLocks`: two receives of different items of one PO wait for each other's
  line in the statement that closes full POs (`ReceiptService.cs:342`), and one is
  the victim; the order date of a PO, or its status, can be changed between the
  read of a receive and its commit (`ReceiptService.cs:183`), as only lines are
  locked: the run `fifo_query_repeats`.
- `ErpSyncRun`: the row of the run is inserted before the `try` block
  (`ErpSyncJob.cs:236`); when that fails the mutex stays taken and every later job is
  skipped until the process is restarted. Writing the totals fails after the row
  was marked succeeded (`ErpSyncJob.cs:296`): the row becomes failed.
- `ErpUpsert`: items of a pull over several days are canceled when their day
  leaves the window of days read, though the ERP has them
  (`ErpUpsertService.cs:346`); an item an operator has activated again is canceled
  by the next sync; a quantity that moves to another hour is planned twice
  (`ErpUpsertService.cs:376`).
- `Exports`: a failing enqueue leaves a queued row without a job
  (`ExportService.cs:41`); a mail may be sent twice
  (`TransactionsExportJob.cs:69`); every attempt that throws marks the row failed while
  retries are left (`:80`), where `docs/exports.md` says that all are used up; a finished row is set running
  again when its process died before Hangfire knew (`:53`); without SMTP settings the
  link is only logged and the row says succeeded (`MailKitEmailService.cs:33`).
- `AppSettings`: a start cut off while seeding leaves a table that is not empty, so
  the remaining keys follow the files for good (`AppSettingsSeeder.cs:46`); values of
  environment variables at the first start are stored (`:55`); nested keys are never
  seeded; a save whose second key fails keeps the first (`ConfigWriteController.cs:136`).
  `docs/configuration.md` says that a restart seeds again after a reset, which it
  does only when no row at all is left.

Pages (`wwwroot/js`):

- `ReceivingPage`: `confirmReceipt` posts at most what the hour still lacks, whatever
  was previewed (`receiving.js:705`); Ctrl+Enter reaches it past the disabled button
  and on a closed pull (`:973`), and the drawer offers Cancel there (`:1520`); the
  journal of a modal reopened on another item of the hour is shown in it (`:412`); a
  journal answered late hides a newer receipt (`:1355`); a superseded preview is
  drawn when its body comes late (`:632`).
- `PullDrawer`, `PullBoard`, `PullForm`: a late refresh sets the pull under which
  items are added (`dashboard.js:544`) or shows the drawer as it was (`:537`);
  linked POs are counted in an answer of another shape (`:376`); leaving a custom
  range does not load again (`:1412`); a late body replaces a newer board (`:161`);
  the pull dialog opened twice while it waits for warehouses has the fields of both
  (`:648`).
- `SyncDialog`, `SourceList`, `SyncHistory`: a poll answered after the dialog was
  dismissed arms its timer again (`dashboard.js:1333`); a job that was skipped is
  reported complete (`:1338`); sources are listed twice (`erp-source-dropdown.js:47`);
  a run no probe saw stays running on the page (`admin-erp-sync.js:129`).
- `ImportsPage`: Cancel during the confirmation makes the page poll another run or
  none (`imports.js:239`); a lost poll is shown as a failed import (`:269`).
- `ReportsPage`: the document of the pull clicked before is shown, and printed, under
  the number of the one selected (`reports.js:86`).
- `ExportsPage`, `ExportCounters`: a list that fails ends the refreshes
  (`exports.js:174`); the list of one tab is shown under the other (`:181`); a poll
  shows the badge again after it was cleared (`exports-badge.js:29`).
- `LoginPage`: blur looks a name up a second time (`login.js:109`); an emptied name
  is offered the warehouses of the one before (`:56`).
- `TxPage`, `PoList`, `PoPage`, `PullPicker`: lists of former filters and pages are
  shown last (`transactions.js:188`); the operator filter goes back to all when a page
  lacks the operator (`:331`); the form of an order follows the last answer, not the
  order open (`pos.js:412`), and its button is enabled again on a closed one (`:422`);
  a deleted line is reported refused after Back to list (`:483`), and one confirmed
  after another order was opened is asked of that order, which refuses (`:481`); `renderDetail` is
  not defined, so saving ERP fields ends in an error (`:929`); the linkage filter
  cuts one page and is not exported (`:205`, `:783`); the picker takes the answer of
  the former warehouse, or of a text erased (`:558`, `:546`).
- `MastersPage`, `AuditTab`: saving a user sends two requests, and when the second is
  refused the first stands while the table shows the old state (`masters.js:426`);
  a refused answer leaves tables of before; the page filters audit rows by other
  columns than the server and takes two words for one text (`masters.js:743`,
  `AuditRepository.cs:27`), so rows found may not be shown; a date is looked for in
  the newest 200 rows alone (`masters.js:736`), an export has them all.
- `DateRanges`: a custom day that has 25 hours loses its last (`transactions.js:165`,
  `masters.js:725`).

## Not modelled, and the plan

Worth doing next: a theorem for `FiguresFollow`, page by page; the configuration pages
over `AppSettings`.

Left out for good:

- workbook and Oracle parsing, report, spreadsheet and e-mail layout: pure functions
  over text, whose verdict is what the models branch on;
- passwords, profiles and logos of the masters; the configuration page (`config*.js`):
  forms with one request each, over what `AppSettings` models;
- `app-nav.js`, `site.js` and the texts and look of every page; `src/mockups`, which
  nothing serves, and third-party scripts;
- download tokens (an HMAC) and migrations;
- read repositories beyond the filters the lists depend on.
