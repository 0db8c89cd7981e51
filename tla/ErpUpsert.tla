------------------------------ MODULE ErpUpsert ------------------------------
(***************************************************************************)
(* One pull as the ERP plans it and as the operators work on it: the       *)
(* transform of a source (BpiPrsSource.cs) from the rows of the last days  *)
(* to a draft, and the upsert (ErpUpsertService.cs), one transaction, that *)
(* brings the pull in line with the draft while pieces are received.       *)
(* Numbers of pulls are disjoint between sources, so there is one source.  *)
(***************************************************************************)
EXTENDS Integers, FiniteSets, Totals

CONSTANTS
    Item, Hour,
    DefaultHour, \* the hour of a row that names none
    Row,         \* what the ERP may hold: [item, hour, qty, day]
    Backfill,    \* days looked back
    MaxDay,      \* bound on the clock
    MaxFault     \* bound on the transactions that fail

NoHour == -1

ErpUpsertAssumption ==
    /\ Hour \subseteq Nat /\ DefaultHour \in Hour /\ IsFiniteSet(Row)
    /\ Row \subseteq [item : Item, hour : Hour \cup {NoHour}, qty : Nat, day : Nat]
    /\ Backfill \in Nat /\ MaxDay \in Nat /\ MaxFault \in Nat

VARIABLES
    erp,      \* the rows of the pull in the ERP
    today,
    pull,     \* none, open or closed: what the upsert tells apart
    item,     \* PullItems.Status, or none
    expected, received, \* PullItemWindows: no window has neither
    last,     \* what the last upsert reported, until something else happens
    faults

vars == <<erp, today, pull, item, expected, received, last, faults>>

Window == Item \X Hour
Nothing == [outcome |-> "none", added |-> 0, canceled |-> 0]

-----------------------------------------------------------------------------
(* ReadAndTransformAsync and Transform: rows of one item and hour add up,  *)
(* and rows without a quantity are dropped.                                *)
Recent == {r \in erp : r.day >= today - Backfill /\ r.qty > 0}
HourOf(r) == IF r.hour = NoHour THEN DefaultHour ELSE r.hour
RowsOf(w) == {r \in Recent : <<r.item, HourOf(r)>> = w}
Draft == [w \in Window |-> SumOf(RowsOf(w), [r \in Row |-> r.qty])]
DraftItems == {r.item : r \in Recent}

-----------------------------------------------------------------------------
(* UpdatePullAsync.  An item of the draft keeps its status, a new one is   *)
(* normal, and one the draft does not have is canceled.  Mutant: the       *)
(* status is written with the other columns.                               *)
StatusesWritten ==
    [i \in Item |-> IF i \in DraftItems THEN "normal"
                    ELSE IF item[i] = "none" THEN "none" ELSE "canceled"]
Statuses ==
    [i \in Item |-> IF i \in DraftItems
                    THEN (IF item[i] = "none" THEN "normal" ELSE item[i])
                    ELSE (IF item[i] = "none" THEN "none" ELSE "canceled")]

(* SyncWindowsAsync for one window of the draft: never below what was      *)
(* received.  Mutants: as drafted, and added up.                           *)
SafeQtyDrafted(w) == Draft[w]
SafeQtySummed(w) == Draft[w] + expected[w]
SafeQty(w) == Greatest(Draft[w], received[w])

(* Hours the draft does not have are left alone.                           *)
SyncWindows == [w \in Window |-> IF Draft[w] > 0 THEN SafeQty(w) ELSE expected[w]]

Added == {i \in DraftItems : item[i] = "none"}
Canceled == {i \in Item \ DraftItems : item[i] = "normal"}

(* UpsertOneAsync.  A source without a row of the pull does not touch it.  *)
InsertPull ==
    /\ DraftItems # {} /\ pull = "none"
    /\ pull' = "open" /\ item' = Statuses /\ expected' = Draft
    /\ last' = [Nothing EXCEPT !.outcome = "created"]
    /\ UNCHANGED <<erp, today, received, faults>>

Revisable == pull = "open"

UpdatePull ==
    /\ DraftItems # {} /\ Revisable
    /\ item' = Statuses /\ expected' = SyncWindows
    /\ last' = [outcome |-> "updated", added |-> Cardinality(Added),
                canceled |-> Cardinality(Canceled)]
    /\ UNCHANGED <<erp, today, pull, received, faults>>

SkipClosed ==
    /\ DraftItems # {} /\ pull = "closed"
    /\ last' = [Nothing EXCEPT !.outcome = "skipped-closed"]
    /\ UNCHANGED <<erp, today, pull, item, expected, received, faults>>

(* A statement fails: the transaction is rolled back and the run goes on.  *)
(* The totals keep what they had counted by then.                          *)
UpsertFails ==
    /\ DraftItems # {} /\ pull # "closed" /\ faults < MaxFault /\ faults' = faults + 1
    /\ \E n \in 0 .. Cardinality(Added), m \in 0 .. Cardinality(Canceled) :
          /\ pull = "none" => n = 0 /\ m = 0
          /\ m > 0 => n = Cardinality(Added)
          /\ last' = [outcome |-> "error", added |-> n, canceled |-> m]
    /\ UNCHANGED <<erp, today, pull, item, expected, received>>

Upsert == InsertPull \/ UpdatePull \/ SkipClosed

-----------------------------------------------------------------------------
(* The ERP, the clock and the operators.                                   *)
ReviseErp(r) ==
    /\ erp' = IF r \in erp THEN erp \ {r} ELSE erp \cup {r}
    /\ last' = Nothing
    /\ UNCHANGED <<today, pull, item, expected, received, faults>>

NextDay ==
    /\ today < MaxDay /\ today' = today + 1 /\ last' = Nothing
    /\ UNCHANGED <<erp, pull, item, expected, received, faults>>

Operates == pull = "open" /\ last' = Nothing /\ UNCHANGED <<erp, today, faults>>

Receive(w) ==
    /\ Operates /\ item[w[1]] = "normal" /\ received[w] < expected[w]
    /\ received' = [received EXCEPT ![w] = @ + 1]
    /\ UNCHANGED <<pull, item, expected>>

Cancel(w) ==
    /\ Operates /\ received[w] > 0
    /\ received' = [received EXCEPT ![w] = @ - 1]
    /\ UNCHANGED <<pull, item, expected>>

SetStatus(i, status) ==
    /\ Operates /\ item[i] \notin {"none", status}
    /\ item' = [item EXCEPT ![i] = status]
    /\ UNCHANGED <<pull, expected, received>>

DeleteWindow(w) ==
    /\ Operates /\ expected[w] > 0 /\ received[w] = 0
    /\ expected' = [expected EXCEPT ![w] = 0]
    /\ UNCHANGED <<pull, item, received>>

ClosePull ==
    /\ Operates /\ \A w \in Window : item[w[1]] = "normal" => received[w] = expected[w]
    /\ pull' = "closed"
    /\ UNCHANGED <<item, expected, received>>

ReopenPull ==
    /\ pull = "closed" /\ pull' = "open" /\ last' = Nothing
    /\ UNCHANGED <<erp, today, item, expected, received, faults>>

-----------------------------------------------------------------------------
Init ==
    /\ erp = {} /\ today = 0 /\ pull = "none" /\ item = [i \in Item |-> "none"]
    /\ expected = [w \in Window |-> 0] /\ received = [w \in Window |-> 0]
    /\ last = Nothing /\ faults = 0

Next ==
    \/ Upsert \/ UpsertFails \/ NextDay \/ ClosePull \/ ReopenPull
    \/ \E r \in Row : ReviseErp(r)
    \/ \E w \in Window : Receive(w) \/ Cancel(w) \/ DeleteWindow(w)
    \/ \E i \in Item, status \in {"normal", "canceled"} : SetStatus(i, status)

Spec == Init /\ [][Next]_vars /\ WF_vars(Upsert)

-----------------------------------------------------------------------------
TypeOK ==
    /\ erp \subseteq Row /\ today \in 0 .. MaxDay /\ pull \in {"none", "open", "closed"}
    /\ item \in [Item -> {"none", "normal", "canceled"}]
    /\ \A w \in Window : item[w[1]] = "none" => expected[w] = 0

(* Whatever the ERP revises while pieces are received under the hour cap,  *)
(* no window plans less than was received.                                 *)
CapKept == \A w \in Window : received[w] =< expected[w]

(* A sync of an unchanged ERP over an unchanged pull changes nothing.      *)
Idempotent ==
    last.outcome = "updated" =>
        item = Statuses /\ expected = SyncWindows /\ Added = {} /\ Canceled = {}

(* A signed pull has no window short until it is reopened, whatever the    *)
(* ERP revises meanwhile.                                                  *)
SignedStands ==
    pull = "closed" => \A w \in Window : item[w[1]] = "normal" => received[w] = expected[w]

(* An item that is canceled stays so until an operator says otherwise,     *)
(* whatever the ERP sends.                                                 *)
KeepsCanceled == \A i \in Item : Upsert /\ item[i] = "canceled" => item'[i] = "canceled"
CanceledByOperator == [][KeepsCanceled]_vars

=============================================================================
