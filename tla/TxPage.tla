------------------------------- MODULE TxPage -------------------------------
(***************************************************************************)
(* The list of the transactions page (transactions.js): filters that ask   *)
(* for page one at once or after a debounce, pages, a select of operators  *)
(* made from the rows that came back, and the export of what the filters   *)
(* select.  Lists are answered in any order.                               *)
(***************************************************************************)
EXTENDS Integers, FiniteSetsExt

CONSTANTS
    Receipt,  \* 1 .. n, the newest first
    Operator,
    By,       \* who received each receipt
    Matching, \* the receipts the search text finds
    InHour,   \* the receipts of the hour in the URL
    PageSize, \* PAGE_SIZE
    MaxLoad,  \* bound on the lists under way
    MaxLost,  \* bound on the lists refused or lost
    MaxExport, \* bound on the exports
    All

TxAssumption ==
    /\ Receipt \subseteq Nat /\ By \in [Receipt -> Operator] /\ All \notin Operator
    /\ Matching \subseteq Receipt /\ InHour \subseteq Receipt
    /\ PageSize \in Nat \ {0} /\ MaxLoad \in Nat \ {0} /\ MaxLost \in Nat
    /\ MaxExport \in {0, 1}

VARIABLES
    search, operator, hour, \* f-search is filled, f-operator, hourFilter is set
    operators, \* the options of f-operator
    debounce,  \* searchDebounce
    page,      \* currentPage
    rows, total, \* currentRows, currentTotal
    pager,     \* what the pagination control was last told
    failed,    \* the last list answered was refused or lost
    exported,  \* the rows of the last export, and whether there was one
    net, lost

filters == <<search, operator, hour>>
shown == <<operators, rows, total, pager, failed>>
vars == <<filters, debounce, page, shown, exported, net, lost>>

Unused == CHOOSE n \in 1 .. MaxLoad : \A r \in net : r.id # n

(* The rows the server finds, and those of a page of them.                 *)
Found(f) ==
    {x \in Receipt :
        /\ f.search => x \in Matching
        /\ f.operator # All => By[x] = f.operator
        /\ f.hour => x \in InHour}
PageOf(set, p) ==
    {x \in set : Cardinality({y \in set : y < x}) \in (p - 1) * PageSize .. p * PageSize - 1}
Pages(n) == (n + PageSize - 1) \div PageSize

Filter == [search |-> search, operator |-> operator, hour |-> hour]

-----------------------------------------------------------------------------
(* loadData, up to its fetch: buildQueryString of the filters and a page.  *)
LoadData(f, p) ==
    /\ Cardinality(net) < MaxLoad
    /\ net' = net \cup {[id |-> Unused, filter |-> f, page |-> p]}

(* The page a change of filters asks for.  Mutant: the current one.        *)
FirstPageKept == page
FirstPage == 1

ResetPageAndLoad ==
    /\ page' = FirstPage
    /\ LoadData(Filter', FirstPage)

TypeSearch ==
    /\ search' = ~search /\ debounce' = TRUE
    /\ UNCHANGED <<operator, hour, page, shown, exported, net, lost>>

DebounceEnds ==
    /\ debounce /\ debounce' = FALSE
    /\ UNCHANGED <<filters, shown, exported, lost>>
    /\ ResetPageAndLoad

ChooseOperator(o) ==
    /\ o \in operators /\ o # operator /\ operator' = o
    /\ UNCHANGED <<search, hour, debounce, shown, exported, lost>>
    /\ ResetPageAndLoad

ClearFilters ==
    /\ search' = FALSE /\ operator' = All /\ hour' = FALSE
    /\ UNCHANGED <<debounce, shown, exported, lost>>
    /\ ResetPageAndLoad

(* The banner's X keeps the page.                                          *)
ClearHour ==
    /\ hour /\ hour' = FALSE
    /\ UNCHANGED <<search, operator, debounce, page, shown, exported, lost>>
    /\ LoadData(Filter', page)

(* A page the control offers.                                              *)
ClickPage(p) ==
    /\ p \in 1 .. Pages(pager.total) /\ p # Min({pager.page, Pages(pager.total)})
    /\ page' = p /\ pager' = [pager EXCEPT !.page = p]
    /\ LoadData(Filter, p)
    /\ UNCHANGED <<filters, debounce, operators, rows, total, failed, exported, lost>>

Refresh ==
    /\ LoadData(Filter, page)
    /\ UNCHANGED <<filters, debounce, page, shown, exported, lost>>

-----------------------------------------------------------------------------
(* refreshOperators, for the rows just received.                           *)
RefreshOperators(set) ==
    LET names == {By[x] : x \in set} IN
    /\ operators' = names \cup {All}
    /\ operator' = IF operator \in names THEN operator ELSE All

(* The page the control is told.                                           *)
Told(r) == page

ShowRows(r) ==
    /\ net' = net \ {r}
    /\ LET found == Found(r.filter) IN
       /\ rows' = PageOf(found, r.page) /\ total' = Cardinality(found)
       /\ RefreshOperators(PageOf(found, r.page))
       /\ pager' = [page |-> Told(r), total |-> Cardinality(found)]
    /\ failed' = FALSE
    /\ UNCHANGED <<search, hour, debounce, page, exported, lost>>

(* A list refused leaves the control as it is, one lost empties it.        *)
LoadFails(r) ==
    /\ lost < MaxLost /\ lost' = lost + 1
    /\ net' = net \ {r}
    /\ rows' = {} /\ total' = 0 /\ failed' = TRUE
    /\ pager' \in {pager, [page |-> 1, total |-> 0]}
    /\ UNCHANGED <<filters, operators, debounce, page, exported>>

(* exportToExcel: all the rows of the filters as they stand.               *)
Exported == Found(Filter)

NoExport == [of |-> {}, ready |-> FALSE, rows |-> {}, total |-> 0]
ExportToExcel ==
    /\ total # 0 /\ exported = NoExport /\ MaxExport = 1
    /\ exported' = [of |-> Exported, ready |-> net = {} /\ ~debounce, rows |-> rows, total |-> total]
    /\ UNCHANGED <<filters, debounce, page, shown, net, lost>>

-----------------------------------------------------------------------------
(* The page may come from a link that names a search and an hour.          *)
Init ==
    /\ search \in BOOLEAN /\ hour \in BOOLEAN /\ operator = All
    /\ operators = {All} /\ debounce = FALSE /\ page = 1
    /\ rows = {} /\ total = 0 /\ pager = [page |-> 1, total |-> 0] /\ failed = FALSE
    /\ exported = NoExport /\ lost = 0
    /\ net = {[id |-> 1, filter |-> Filter, page |-> 1]}

Next ==
    \/ TypeSearch \/ DebounceEnds \/ ClearFilters \/ ClearHour \/ Refresh \/ ExportToExcel
    \/ \E o \in Operator \cup {All} : ChooseOperator(o)
    \/ \E p \in 1 .. Cardinality(Receipt) : ClickPage(p)
    \/ \E r \in net : ShowRows(r) \/ LoadFails(r)

Spec == Init /\ [][Next]_vars

-----------------------------------------------------------------------------
(* The operator chosen is one the select has, and the rows are a page.     *)
TypeOK ==
    /\ operator \in operators /\ operators \subseteq Operator \cup {All}
    /\ rows \subseteq Receipt /\ Cardinality(rows) =< PageSize /\ Cardinality(rows) =< total
    /\ page \in Nat \ {0} /\ pager.page \in Nat \ {0}

(* Whenever nothing is under way and the last list came, the control names *)
(* the page the next request will ask for, of the total that is shown.     *)
Quiet == net = {} /\ ~debounce /\ ~failed
PagerFollows == Quiet => pager = [page |-> page, total |-> total]

(* With one list at a time and none lost, a settled page shows rows when   *)
(* there are any for what it asked.                                        *)
NotStrandedInOrder == Quiet /\ total > 0 => rows # {}

(* An export of a settled page has all the rows shown, and as many as the  *)
(* page counts.                                                            *)
ExportCovers ==
    exported.ready => exported.rows \subseteq exported.of /\ Cardinality(exported.of) >= exported.total
=============================================================================
