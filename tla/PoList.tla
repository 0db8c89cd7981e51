------------------------------- MODULE PoList -------------------------------
(***************************************************************************)
(* The list of purchase orders (pos.js): filters and pages the server      *)
(* applies, and the linkage, which the page cuts by itself from the rows   *)
(* of one page.  Orders leave the status that is listed meanwhile, and     *)
(* lists are answered in any order.                                        *)
(***************************************************************************)
EXTENDS Integers, FiniteSetsExt

CONSTANTS
    Order,    \* 1 .. n, as the server sorts them
    Linked,   \* those with a pull
    Matching, \* those the search text finds
    PageSize, \* PAGE_SIZE
    Leaving,  \* whether orders leave the status listed
    MaxLoad,  \* bound on the lists under way
    MaxLost,  \* bound on the lists refused or lost
    MaxExport \* bound on the exports

PoListAssumption ==
    /\ Order \subseteq Nat /\ Linked \subseteq Order /\ Matching \subseteq Order
    /\ PageSize \in Nat \ {0} /\ Leaving \in BOOLEAN /\ MaxLoad \in Nat \ {0} /\ MaxLost \in Nat
    /\ MaxExport \in {0, 1}

VARIABLES
    open,     \* the server: the orders of the status listed
    search, linkage, \* f-search is filled, f-linkage
    debounce, \* searchDebounce
    page,     \* currentPage
    rows, total, \* currentRows, currentTotal
    shown,    \* the rows renderList has put in the table
    pager,    \* what the pagination control was last told
    exported, \* the orders of the export just asked for, and those shown then
    net, lost

listed == <<rows, total, shown, pager>>
vars == <<open, search, linkage, debounce, page, listed, exported, net, lost>>

Unused == CHOOSE n \in 1 .. MaxLoad : \A r \in net : r.id # n
Linkages == {"all", "linked", "unlinked"}

(* GET /api/pos: the rows skipped and taken, and the page as it was asked. *)
Found(searched) == {x \in open : searched => x \in Matching}
PageOf(set, p) ==
    {x \in set : Cardinality({y \in set : y < x}) \in (p - 1) * PageSize .. p * PageSize - 1}
Pages(n) == (n + PageSize - 1) \div PageSize

(* renderList: the client-side cut.                                        *)
Cut(set, how) ==
    CASE how = "linked" -> set \cap Linked
      [] how = "unlinked" -> set \ Linked
      [] OTHER -> set

-----------------------------------------------------------------------------
LoadList(p) ==
    /\ Cardinality(net) < MaxLoad
    /\ net' = net \cup {[id |-> Unused, search |-> search', page |-> p, at |-> "sent", rows |-> {}, total |-> 0]}

(* resetPageAndReload.                                                     *)
FirstPage == 1
ResetPageAndReload == page' = FirstPage /\ LoadList(FirstPage)

TypeSearch ==
    /\ search' = ~search /\ debounce' = TRUE
    /\ UNCHANGED <<open, linkage, page, listed, exported, net, lost>>

DebounceEnds ==
    /\ debounce /\ debounce' = FALSE
    /\ UNCHANGED <<open, search, linkage, listed, exported, lost>>
    /\ ResetPageAndReload

(* Clear puts linkage to all, which the list shows when it comes.          *)
ClearFilters ==
    /\ search' = FALSE /\ linkage' = "all"
    /\ UNCHANGED <<open, debounce, listed, exported, lost>>
    /\ ResetPageAndReload

ChooseLinkage(how) ==
    /\ how # linkage /\ linkage' = how
    /\ shown' = Cut(rows, how)
    /\ UNCHANGED <<open, search, debounce, page, rows, total, pager, exported, net, lost>>

ClickPage(p) ==
    /\ p \in 1 .. Pages(pager.total) /\ p # Min({pager.page, Pages(pager.total)})
    /\ page' = p /\ pager' = [pager EXCEPT !.page = p]
    /\ UNCHANGED <<open, search, linkage, debounce, rows, total, shown, exported, lost>>
    /\ LoadList(p)

Refresh ==
    /\ UNCHANGED <<open, search, linkage, debounce, page, listed, exported, lost>>
    /\ LoadList(page)

-----------------------------------------------------------------------------
(* An order is closed, or fully received, and leaves the list.             *)
Leaves(x) ==
    /\ Leaving /\ x \in open /\ open' = open \ {x}
    /\ UNCHANGED <<search, linkage, debounce, page, listed, exported, net, lost>>

Serve(r) ==
    /\ r.at = "sent"
    /\ LET found == Found(r.search) IN
       net' = (net \ {r}) \cup
            {[r EXCEPT !.at = "served", !.rows = PageOf(found, r.page), !.total = Cardinality(found)]}
    /\ UNCHANGED <<open, search, linkage, debounce, page, listed, exported, lost>>

(* The page taken over from the answer.                                    *)
Echoed(r) == r.page

ShowList(r) ==
    /\ r.at = "served" /\ net' = net \ {r}
    /\ rows' = r.rows /\ total' = r.total
    /\ page' = Echoed(r) /\ pager' = [page |-> Echoed(r), total |-> r.total]
    /\ shown' = Cut(r.rows, linkage)
    /\ UNCHANGED <<open, search, linkage, debounce, exported, lost>>

LoadFails(r) ==
    /\ lost < MaxLost /\ lost' = lost + 1 /\ net' = net \ {r}
    /\ rows' = {} /\ total' = 0 /\ shown' = {} /\ pager' = [page |-> 1, total |-> 0]
    /\ UNCHANGED <<open, search, linkage, debounce, page, exported>>

(* exportPosList: what the filters the server knows select.                *)
Exported == Found(search)
NoExport == [of |-> {}, shown |-> {}]
ExportPosList ==
    /\ MaxExport = 1 /\ exported = NoExport /\ total # 0 /\ net = {} /\ ~debounce
    /\ exported' = [of |-> Exported, shown |-> shown]
    /\ UNCHANGED <<open, search, linkage, debounce, page, listed, net, lost>>

-----------------------------------------------------------------------------
Init ==
    /\ open = Order /\ search = FALSE /\ linkage = "all" /\ debounce = FALSE /\ page = 1
    /\ rows = {} /\ total = 0 /\ shown = {} /\ pager = [page |-> 1, total |-> 0]
    /\ exported = NoExport /\ lost = 0
    /\ net = {[id |-> 1, search |-> FALSE, page |-> 1, at |-> "sent", rows |-> {}, total |-> 0]}

Next ==
    \/ TypeSearch \/ DebounceEnds \/ ClearFilters \/ Refresh \/ ExportPosList
    \/ \E how \in Linkages : ChooseLinkage(how)
    \/ \E p \in 1 .. Cardinality(Order) : ClickPage(p)
    \/ \E x \in Order : Leaves(x)
    \/ \E r \in net : Serve(r) \/ ShowList(r) \/ LoadFails(r)

Spec == Init /\ [][Next]_vars

-----------------------------------------------------------------------------
(* A page of rows, as the server counted them.                             *)
TypeOK ==
    /\ open \subseteq Order /\ linkage \in Linkages
    /\ page \in Nat \ {0} /\ pager.page \in Nat \ {0}
    /\ rows \subseteq Order /\ Cardinality(rows) =< PageSize /\ Cardinality(rows) =< total
    /\ shown \subseteq rows

(* However lists overtake each other, a settled page names the page and    *)
(* the total of the rows it shows: what comes before them and they are no  *)
(* more than the total.                                                    *)
Quiet == net = {} /\ ~debounce
RowsOfPage ==
    Quiet /\ rows # {} =>
        /\ pager = [page |-> page, total |-> total]
        /\ (page - 1) * PageSize + Cardinality(rows) =< total
        /\ page < Pages(total) => Cardinality(rows) = PageSize

(* With one list at a time, and no order leaving the list, nobody ends on  *)
(* an empty page.                                                          *)
NotStrandedInOrder == Quiet /\ total > 0 => rows # {}

(* An export has everything that is shown.                                 *)
ExportCovers == ~Leaving => exported.shown \subseteq exported.of
=============================================================================
