------------------------------- MODULE Pager -------------------------------
(***************************************************************************)
(* The pagination control the lists share (components/pagination.js): the  *)
(* window of page numbers with its gaps, what a click on it does, and what *)
(* the host does to it.                                                    *)
(***************************************************************************)
EXTENDS Integers, FiniteSetsExt

CONSTANTS
    MaxButtons, \* DEFAULT_MAX_BUTTONS
    PageSizes,  \* the page sizes a host may choose
    MaxTotal    \* bound on the records

PagerAssumption ==
    MaxButtons \in Nat /\ PageSizes \subseteq Nat \ {0} /\ PageSizes # {} /\ MaxTotal \in Nat

ClampPage(p, pages) == IF pages < 1 THEN 1 ELSE Max({1, Min({pages, p})})

TotalPagesOf(total, size) == IF total = 0 THEN 0 ELSE (total + size - 1) \div size

(* pageWindow: the numbers shown, in order; between two that do not follow *)
(* each other there is an ellipsis.                                        *)
PageWindow(cur, pages) ==
    IF pages =< MaxButtons
    THEN 1 .. pages
    ELSE {1, pages, cur} \cup {p \in {cur - 1, cur + 1} : 1 =< p /\ p =< pages}

Gaps(window) ==
    {p \in window : (\E q \in window : q > p) /\ p + 1 \notin window}

VARIABLES
    page, size, total, \* state
    rendered, \* what buildPaginationHtml has shown; nothing when hidden
    asked     \* the page onChange was last called with, 0 for none

vars == <<page, size, total, rendered, asked>>

Hidden == [page |-> 0, pages |-> 0, window |-> {}]

(* render, of a state.                                                     *)
Render(p, s, t) ==
    LET pages == TotalPagesOf(t, s)
        cur == ClampPage(p, pages)
    IN  IF pages =< 1 THEN Hidden
        ELSE [page |-> cur, pages |-> pages, window |-> PageWindow(cur, pages)]

(* The pages the buttons that can be clicked lead to: the numbers but the  *)
(* active one, Prev and Next.                                              *)
Targets(r) ==
    (r.window \ {r.page})
        \cup (IF r.page > 1 THEN {r.page - 1} ELSE {})
        \cup (IF r.page < r.pages THEN {r.page + 1} ELSE {})

HandleClick(p) ==
    /\ p \in Targets(rendered)
    /\ LET clamped == ClampPage(p, rendered.pages) IN
       /\ clamped # page
       /\ page' = clamped /\ asked' = clamped
       /\ rendered' = Render(clamped, size, total)
    /\ UNCHANGED <<size, total>>

Update(p, s, t) ==
    /\ page' = p /\ size' = s /\ total' = t
    /\ rendered' = Render(p, s, t)
    /\ UNCHANGED asked

(* mountPagination, before the host knows how many records there are.      *)
Init ==
    /\ page = 1 /\ size \in PageSizes /\ total = 0
    /\ rendered = Hidden /\ asked = 0

(* A host gives back the page it asked for, or the first, with whatever    *)
(* the server counts now.                                                  *)
Next ==
    \/ \E p \in 1 .. rendered.pages + 1 : HandleClick(p)
    \/ \E t \in 0 .. MaxTotal, s \in PageSizes : Update(page, s, t) \/ Update(1, s, t)

Spec == Init /\ [][Next]_vars

-----------------------------------------------------------------------------
(* What is shown is what state says, within the pages there are.           *)
TypeOK ==
    /\ page \in Nat \ {0} /\ size \in PageSizes /\ total \in 0 .. MaxTotal
    /\ rendered # Hidden => rendered.page \in rendered.window /\ rendered.window \subseteq 1 .. rendered.pages
    /\ rendered = Hidden => total =< size
    /\ rendered # Hidden => rendered.pages * size >= total

(* The first page, the last and the neighbours of the current one are      *)
(* always there to be clicked, in no more than MaxButtons places, and an   *)
(* ellipsis stands for pages that are left out.                            *)
WindowShows ==
    rendered # Hidden =>
        /\ {1, rendered.pages} \subseteq rendered.window
        /\ \A p \in 1 .. rendered.pages : p \in {rendered.page - 1, rendered.page + 1} => p \in rendered.window
        /\ Cardinality(rendered.window) + Cardinality(Gaps(rendered.window)) =< MaxButtons

(* Every click asks for another page that exists, shows it at once, and    *)
(* no button that can be clicked does nothing.                             *)
Moves ==
    asked' # asked => asked' \in 1 .. rendered.pages /\ asked' # rendered.page /\ rendered'.page = asked'

(* What is shown is what state says.                                       *)
RenderedInv ==
    /\ page \in Nat \ {0} /\ size \in Nat \ {0} /\ total \in Nat
    /\ rendered = Render(page, size, total)

ButtonsLead == \A p \in Targets(rendered) : p \in 1 .. rendered.pages /\ ClampPage(p, rendered.pages) # page
=============================================================================
