---------------------------- MODULE ReceiveWalk ----------------------------
(***************************************************************************)
(* The allocation loop of BuildAllocationPlan (preview) and ReceiveAsync,  *)
(* one iteration per step, over the candidate lines of one item.  Receive  *)
(* takes the plan in closed form; here the loop computes it.  The rows     *)
(* cannot change under the loop: it works on the result of one query.      *)
(***************************************************************************)
EXTENDS Receiving

CONSTANT WalkItem \* the item of the request

ASSUME WalkAssumption == WalkItem \in Item

VARIABLES
    asked,  \* the quantity of the request
    lines,  \* the rows of the query the foreach has not reached
    left,   \* the loop's remaining
    plan    \* the plan: what each line gives, 0 when it has no entry

allVars == <<vars, asked, lines, left, plan>>

Rows == Candidates(WalkItem)

(* Mutants of the two below: the loop runs on any stock at all; it walks   *)
(* the rows unsorted.                                                      *)
EnoughSome == Rows # {}
ReachedAny(l) == l \in lines

(* The capacity check the loop starts behind.                              *)
Enough == SumOf(Rows, Remaining) >= asked

(* The next row in the order of the query.                                 *)
Reached(l) == l \in lines /\ \A m \in lines \ {l} : Precedes(l, m)

Given(l) == Least(Remaining[l], left)

(* Open POs with any dates and any quantities, ordered and received.       *)
WalkInit ==
    /\ pull = [p \in Pull |-> "pending"]
    /\ item = [i \in Item |-> "normal"]
    /\ expected = [w \in Window |-> 0]
    /\ received = [w \in Window |-> 0]
    /\ po = [o \in PO |-> "open"]
    /\ poDate \in [PO -> Dates]
    /\ forfeited = {}
    /\ ordered \in [Line -> OrderQty]
    /\ consumed \in [Line -> OrderQty \cup {0}]
    /\ \A l \in Line : consumed[l] =< ordered[l]
    /\ receipts = {}
    /\ voidedBy = [r \in ReceiptId |-> NoReceipt]
    /\ calls = 0
    /\ asked \in ReceiveQty
    /\ Enough
    /\ lines = Rows
    /\ left = asked
    /\ plan = [l \in Line |-> 0]

(* One iteration: the line gives what it has, up to what is still wanted.  *)
(* The loop breaks when nothing is wanted.                                 *)
Iterate(l) ==
    /\ left > 0
    /\ Reached(l)
    /\ plan' = [plan EXCEPT ![l] = Given(l)]
    /\ left' = left - Given(l)
    /\ lines' = lines \ {l}
    /\ UNCHANGED <<vars, asked>>

WalkNext == \E l \in Line : Iterate(l)

WalkSpec == WalkInit /\ [][WalkNext]_allVars /\ WF_allVars(WalkNext)

(* The partial plan is the closed form of Receive on the lines the loop    *)
(* has passed, and once nothing is wanted the lines it has not reached     *)
(* have no share: when the loop ends its plan is the closed form.          *)
PlanIsTake ==
    /\ \A l \in Line : plan[l] = IF l \in Rows \ lines THEN Take(Rows, asked, l) ELSE 0
    /\ left = 0 => \A l \in lines : Take(Rows, asked, l) =< 0

(* A loop that starts behind the capacity check ends with nothing wanted:  *)
(* ReceiveAsync never books less on the PO lines than on the window.       *)
WalkEnds == <>(left = 0)
=============================================================================
