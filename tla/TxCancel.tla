------------------------------ MODULE TxCancel ------------------------------
(***************************************************************************)
(* Cancelling a receipt from the transactions page (transactions.js): the  *)
(* modal, the receipt it is about, the button that confirms, and the list  *)
(* that is loaded again.  Somebody else cancels too; the network may lose  *)
(* a call or its answer.                                                   *)
(***************************************************************************)
EXTENDS Integers, FiniteSets

CONSTANTS
    Receipt, None,
    MaxLost \* bound on the calls lost

TxCancelAssumption == None \notin Receipt /\ MaxLost \in Nat

VARIABLES
    reversals, \* the server: how many reversals each receipt has
    rows,      \* currentRows: the receipts listed as voided
    shown,     \* the receipt the open modal shows
    target,    \* cancelTarget
    disabled,  \* btn-confirm-cancel
    post,      \* the cancel under way
    list,      \* the list under way
    lost

vars == <<reversals, rows, shown, target, disabled, post, list, lost>>

NoPost == [of |-> None, at |-> "none"]
Voided == {r \in Receipt : reversals[r] > 0}

(* openCancelModal of a row that is not voided as far as the page knows.   *)
Target(r) == r

OpenCancelModal(r) ==
    /\ shown = None /\ r \notin rows
    /\ shown' = r /\ target' = Target(r)
    /\ UNCHANGED <<reversals, rows, disabled, post, list, lost>>

Dismiss ==
    /\ shown # None /\ shown' = None
    /\ UNCHANGED <<reversals, rows, target, disabled, post, list, lost>>

(* confirmCancel with a reason picked, up to its fetch.                    *)
Busy == TRUE

ConfirmCancel ==
    /\ shown # None /\ ~disabled /\ target # None
    /\ disabled' = Busy /\ post' = [of |-> target, at |-> "sent"]
    /\ UNCHANGED <<reversals, rows, shown, target, list, lost>>

(* What the server accepts.                                                *)
Accepts(r) == reversals[r] = 0

ServeCancel ==
    /\ post.at = "sent"
    /\ IF Accepts(post.of)
       THEN /\ reversals' = [reversals EXCEPT ![post.of] = @ + 1]
            /\ post' = [post EXCEPT !.at = "done"]
       ELSE post' = [post EXCEPT !.at = "refused"] /\ UNCHANGED reversals
    /\ UNCHANGED <<rows, shown, target, disabled, list, lost>>

SomebodyCancels(r) ==
    /\ Accepts(r) /\ reversals' = [reversals EXCEPT ![r] = @ + 1]
    /\ UNCHANGED <<rows, shown, target, disabled, post, list, lost>>

-----------------------------------------------------------------------------
(* The answer: hide the modal, whatever it shows, and load the list.       *)
AfterDone == shown' = None /\ target' = None

Cancelled ==
    /\ post.at = "done" /\ AfterDone
    /\ post' = NoPost /\ list' = "sent"
    /\ UNCHANGED <<reversals, rows, disabled, lost>>

(* The finally of confirmCancel.                                           *)
EnabledAgain == FALSE

Refused ==
    /\ post.at = "refused"
    /\ post' = NoPost /\ disabled' = EnabledAgain
    /\ UNCHANGED <<reversals, rows, shown, target, list, lost>>

Lost ==
    /\ post.at # "none" /\ lost < MaxLost /\ lost' = lost + 1
    /\ post' = NoPost /\ disabled' = EnabledAgain
    /\ UNCHANGED <<reversals, rows, shown, target, list>>

(* loadData catches its own failures: the list is then empty.              *)
ListAnswered ==
    /\ list = "sent" /\ list' = "none"
    /\ \/ rows' = Voided /\ UNCHANGED lost
       \/ lost < MaxLost /\ lost' = lost + 1 /\ rows' = Receipt
    /\ disabled' = FALSE
    /\ UNCHANGED <<reversals, shown, target, post>>

(* The list of Refresh, when no cancel waits for one.                      *)
Refresh ==
    /\ list = "none" /\ rows' = Voided
    /\ UNCHANGED <<reversals, shown, target, disabled, post, list, lost>>

-----------------------------------------------------------------------------
Init ==
    /\ reversals \in [Receipt -> 0 .. 1] /\ rows = Voided
    /\ shown = None /\ target = None /\ disabled = FALSE
    /\ post = NoPost /\ list = "none" /\ lost = 0

Settles == ServeCancel \/ Cancelled \/ Refused \/ ListAnswered
Next ==
    \/ \E r \in Receipt : OpenCancelModal(r) \/ SomebodyCancels(r)
    \/ Dismiss \/ ConfirmCancel \/ Settles \/ Lost \/ Refresh

Spec == Init /\ [][Next]_vars /\ WF_vars(Settles)

-----------------------------------------------------------------------------
(* A call under way keeps the button disabled, so that one is under way.   *)
TypeOK ==
    /\ reversals \in [Receipt -> Nat] /\ rows \subseteq Receipt
    /\ shown \in Receipt \cup {None} /\ target \in Receipt \cup {None}
    /\ post.at # "none" \/ list = "sent" => disabled

(* What is cancelled is what the modal shows when it is confirmed, also    *)
(* when one modal was left for another, or the answer of an earlier cancel *)
(* came in between.                                                        *)
PostsShown == post'.of # post.of /\ post'.of # None => post'.of = shown
ModalHasTarget == shown # None => target = shown

(* A receipt is reversed once, whoever cancels it and however often the    *)
(* answer is lost and the cancel tried again.                              *)
ReversedOnce == \A r \in Receipt : reversals[r] =< 1

(* Of the variables the two rest on: what CancelInv says is kept by every  *)
(* step.                                                                   *)
CancelInv ==
    /\ reversals \in [Receipt -> 0 .. 1] /\ {"of", "at"} \subseteq DOMAIN post
    /\ ModalHasTarget

(* The button comes back after every outcome.                              *)
CancelHeld == disabled
=============================================================================
