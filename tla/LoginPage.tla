----------------------------- MODULE LoginPage -----------------------------
(***************************************************************************)
(* The sign-in page (login.js): the warehouses offered follow the user     *)
(* name being typed, by lookups that are debounced, numbered and answered  *)
(* in any order; the form posts what it shows, and the server              *)
(* (AuthService.LoginAsync) signs in or refuses.                           *)
(***************************************************************************)
EXTENDS Integers, FiniteSets

CONSTANTS
    User, Warehouse,
    Assigned,  \* the warehouses of each user, an admin's are all of them
    Demo,      \* the user Demo fill types
    MaxLookup, \* bound on the lookups
    MaxLost,   \* bound on the requests that fail
    None

LoginAssumption ==
    /\ Assigned \in [User -> SUBSET Warehouse] /\ Demo \in User /\ None \notin User \cup Warehouse
    /\ MaxLookup \in Nat /\ MaxLost \in Nat

VARIABLES
    username,  \* as typed and trimmed, None when empty
    debounce,  \* typeTimer
    token,     \* warehouseFetchToken
    options,   \* whose warehouses are offered, or a message
    chosen,    \* the value of the select
    button,    \* Sign in: enabled or loading
    session,   \* who is signed in, and where
    lookups, post, lost

vars == <<username, debounce, token, options, chosen, button, session, lookups, post, lost>>

Message(k) == [kind |-> k, of |-> None, items |-> {}]
ListFor(u) ==
    [kind |-> IF Assigned[u] = {} THEN "none" ELSE "list", of |-> u, items |-> Assigned[u]]
NoPost == [of |-> None, warehouse |-> None, answer |-> "none"]
NoSession == [of |-> None, warehouse |-> None]

(* The select shows its first option, or the value of none.                *)
Offer(o) ==
    /\ options' = o
    /\ IF o.items = {} THEN chosen' = None ELSE chosen' \in o.items

-----------------------------------------------------------------------------
(* refreshWarehouseOptions, up to its fetch, for a name in the input.      *)
Lookup(u) ==
    IF u = None
    THEN Offer(Message("prompt")) /\ UNCHANGED <<token, lookups>>
    ELSE /\ token < MaxLookup /\ token' = token + 1
         /\ lookups' = lookups \cup {[token |-> token + 1, of |-> u, answer |-> "none"]}
         /\ UNCHANGED <<options, chosen>>

Type(u) ==
    /\ u # username /\ username' = u
    /\ debounce' = TRUE
    /\ UNCHANGED <<token, options, chosen, button, session, lookups, post, lost>>

DebounceEnds ==
    /\ debounce /\ debounce' = FALSE
    /\ Lookup(username)
    /\ UNCHANGED <<username, button, session, post, lost>>

Blur ==
    /\ Lookup(username)
    /\ UNCHANGED <<username, debounce, button, session, post, lost>>

DemoFill ==
    /\ username' = Demo
    /\ Lookup(Demo)
    /\ UNCHANGED <<debounce, button, session, post, lost>>

Serve(r) ==
    /\ r.answer = "none"
    /\ \/ lookups' = (lookups \ {r}) \cup {[r EXCEPT !.answer = "ok"]} /\ UNCHANGED lost
       \/ /\ lost < MaxLost /\ lost' = lost + 1
          /\ lookups' = (lookups \ {r}) \cup {[r EXCEPT !.answer = "error"]}
    /\ UNCHANGED <<username, debounce, token, options, chosen, button, session, post>>

Current(r) == r.token = token

LookupAnswer(r) ==
    /\ r.answer # "none"
    /\ lookups' = lookups \ {r}
    /\ IF Current(r)
       THEN Offer(IF r.answer = "ok" THEN ListFor(r.of) ELSE Message("error"))
       ELSE UNCHANGED <<options, chosen>>
    /\ UNCHANGED <<username, debounce, token, button, session, post, lost>>

Choose(w) ==
    /\ options.kind = "list" /\ w \in options.items /\ chosen' = w
    /\ UNCHANGED <<username, debounce, token, options, button, session, lookups, post, lost>>

-----------------------------------------------------------------------------
(* The form is posted, a password given.                                   *)
Submit ==
    /\ username # None /\ chosen # None
    /\ button = "enabled" /\ session = NoSession
    /\ button' = "loading"
    /\ post' = [of |-> username, warehouse |-> chosen, answer |-> "none"]
    /\ UNCHANGED <<username, debounce, token, options, chosen, session, lookups, lost>>

(* LoginAsync refuses a user without the warehouse, and any for what the   *)
(* page knows nothing of: the account, its password, whether it or the     *)
(* warehouse is active.                                                    *)
Admits(u, w) == w \in Assigned[u]

ServePost ==
    /\ post.of # None /\ post.answer = "none"
    /\ \/ /\ Admits(post.of, post.warehouse)
          /\ session' = [of |-> post.of, warehouse |-> post.warehouse]
          /\ post' = [post EXCEPT !.answer = "ok"]
       \/ post' = [post EXCEPT !.answer = "refused"] /\ UNCHANGED session
    /\ UNCHANGED <<username, debounce, token, options, chosen, button, lookups, lost>>

(* The answer is lost, be the user signed in or not.                       *)
PostLost ==
    /\ post.answer = "ok" \/ (post.of # None /\ post.answer = "none")
    /\ lost < MaxLost /\ lost' = lost + 1
    /\ post' = [post EXCEPT !.answer = "error"]
    /\ UNCHANGED <<username, debounce, token, options, chosen, button, session, lookups>>

(* The button comes back in any case.                                      *)
AfterPost(answer) == "enabled"

(* Signed in, the browser leaves the page.                                 *)
PostAnswer ==
    /\ post.answer # "none"
    /\ button' = AfterPost(post.answer)
    /\ post' = NoPost
    /\ UNCHANGED <<username, debounce, token, options, chosen, session, lookups, lost>>

-----------------------------------------------------------------------------
Init ==
    /\ username = None /\ debounce = FALSE /\ token = 0
    /\ options = Message("prompt") /\ chosen = None
    /\ button = "enabled" /\ session = NoSession
    /\ lookups = {} /\ post = NoPost /\ lost = 0

Next ==
    \/ \E u \in User \cup {None} : Type(u)
    \/ DebounceEnds \/ Blur \/ DemoFill \/ Submit \/ ServePost \/ PostLost \/ PostAnswer
    \/ \E r \in lookups : Serve(r) \/ LookupAnswer(r)
    \/ \E w \in Warehouse : Choose(w)

Settles(n) == \E r \in lookups : r.token = n /\ (Serve(r) \/ LookupAnswer(r))
Spec ==
    /\ Init /\ [][Next]_vars
    /\ \A n \in 1 .. MaxLookup : WF_vars(Settles(n))
    /\ WF_vars(ServePost \/ PostAnswer)

-----------------------------------------------------------------------------
(* What is chosen is offered.                                              *)
TypeOK ==
    /\ username \in User \cup {None} /\ debounce \in BOOLEAN /\ token \in 0 .. MaxLookup
    /\ options.kind \in {"prompt", "error", "none", "list"} /\ options.items \subseteq Warehouse
    /\ chosen \in options.items \cup {None} /\ (chosen = None <=> options.items = {})
    /\ session.of \in User \cup {None}

(* The warehouses offered are those of the user typed, or a lookup for     *)
(* that user is about to be made or is the one whose answer counts, or its *)
(* failure is shown.                                                       *)
OptionsFollow ==
    username # None /\ options.of # username =>
        \/ debounce \/ options.kind = "error"
        \/ \E r \in lookups : r.of = username /\ r.token = token

(* Nobody is signed in to a warehouse not assigned, whatever the form      *)
(* offered when it was posted.                                             *)
SessionAssigned == session # NoSession => session.warehouse \in Assigned[session.of]

(* The two as every step keeps them: the lookup whose answer counts is the *)
(* last one, and for the name typed unless that was changed since.         *)
FollowInv ==
    /\ token \in Nat
    /\ \A r \in lookups : {"token", "of", "answer"} \subseteq DOMAIN r /\ r.token \in 0 .. token
    /\ username = None \/ debounce \/ \A r \in lookups : r.token = token => r.of = username
    /\ OptionsFollow /\ SessionAssigned

(* The button comes back.                                                  *)
SigningIn == button = "loading"

=============================================================================
