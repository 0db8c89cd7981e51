----------------------------- MODULE ImportsPage -----------------------------
(***************************************************************************)
(* The page that uploads a workbook of purchase orders (imports.js):       *)
(* dropzone, upload, preview, confirmation, polling of the run, and back   *)
(* to the dropzone.  What is shown is a matter of four flags, set by       *)
(* handlers that wait for the server while the buttons of the page go on   *)
(* working.                                                                *)
(***************************************************************************)
EXTENDS Integers, FiniteSets

CONSTANTS
    Run,         \* runs of the import, one for each workbook read
    MaxAttempts, \* polls of a run before the page gives up
    MaxRefused,  \* bound on uploads the server refuses
    Lossy,
    None

ImportsAssumption ==
    /\ IsFiniteSet(Run)
    /\ None \notin Run /\ MaxAttempts \in Nat \ {0} /\ MaxRefused \in Nat /\ Lossy \in BOOLEAN

VARIABLES
    runs,     \* the status of each run on the server
    panels,   \* what is shown: dropzone, preview, status, actions (under status)
    confirm,  \* the confirm button: hidden, disabled
    dialog,   \* the question "Confirm this import?" is open
    current,  \* currentRunId
    body,     \* what the status panel says
    net,      \* requests under way
    loops,    \* pollUntilTerminal: loops asleep
    refused

vars == <<runs, panels, confirm, dialog, current, body, net, loops, refused>>

Unused == CHOOSE n \in 1 .. Cardinality(net \cup loops) + 1 : \A r \in net \cup loops : r.id # n

(* A loop keeps its number, its run and its attempt in the request.        *)
Request(k, run, confirmed) ==
    [id |-> Unused, kind |-> k, run |-> run, confirmed |-> confirmed, attempt |-> 1, answer |-> "none"]

-----------------------------------------------------------------------------
(* The API and the worker.                                                 *)
Unread == {r \in Run : runs[r] = "none"}
Fresh == CHOOSE r \in Unread : TRUE

ServeUpload(r) ==
    /\ r.kind = "upload" /\ r.answer = "none"
    /\ \/ \E s \in {"validated", "validation_failed"} :
             /\ runs' = [runs EXCEPT ![Fresh] = s]
             /\ net' = (net \ {r}) \cup {[r EXCEPT !.run = Fresh, !.answer = s]}
             /\ UNCHANGED refused
       \/ /\ refused < MaxRefused /\ refused' = refused + 1
          /\ net' = (net \ {r}) \cup {[r EXCEPT !.answer = "refused"]}
          /\ UNCHANGED runs
    /\ UNCHANGED <<panels, confirm, dialog, current, body, loops>>

ServeConfirm(r) ==
    /\ r.kind = "confirm" /\ r.answer = "none"
    /\ LET ok == runs[r.run] = "validated" IN
       /\ net' = (net \ {r}) \cup {[r EXCEPT !.answer = IF ok THEN "accepted" ELSE "refused"]}
       /\ runs' = IF ok THEN [runs EXCEPT ![r.run] = "queued"] ELSE runs
    /\ UNCHANGED <<panels, confirm, dialog, current, body, loops, refused>>

ServePoll(r) ==
    /\ r.kind = "poll" /\ r.answer = "none"
    /\ net' = (net \ {r}) \cup {[r EXCEPT !.answer = IF r.run = None THEN "refused" ELSE runs[r.run]]}
    /\ UNCHANGED <<runs, panels, confirm, dialog, current, body, loops, refused>>

Lose(r) ==
    /\ Lossy /\ r.answer # "lost" /\ (r.answer = "none" \/ r.kind # "poll")
    /\ net' = (net \ {r}) \cup {[r EXCEPT !.answer = "lost"]}
    /\ UNCHANGED <<runs, panels, confirm, dialog, current, body, loops, refused>>

Work(r) ==
    /\ \/ runs[r] = "queued" /\ runs' = [runs EXCEPT ![r] = "running"]
       \/ runs[r] = "running" /\ \E s \in {"succeeded", "failed"} : runs' = [runs EXCEPT ![r] = s]
    /\ UNCHANGED <<panels, confirm, dialog, current, body, net, loops, refused>>

-----------------------------------------------------------------------------
Uploading == {r \in net : r.kind = "upload" /\ r.answer = "none"}

(* handleFile for a workbook of the right name and size: any other leaves  *)
(* the page as it is.                                                      *)
HandleFile ==
    /\ panels.dropzone
    /\ Cardinality(Uploading) < Cardinality(Unread) \* bound
    /\ panels' = [dropzone |-> FALSE, preview |-> FALSE, status |-> TRUE, actions |-> FALSE]
    /\ body' = "parsing"
    /\ net' = net \cup {Request("upload", None, None)}
    /\ UNCHANGED <<runs, confirm, dialog, current, loops, refused>>

ShowPreview(r) ==
    /\ r.kind = "upload" /\ r.answer \in {"validated", "validation_failed"}
    /\ net' = net \ {r}
    /\ current' = r.run
    /\ panels' = [panels EXCEPT !.status = FALSE, !.preview = TRUE]
    /\ confirm' = [confirm EXCEPT !.hidden = r.answer # "validated"]
    /\ UNCHANGED <<runs, dialog, body, loops, refused>>

ShowUploadError(r) ==
    /\ r.kind = "upload" /\ r.answer \in {"refused", "lost"}
    /\ net' = net \ {r}
    /\ panels' = [panels EXCEPT !.status = TRUE, !.actions = TRUE]
    /\ body' = "upload failed"
    /\ UNCHANGED <<runs, confirm, dialog, current, loops, refused>>

Ask ==
    /\ panels.preview /\ ~dialog /\ ~confirm.hidden /\ ~confirm.disabled
    /\ current # None
    /\ dialog' = TRUE
    /\ UNCHANGED <<runs, panels, confirm, current, body, net, loops, refused>>

SayNo == dialog /\ dialog' = FALSE /\ UNCHANGED <<runs, panels, confirm, current, body, net, loops, refused>>

ConfirmTaken == TRUE

SayYes ==
    /\ dialog /\ dialog' = FALSE
    /\ confirm' = [confirm EXCEPT !.disabled = ConfirmTaken]
    /\ net' = net \cup {Request("confirm", current, current)}
    /\ UNCHANGED <<runs, panels, current, body, loops, refused>>

(* Mutant: a confirmation that is lost leaves a panel without a button.    *)
ActionsAfterLost(r) == r.answer = "refused"
ActionsAfter(r) == TRUE

ConfirmFailed(r) ==
    /\ r.kind = "confirm" /\ r.answer \in {"refused", "lost"}
    /\ net' = net \ {r}
    /\ panels' = [panels EXCEPT !.preview = FALSE, !.status = TRUE, !.actions = ActionsAfter(r)]
    /\ confirm' = [confirm EXCEPT !.disabled = FALSE]
    /\ body' = "confirm failed"
    /\ UNCHANGED <<runs, dialog, current, loops, refused>>

(* The run polled is the current one, read when the answer is in.          *)
StartPolling(r) ==
    /\ r.kind = "confirm" /\ r.answer = "accepted"
    /\ net' = net \ {r}
    /\ loops' = loops \cup {[r EXCEPT !.kind = "poll", !.run = current, !.answer = "none"]}
    /\ panels' = [panels EXCEPT !.preview = FALSE, !.status = TRUE, !.actions = FALSE]
    /\ confirm' = [confirm EXCEPT !.disabled = FALSE]
    /\ body' = "queued"
    /\ UNCHANGED <<runs, dialog, current, refused>>

Poll(r) ==
    /\ r \in loops
    /\ loops' = loops \ {r} /\ net' = net \cup {r}
    /\ UNCHANGED <<runs, panels, confirm, dialog, current, body, refused>>

ShowTerminal(s) == body' = s /\ panels' = [panels EXCEPT !.actions = TRUE]

PollEnds(r) ==
    /\ r.kind = "poll" /\ r.answer \in {"succeeded", "failed", "refused", "lost"}
    /\ net' = net \ {r}
    /\ ShowTerminal(IF r.answer = "succeeded" THEN "succeeded" ELSE "failed")
    /\ UNCHANGED <<runs, confirm, dialog, current, loops, refused>>

AnotherPoll(r) == r.attempt < MaxAttempts

PollAgain(r) ==
    /\ r.kind = "poll" /\ r.answer \in {"validated", "validation_failed", "queued", "running"}
    /\ net' = net \ {r}
    /\ IF AnotherPoll(r)
       THEN /\ loops' = loops \cup {[r EXCEPT !.attempt = @ + 1, !.answer = "none"]}
            /\ body' = r.answer /\ UNCHANGED panels
       ELSE ShowTerminal("timed out") /\ UNCHANGED loops
    /\ UNCHANGED <<runs, confirm, dialog, current, refused>>

ResetToDropzone ==
    /\ ~dialog
    /\ panels.preview \/ (panels.status /\ panels.actions)
    /\ panels' = [dropzone |-> TRUE, preview |-> FALSE, status |-> FALSE, actions |-> FALSE]
    /\ confirm' = [hidden |-> FALSE, disabled |-> FALSE]
    /\ current' = None /\ body' = "none"
    /\ UNCHANGED <<runs, dialog, net, loops, refused>>

-----------------------------------------------------------------------------
Init ==
    /\ runs = [r \in Run |-> "none"]
    /\ panels = [dropzone |-> TRUE, preview |-> FALSE, status |-> FALSE, actions |-> FALSE]
    /\ confirm = [hidden |-> FALSE, disabled |-> FALSE]
    /\ dialog = FALSE /\ current = None /\ body = "none"
    /\ net = {} /\ loops = {} /\ refused = 0

User == HandleFile \/ Ask \/ SayNo \/ SayYes \/ ResetToDropzone
Serve(r) == ServeUpload(r) \/ ServeConfirm(r) \/ ServePoll(r)
Answer(r) ==
    ShowPreview(r) \/ ShowUploadError(r) \/ ConfirmFailed(r) \/ StartPolling(r) \/ PollEnds(r) \/ PollAgain(r)

Next ==
    \/ User
    \/ \E r \in net : Serve(r) \/ Lose(r) \/ Answer(r)
    \/ \E r \in loops : Poll(r)
    \/ \E r \in Run : Work(r)

Settles(n) == (\E r \in net : r.id = n /\ (Serve(r) \/ Answer(r))) \/ (\E r \in loops : r.id = n /\ Poll(r))

(* Requests settle and sleeps end; the worker may take for ever.           *)
Spec == Init /\ [][Next]_vars /\ \A n \in 1 .. Cardinality(Run) + 1 : WF_vars(Settles(n))

-----------------------------------------------------------------------------
(* Requests and loops are told apart; a loop polls so many times.          *)
TypeOK ==
    /\ runs \in [Run -> {"none", "validated", "validation_failed", "queued", "running", "succeeded", "failed"}]
    /\ panels \in [dropzone : BOOLEAN, preview : BOOLEAN, status : BOOLEAN, actions : BOOLEAN]
    /\ confirm \in [hidden : BOOLEAN, disabled : BOOLEAN]
    /\ current \in Run \cup {None}
    /\ \A r, q \in net \cup loops : r.id = q.id => r = q
    /\ \A r \in net \cup loops : r.attempt \in 1 .. MaxAttempts

(* A run is never confirmed twice, over cancellations and further uploads: *)
(* the button that is shown enabled, or asked about, is that of a run no   *)
(* confirmation is under way for.                                          *)
ConfirmedOnce ==
    (dialog \/ (panels.preview /\ ~confirm.hidden /\ ~confirm.disabled)) =>
        /\ current # None
        /\ \A r \in net : r.kind = "confirm" => r.run # current

(* The same as every step keeps it: a workbook that is validated has a run *)
(* of its own, that nobody has confirmed or sees yet.                      *)
Validated == {r \in net : r.kind = "upload" /\ r.answer \in {"validated", "validation_failed"}}
Confirming == {r \in net : r.kind = "confirm"}
ConfirmInv ==
    /\ ConfirmedOnce
    /\ DOMAIN panels = {"dropzone", "preview", "status", "actions"}
    /\ DOMAIN confirm = {"hidden", "disabled"}
    /\ \A r \in net \cup loops : {"kind", "run", "answer", "attempt"} \subseteq DOMAIN r
    /\ \A r \in loops : r.kind = "poll"
    /\ \A r \in Confirming : r.run \in Run /\ runs[r.run] # "none"
    /\ current # None => current \in Run /\ runs[current] # "none"
    /\ \A r \in Validated :
        /\ r.run \in Run /\ runs[r.run] # "none" /\ r.run # current
        /\ \A q \in Confirming : q.run # r.run
        /\ \A q \in Validated : q.run = r.run => q = r
    /\ IsFiniteSet(net) /\ DOMAIN runs = Run
    /\ Cardinality(Uploading) =< Cardinality(Unread)

(* The operator is never left in front of a panel without a button: what   *)
(* was started comes back as a preview, a message or a dropzone.           *)
Way == panels.dropzone \/ panels.preview \/ (panels.status /\ panels.actions)
=============================================================================
