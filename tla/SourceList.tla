----------------------------- MODULE SourceList ------------------------------
(***************************************************************************)
(* The list of ERP sources in the dialog that starts a synchronisation     *)
(* (erp-source-dropdown.js): filled from the configuration each time the   *)
(* dialog is opened, with a label that repeats the choice.  The value of   *)
(* the list is what the trigger posts; All stands for the empty value.     *)
(***************************************************************************)
EXTENDS Integers, FiniteSets, Sequences

CONSTANTS
    Registry, \* SOURCE_REGISTRY: the known sources, in order
    MaxOpen,  \* bound on openings of the dialog
    All

Source == {Registry[i] : i \in DOMAIN Registry}

ListAssumption == Registry \in Seq(STRING) /\ All \notin Source /\ MaxOpen \in Nat

VARIABLES
    config,  \* the sources the configuration enables
    open,    \* the dialog is shown
    options, \* the options of the list, in order: a source, All, or a message
    value,   \* the value of the list
    label,   \* what the label says: a source, or All for "all enabled sources"
    posted,  \* the source posted last, All for no filter, and the label then
    net,     \* requests of populate not answered: what each will say
    opens

vars == <<config, open, options, value, label, posted, net, opens>>

Message == {"none enabled", "error"}
Unused == CHOOSE n \in 1 .. MaxOpen : \A r \in net : r.id # n

ValueOf(o) == IF o \in Source THEN o ELSE All

Configure(s) ==
    /\ config # s /\ config' = s
    /\ UNCHANGED <<open, options, value, label, posted, net, opens>>

Serve(r) ==
    /\ r.answer = "none"
    /\ \E a \in {config, {"error"}} : net' = (net \ {r}) \cup {[r EXCEPT !.answer = "some", !.enabled = a]}
    /\ UNCHANGED <<config, open, options, value, label, posted, opens>>

-----------------------------------------------------------------------------
(* populate, up to its fetch.                                              *)
Open ==
    /\ ~open
    /\ opens < MaxOpen /\ opens' = opens + 1
    /\ options' = <<>> /\ value' = All
    /\ net' = net \cup {[id |-> Unused, answer |-> "none", enabled |-> {}]}
    /\ UNCHANGED <<config, open, label, posted>>

(* "All enabled" comes first, when there are two or more to choose from.   *)
Built(enabled) ==
    LET names == SelectSeq(Registry, LAMBDA s : s \in enabled)
    IN CASE names = <<>> -> <<"none enabled">>
         [] Len(names) = 1 -> names
         [] OTHER -> <<All>> \o names

(* The value of a list that had none is that of its first option; the only *)
(* source is chosen; the message that nothing is enabled chooses itself.   *)
Chosen(before, built) ==
    IF before = <<>> \/ Len(built) = 1 THEN ValueOf(built[1]) ELSE value

LabelOf(v) == v

PopulateAnswer(r) ==
    /\ r.answer = "some" /\ r.enabled # {"error"}
    /\ net' = net \ {r}
    /\ options' = options \o Built(r.enabled)
    /\ value' = Chosen(options, Built(r.enabled))
    /\ label' = LabelOf(value')
    /\ open' = TRUE
    /\ UNCHANGED <<config, posted, opens>>

PopulateError(r) ==
    /\ r.answer = "some" /\ r.enabled = {"error"}
    /\ net' = net \ {r}
    /\ options' = <<"error">> /\ value' = All
    /\ label' = All
    /\ open' = TRUE
    /\ UNCHANGED <<config, posted, opens>>

(* The operator chooses an option that is not a message.                   *)
Choose(i) ==
    /\ open /\ options[i] \notin Message
    /\ value' = ValueOf(options[i])
    /\ label' = LabelOf(value')
    /\ UNCHANGED <<config, open, options, posted, net, opens>>

Trigger ==
    /\ open
    /\ posted' = [source |-> value, told |-> label]
    /\ UNCHANGED <<config, open, options, value, label, net, opens>>

Dismiss ==
    /\ open /\ open' = FALSE
    /\ UNCHANGED <<config, options, value, label, posted, net, opens>>

-----------------------------------------------------------------------------
Init ==
    /\ config \in SUBSET Source
    /\ open = FALSE /\ options = <<>> /\ value = All /\ label = All
    /\ posted = [source |-> All, told |-> All]
    /\ net = {} /\ opens = 0

Next ==
    \/ \E s \in SUBSET Source : Configure(s)
    \/ \E r \in net : Serve(r) \/ PopulateAnswer(r) \/ PopulateError(r)
    \/ \E i \in DOMAIN options : Choose(i)
    \/ Open \/ Trigger \/ Dismiss

Spec == Init /\ [][Next]_vars

-----------------------------------------------------------------------------
(* The list holds options of the registry, All and messages; the value is  *)
(* that of an option, if there is one.                                     *)
TypeOK ==
    /\ config \subseteq Source /\ open \in BOOLEAN
    /\ options \in Seq(Source \cup Message \cup {All})
    /\ options # <<>> => \E i \in DOMAIN options : value = ValueOf(options[i])
    /\ label \in Source \cup {All}

(* Over slow, failed and overlapping fills of the list, the label of an    *)
(* open dialog names what would be posted, and what is posted is what the  *)
(* operator was told.                                                      *)
LabelTellsPosted == (open => label = value) /\ posted.source = posted.told
=============================================================================
