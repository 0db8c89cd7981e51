---------------------------- MODULE AppSettings ----------------------------
(***************************************************************************)
(* dbo.AppSettings: the seeder and the migrator that run at every start    *)
(* (Program.cs), statement by statement, the requests of the configuration *)
(* page, key by key, and what a key is read as.  Each statement commits on *)
(* its own, so a start or a request that dies leaves what it has written.  *)
(* The hash of the value before and the audit rows are left out: nothing   *)
(* reads them.                                                             *)
(***************************************************************************)
EXTENDS Integers, Functions

CONSTANTS
    Value, Admin,
    Section,   \* the keys of the page, by section
    Secret,    \* those that are stored encrypted
    Successor, \* the nested key each flat key of an older release became
    Earlier,   \* tables an older release may have left
    Shipped,   \* what appsettings.json and the user secrets may say
    MaxRequest, MaxFault, MaxDeploy \* bounds

Flat == DOMAIN Successor
Nested == Range(Successor)
OnPage == UNION Section
Key == OnPage \cup Flat
Content == {"absent", "cleared"} \cup Value
Known == {"unset"} \cup Value

AppSettingsAssumption ==
    /\ {"absent", "cleared", "unset"} \cap Value = {}
    /\ Secret \subseteq OnPage /\ Nested \subseteq OnPage \ Secret
    /\ Flat \cap OnPage = {} /\ IsInjective(Successor)
    /\ Earlier \subseteq [Key -> Content] /\ Shipped \subseteq [Key -> Known]
    /\ \A t \in Earlier, k \in Nested : t[k] = "absent"
    /\ MaxRequest \in Nat /\ MaxFault \in Nat /\ MaxDeploy \in Nat

VARIABLES
    row,      \* the table: a cleared key has a row without a value
    file, env, \* IConfiguration: the files, and the environment over them
    pc,       \* of the start
    todo,     \* keys it has still to write
    request,  \* what an admin's request has still to write
    requests, faults, deploys

vars == <<row, file, env, pc, todo, request, requests, faults, deploys>>

HasValue(k) == row[k] \in Value
Idle == [k \in {} |-> "absent"]

-----------------------------------------------------------------------------
(* _configuration[key], and GetAsync: environment, table, files.  A secret *)
(* that was cleared reads as none, another key falls through to the files. *)
Configured(k) == IF env[k] # "unset" THEN env[k] ELSE file[k]
Reads(k) ==
    CASE env[k] # "unset" -> env[k]
      [] env[k] = "unset" /\ HasValue(k) -> row[k]
      [] env[k] = "unset" /\ row[k] = "cleared" /\ k \in Secret -> "unset"
      [] OTHER -> Configured(k)

-----------------------------------------------------------------------------
(* AppSettingsSeeder.RunAsync: an empty table gets what the configuration  *)
(* has for the keys right under a section.                                *)
ToSeed == {k \in Key \ Nested : Configured(k) # "unset" /\ \A j \in Key : row[j] = "absent"}

Start ==
    /\ pc = "down"
    /\ pc' = "seed" /\ todo' = ToSeed
    /\ UNCHANGED <<row, file, env, request, requests, faults, deploys>>

Seed(k) ==
    /\ pc = "seed" /\ k \in todo
    /\ row' = [row EXCEPT ![k] = Configured(k)]
    /\ todo' = todo \ {k}
    /\ UNCHANGED <<file, env, pc, request, requests, faults, deploys>>

(* ErpSyncOptionsMigrator.RunAsync: a flat key that has a value is copied, *)
(* unless its successor has one, and then deleted.                         *)
Moved(f) == HasValue(Successor[f])

Migrate ==
    /\ pc = "seed" /\ todo = {}
    /\ pc' = "migrate" /\ todo' = {f \in Flat : HasValue(f)}
    /\ UNCHANGED <<row, file, env, request, requests, faults, deploys>>

Copy(f) ==
    /\ pc = "migrate" /\ f \in todo
    /\ ~HasValue(Successor[f])
    /\ row' = [row EXCEPT ![Successor[f]] = row[f]]
    /\ UNCHANGED <<file, env, pc, todo, request, requests, faults, deploys>>

Remove(f) ==
    /\ pc = "migrate" /\ f \in todo
    /\ Moved(f)
    /\ row' = [row EXCEPT ![f] = "absent"]
    /\ todo' = todo \ {f}
    /\ UNCHANGED <<file, env, pc, request, requests, faults, deploys>>

(* The host is up: options are bound from what is read now.                *)
Run ==
    /\ pc = "migrate" /\ todo = {}
    /\ pc' = "up"
    /\ UNCHANGED <<row, file, env, todo, request, requests, faults, deploys>>

-----------------------------------------------------------------------------
(* UpdateSection takes some keys that are no secrets, a blank for clearing *)
(* them; UpdateSecret and RegenerateSigningKey one secret; ResetSection    *)
(* deletes all keys of a section.                                          *)
Updates(s) == UNION {[K -> Value \cup {"cleared"}] : K \in (SUBSET (s \ Secret)) \ {{}}}
Secrets(s) == UNION {[{k} -> Value] : k \in s \cap Secret}
Resets(s) == {[k \in s |-> "absent"]}

Ask(a) ==
    /\ pc = "up" /\ request[a] = Idle /\ requests < MaxRequest
    /\ \E s \in Section : \E r \in Updates(s) \cup Secrets(s) \cup Resets(s) :
          request' = [request EXCEPT ![a] = r]
    /\ requests' = requests + 1
    /\ UNCHANGED <<row, file, env, pc, todo, faults, deploys>>

(* SetAsync or DeleteAsync of the next key.                                *)
Write(a) ==
    /\ pc = "up"
    /\ \E k \in DOMAIN request[a] :
          /\ row' = [row EXCEPT ![k] = request[a][k]]
          /\ request' = [request EXCEPT ![a] = Restrict(request[a], DOMAIN request[a] \ {k})]
    /\ UNCHANGED <<file, env, pc, todo, requests, faults, deploys>>

(* A statement fails: the keys written before stay.                        *)
WriteFails(a) ==
    /\ pc = "up" /\ request[a] # Idle /\ faults < MaxFault
    /\ request' = [request EXCEPT ![a] = Idle]
    /\ faults' = faults + 1
    /\ UNCHANGED <<row, file, env, pc, todo, requests, deploys>>

(* The process ends, by will, in a crash or by a start that fails; while   *)
(* it is down a release may change a file or the environment.              *)
Stop ==
    /\ pc # "down" /\ faults < MaxFault
    /\ pc' = "down" /\ todo' = {} /\ request' = [a \in Admin |-> Idle]
    /\ faults' = faults + 1
    /\ UNCHANGED <<row, file, env, requests, deploys>>

Deploy ==
    /\ pc = "down" /\ deploys < MaxDeploy
    /\ deploys' = deploys + 1
    /\ \E k \in Key, v \in Known :
          \/ file' = [file EXCEPT ![k] = v] /\ UNCHANGED env
          \/ env' = [env EXCEPT ![k] = v] /\ UNCHANGED file
    /\ UNCHANGED <<row, pc, todo, request, requests, faults>>

-----------------------------------------------------------------------------
Init ==
    /\ row \in Earlier /\ file \in Shipped
    /\ env = [k \in Key |-> "unset"]
    /\ pc = "down" /\ todo = {}
    /\ request = [a \in Admin |-> Idle]
    /\ requests = 0 /\ faults = 0 /\ deploys = 0

Next ==
    \/ Start \/ Migrate \/ Run \/ Stop \/ Deploy
    \/ \E k \in Key : Seed(k) \/ Copy(k) \/ Remove(k)
    \/ \E a \in Admin : Ask(a) \/ Write(a) \/ WriteFails(a)

-----------------------------------------------------------------------------
(* The rows hold what CK_AppSettings allows; a start writes only what it   *)
(* read.                                                                   *)
TypeOK ==
    /\ row \in [Key -> Content]
    /\ file \in [Key -> Known] /\ env \in [Key -> Known]
    /\ pc \in {"down", "seed", "migrate", "up"} /\ todo \subseteq Key
    /\ \A a \in Admin : DOMAIN request[a] \subseteq OnPage

(* AppSettingsSeeder and ErpSyncOptionsMigrator: what an admin has saved   *)
(* or cleared stays until a request says otherwise, whatever files change  *)
(* and however often and wherever a start dies.                            *)
SavedStands ==
    \A k \in OnPage : row[k] # "absent" /\ row'[k] # row[k] => pc = "up"

(* A start changes what no key is read as, and the value of a flat key is  *)
(* never lost on its way to the nested one.                                *)
Starting == pc \in {"seed", "migrate"}
Carried(f) == IF HasValue(Successor[f]) THEN row[Successor[f]]
              ELSE IF HasValue(f) THEN row[f] ELSE "unset"
StartKeepsValues ==
    Starting =>
        /\ \A k \in OnPage \ Nested : Reads(k)' = Reads(k)
        /\ \A f \in Flat : Carried(f) # "unset" => Carried(f)' = Carried(f)

(* Nothing is left to migrate once the program runs.                       *)
FlatIsGone == pc = "up" => \A f \in Flat : ~HasValue(f)

-----------------------------------------------------------------------------
(* Why they hold.  The keys the seeder has still to write have no row, and *)
(* no nested key has one while there are any; the migrator has just the    *)
(* flat keys with a value still to move; and while there is such a key, no *)
(* start has come to its end and no nested key was cleared.                *)
Tables ==
    /\ row \in [Key -> Content]
    /\ file \in [Key -> Known] /\ env \in [Key -> Known]
    /\ pc \in {"down", "seed", "migrate", "up"} /\ todo \subseteq Key
Requests ==
    \A a \in Admin :
        /\ DOMAIN request[a] \subseteq OnPage
        /\ \A k \in DOMAIN request[a] : request[a][k] \in Content
Seeding ==
    pc = "seed" =>
        /\ \A k \in todo : row[k] = "absent" /\ k \notin Nested /\ Configured(k) # "unset"
        /\ todo # {} => \A n \in Nested : row[n] = "absent"
Migrating == pc = "migrate" => todo = {f \in Flat : HasValue(f)}
Uncleared == \A f \in Flat : HasValue(f) => pc # "up" /\ \A n \in Nested : row[n] # "cleared"
SettingsInv == Tables /\ Requests /\ Seeding /\ Migrating /\ Uncleared
=============================================================================
