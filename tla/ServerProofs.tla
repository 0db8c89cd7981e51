---------------------------- MODULE ServerProofs ----------------------------
(***************************************************************************)
(* The properties TLC checks of the scenes of MCServer follow from what    *)
(* the proofs of the components show for every value of their constants.   *)
(* What is shown of AppSettings has no module of its own and comes first.  *)
(***************************************************************************)
EXTENDS MCServer, TLAPS

-----------------------------------------------------------------------------
(* The settings.  What an admin has decided stands because a start writes  *)
(* only keys without a row, and a nested key the migrator writes is never  *)
(* a cleared one: when one can be cleared, no flat key has a value left.   *)
(* Of the instance the proofs use AppSettingsAssumption alone.             *)
LEMMA Successors ==
  ASSUME Conf!AppSettingsAssumption
  PROVE  /\ Conf!Nested \subseteq Conf!Key /\ Conf!Flat \subseteq Conf!Key
         /\ Conf!OnPage \subseteq Conf!Key
         /\ Conf!Nested \cap Conf!Flat = {}
         /\ \A f \in Conf!Flat : Becomes[f] \in Conf!Nested
         /\ \A f, g \in Conf!Flat : Becomes[f] = Becomes[g] => f = g
BY DEF Conf!AppSettingsAssumption, Conf!Nested, Conf!Flat, Conf!Key, Conf!Range,
   Conf!IsInjective

LEMMA SettingsInit == Conf!AppSettingsAssumption /\ Conf!Init => Conf!SettingsInv
<1> SUFFICES ASSUME Conf!AppSettingsAssumption, Conf!Init
             PROVE  Conf!SettingsInv
  OBVIOUS
<1> USE Successors DEF Conf!Init, Conf!AppSettingsAssumption
<1>1. Conf!Tables
  BY DEF Conf!Tables, Conf!Known
<1>2. Conf!Requests
  BY DEF Conf!Requests, Conf!Idle
<1>3. Conf!Uncleared
  BY DEF Conf!Uncleared
<1> QED
  BY <1>1, <1>2, <1>3 DEF Conf!SettingsInv, Conf!Seeding, Conf!Migrating

LEMMA AskedFit ==
  ASSUME NEW s \in Sections, NEW r \in Conf!Updates(s) \cup Conf!Secrets(s) \cup Conf!Resets(s)
  PROVE  DOMAIN r \subseteq Conf!OnPage /\ \A k \in DOMAIN r : r[k] \in Conf!Content
<1>0. s \subseteq Conf!OnPage
  BY DEF Conf!OnPage
<1>1. CASE r \in Conf!Updates(s)
  <2>1. PICK K \in SUBSET (s \ Hidden) : r \in [K -> Values \cup {"cleared"}]
    BY <1>1 DEF Conf!Updates
  <2> QED
    BY <1>0, <2>1 DEF Conf!Content
<1>2. CASE r \in Conf!Secrets(s)
  <2>1. PICK k \in s \cap Hidden : r \in [{k} -> Values]
    BY <1>2 DEF Conf!Secrets
  <2> QED
    BY <1>0, <2>1 DEF Conf!Content
<1>3. CASE r \in Conf!Resets(s)
  BY <1>0, <1>3 DEF Conf!Resets, Conf!Content
<1> QED
  BY <1>1, <1>2, <1>3

LEMMA SeedKeeps ==
  ASSUME Conf!AppSettingsAssumption, Conf!SettingsInv, NEW k \in Conf!Key, Conf!Seed(k)
  PROVE  Conf!SettingsInv'
<1> USE Successors DEF Conf!SettingsInv, Conf!Tables, Conf!Seed
<1>1. Conf!Configured(k) \in Values
  BY DEF Conf!Seeding, Conf!Configured, Conf!Known
<1>2. Conf!Tables'
  BY <1>1 DEF Conf!Content
<1>3. Conf!Seeding'
  BY DEF Conf!Seeding, Conf!Configured
<1>4. Conf!Uncleared'
  BY DEF Conf!Uncleared, Conf!Seeding, Conf!HasValue
<1> QED
  BY <1>2, <1>3, <1>4 DEF Conf!Requests, Conf!Migrating

LEMMA CopyKeeps ==
  ASSUME Conf!AppSettingsAssumption, Conf!SettingsInv, NEW f \in Conf!Key, Conf!Copy(f)
  PROVE  Conf!SettingsInv'
<1> USE Successors DEF Conf!SettingsInv, Conf!Tables, Conf!Copy
<1>1. f \in Conf!Flat /\ Becomes[f] \in Conf!Nested
  BY DEF Conf!Migrating
<1>2. Conf!Tables'
  BY <1>1
<1>3. \A g \in Conf!Flat : m1'[g] = m1[g]
  BY <1>1
<1>4. Conf!Migrating'
  BY <1>3 DEF Conf!Migrating, Conf!HasValue
<1>5. Conf!Uncleared'
  BY <1>1, <1>3 DEF Conf!Migrating, Conf!Uncleared, Conf!HasValue, Conf!AppSettingsAssumption
<1> QED
  BY <1>2, <1>4, <1>5 DEF Conf!Requests, Conf!Seeding

LEMMA RemoveKeeps ==
  ASSUME Conf!AppSettingsAssumption, Conf!SettingsInv, NEW f \in Conf!Key, Conf!Remove(f)
  PROVE  Conf!SettingsInv'
<1> USE Successors DEF Conf!SettingsInv, Conf!Tables, Conf!Remove
<1>1. Conf!Tables'
  BY DEF Conf!Content
<1>2. Conf!Migrating'
  BY DEF Conf!Migrating, Conf!HasValue, Conf!AppSettingsAssumption
<1>3. Conf!Uncleared'
  BY DEF Conf!Uncleared, Conf!HasValue, Conf!AppSettingsAssumption
<1> QED
  BY <1>1, <1>2, <1>3 DEF Conf!Requests, Conf!Seeding

LEMMA WriteKeeps ==
  ASSUME Conf!AppSettingsAssumption, Conf!SettingsInv, NEW u \in Admins, Conf!Write(u)
  PROVE  Conf!SettingsInv'
<1> USE Successors DEF Conf!SettingsInv, Conf!Tables
<1>1. PICK k \in DOMAIN m6[u] :
          /\ m1' = [m1 EXCEPT ![k] = m6[u][k]]
          /\ m6' = [m6 EXCEPT ![u] = Conf!Restrict(m6[u], DOMAIN m6[u] \ {k})]
  BY DEF Conf!Write
<1>2. k \in Conf!OnPage /\ m6[u][k] \in Conf!Content
  BY DEF Conf!Requests
<1>3. Conf!Tables'
  BY <1>1, <1>2 DEF Conf!Write
<1>4. Conf!Requests'
  BY <1>1 DEF Conf!Requests, Conf!Restrict
<1>5. Conf!Uncleared'
  BY <1>1, <1>2 DEF Conf!Uncleared, Conf!HasValue, Conf!Write, Conf!AppSettingsAssumption
<1> QED
  BY <1>3, <1>4, <1>5 DEF Conf!Seeding, Conf!Migrating, Conf!Write

LEMMA SettingsStep ==
  ASSUME Conf!AppSettingsAssumption, Conf!SettingsInv, [Conf!Next]_(Conf!vars)
  PROVE  Conf!SettingsInv'
<1> USE Successors DEF Conf!SettingsInv, Conf!Tables, Conf!Requests, Conf!Seeding,
       Conf!Migrating, Conf!Uncleared, Conf!HasValue, Conf!Configured
<1>1. CASE Conf!Start
  BY <1>1 DEF Conf!Start, Conf!ToSeed
<1>2. CASE Conf!Migrate
  BY <1>2 DEF Conf!Migrate
<1>3. CASE Conf!Run
  BY <1>3 DEF Conf!Run
<1>4. CASE Conf!Stop
  BY <1>4 DEF Conf!Stop, Conf!Idle
<1>5. CASE Conf!Deploy
  BY <1>5 DEF Conf!Deploy
<1>6. ASSUME NEW k \in Conf!Key, Conf!Seed(k) \/ Conf!Copy(k) \/ Conf!Remove(k)
      PROVE  Conf!SettingsInv'
  BY <1>6, SeedKeeps, CopyKeeps, RemoveKeeps
<1>7. ASSUME NEW u \in Admins, Conf!Ask(u)
      PROVE  Conf!SettingsInv'
  <2>1. Conf!Requests'
    BY <1>7, AskedFit DEF Conf!Ask
  <2> QED
    BY <1>7, <2>1 DEF Conf!Ask
<1>8. ASSUME NEW u \in Admins, Conf!WriteFails(u)
      PROVE  Conf!SettingsInv'
  <2>1. Conf!Requests'
    BY <1>8 DEF Conf!WriteFails, Conf!Idle
  <2> QED
    BY <1>8, <2>1 DEF Conf!WriteFails
<1>9. CASE UNCHANGED Conf!vars
  BY <1>9 DEF Conf!vars
<1> QED
  BY <1>1, <1>2, <1>3, <1>4, <1>5, <1>6, <1>7, <1>8, <1>9, WriteKeeps DEF Conf!Next

LEMMA SavedStep ==
  ASSUME Conf!AppSettingsAssumption, Conf!SettingsInv, Conf!Next
  PROVE  Conf!SavedStands
<1> USE Successors DEF Conf!SettingsInv, Conf!Tables
<1> SUFFICES ASSUME NEW k \in Conf!OnPage, m1[k] # "absent", m1'[k] # m1[k]
             PROVE  m4 = "up"
  BY DEF Conf!SavedStands
<1>1. ASSUME NEW j \in Conf!Key, Conf!Seed(j)
      PROVE  FALSE
  BY <1>1 DEF Conf!Seed, Conf!Seeding
<1>2. ASSUME NEW f \in Conf!Key, Conf!Copy(f)
      PROVE  FALSE
  <2>1. f \in Conf!Flat /\ Becomes[f] = k
    BY <1>2 DEF Conf!Copy, Conf!Migrating
  <2> QED
    BY <1>2, <2>1 DEF Conf!Copy, Conf!Migrating, Conf!Uncleared, Conf!HasValue, Conf!Content
<1>3. ASSUME NEW f \in Conf!Key, Conf!Remove(f)
      PROVE  FALSE
  BY <1>3 DEF Conf!Remove, Conf!Migrating, Conf!AppSettingsAssumption
<1> QED
  BY <1>1, <1>2, <1>3 DEF Conf!Next, Conf!Start, Conf!Migrate, Conf!Run, Conf!Stop,
     Conf!Deploy, Conf!Ask, Conf!Write, Conf!WriteFails

LEMMA StartStep ==
  ASSUME Conf!AppSettingsAssumption, Conf!SettingsInv, Conf!Next
  PROVE  Conf!StartKeepsValues
<1> DEFINE SameReads == \A k \in Conf!OnPage \ Conf!Nested : Conf!Reads(k)' = Conf!Reads(k)
<1> DEFINE NoneLost ==
      \A f \in Conf!Flat : Conf!Carried(f) # "unset" => Conf!Carried(f)' = Conf!Carried(f)
<1> USE Successors DEF Conf!SettingsInv, Conf!Tables
<1> SUFFICES ASSUME Conf!Starting
             PROVE  SameReads /\ NoneLost
  BY DEF Conf!StartKeepsValues
<1>1. ASSUME NEW j \in Conf!Key, Conf!Seed(j)
      PROVE  SameReads /\ NoneLost
  <2>1. m1[j] = "absent" /\ Conf!Configured(j) \in Values /\ j \notin Conf!Nested
    BY <1>1 DEF Conf!Seed, Conf!Seeding, Conf!Configured, Conf!Known
  <2>2. UNCHANGED <<m2, m3>> /\ m1' = [m1 EXCEPT ![j] = Conf!Configured(j)]
    BY <1>1 DEF Conf!Seed
  <2>3. ASSUME NEW k \in Conf!OnPage \ Conf!Nested
        PROVE  Conf!Reads(k)' = Conf!Reads(k)
    <3>1. CASE k = j
      BY <2>1, <2>2, <3>1 DEF Conf!Reads, Conf!Configured, Conf!HasValue,
         Conf!AppSettingsAssumption
    <3>2. CASE k # j
      BY <2>2, <3>2 DEF Conf!Reads, Conf!Configured, Conf!HasValue
    <3> QED
      BY <3>1, <3>2
  <2>4. \A f \in Conf!Flat : m1'[Becomes[f]] = m1[Becomes[f]]
    BY <2>1, <2>2
  <2>5. \A f \in Conf!Flat : f # j => m1'[f] = m1[f]
    BY <2>2
  <2>6. ~Conf!HasValue(j)
    BY <2>1 DEF Conf!HasValue, Conf!AppSettingsAssumption
  <2> QED
    BY <2>3, <2>4, <2>5, <2>6 DEF Conf!Carried, Conf!HasValue
<1>2. ASSUME NEW g \in Conf!Key, Conf!Copy(g)
      PROVE  SameReads /\ NoneLost
  <2>1. g \in Conf!Flat /\ Becomes[g] \in Conf!Nested /\ UNCHANGED <<m2, m3>>
        /\ m1' = [m1 EXCEPT ![Becomes[g]] = m1[g]]
    BY <1>2 DEF Conf!Copy, Conf!Migrating
  <2>2. \A k \in Conf!Key : k # Becomes[g] => m1'[k] = m1[k]
    BY <2>1
  <2>3. m1'[Becomes[g]] = m1[g] /\ ~Conf!HasValue(Becomes[g])
    BY <1>2, <2>1 DEF Conf!Copy
  <2>4. \A k \in Conf!OnPage \ Conf!Nested : Conf!Reads(k)' = Conf!Reads(k)
    BY <2>1, <2>2 DEF Conf!Reads, Conf!Configured, Conf!HasValue
  <2>5. ASSUME NEW f \in Conf!Flat, Conf!Carried(f) # "unset"
        PROVE  Conf!Carried(f)' = Conf!Carried(f)
    <3>1. CASE f = g
      BY <2>1, <2>2, <2>3, <2>5, <3>1 DEF Conf!Carried, Conf!HasValue
    <3>2. CASE f # g
      <4>1. m1'[f] = m1[f] /\ m1'[Becomes[f]] = m1[Becomes[f]]
        BY <2>1, <2>2, <3>2
      <4> QED
        BY <4>1 DEF Conf!Carried, Conf!HasValue
    <3> QED
      BY <3>1, <3>2
  <2> QED
    BY <2>4, <2>5
<1>3. ASSUME NEW g \in Conf!Key, Conf!Remove(g)
      PROVE  SameReads /\ NoneLost
  <2>1. g \in Conf!Flat /\ UNCHANGED <<m2, m3>> /\ Conf!HasValue(Becomes[g])
        /\ \A k \in Conf!Key : k # g => m1'[k] = m1[k]
    BY <1>3 DEF Conf!Remove, Conf!Migrating, Conf!Moved
  <2>2. g \notin Conf!OnPage /\ \A f \in Conf!Flat : Becomes[f] # g
    BY <2>1 DEF Conf!AppSettingsAssumption
  <2> QED
    BY <2>1, <2>2 DEF Conf!Reads, Conf!Configured, Conf!HasValue, Conf!Carried
<1>4. CASE UNCHANGED <<m1, m2, m3>>
  BY <1>4 DEF Conf!Reads, Conf!Configured, Conf!HasValue, Conf!Carried
<1> QED
  BY <1>1, <1>2, <1>3, <1>4 DEF Conf!Next, Conf!Start, Conf!Migrate, Conf!Run, Conf!Stop,
     Conf!Deploy, Conf!Ask, Conf!Write, Conf!WriteFails, Conf!Starting

LEMMA SettingsMean == Conf!SettingsInv => Conf!TypeOK /\ Conf!FlatIsGone
BY DEF Conf!SettingsInv, Conf!Tables, Conf!Requests, Conf!Uncleared, Conf!TypeOK,
   Conf!FlatIsGone

-----------------------------------------------------------------------------
(* The exports: what a row tells of its job, its file and its link.        *)
LEMMA ExportInit == Exp!ExportAssumption /\ Exp!Init => Exp!ExportInv
BY DEF Exp!ExportAssumption, Exp!Init, Exp!ExportInv, Exp!TypeOK, Exp!Requested, Exp!Underway, Exp!Counted,
       Exp!SucceededIsSent, Exp!RowTellsJob, Exp!Working

LEMMA ExportTypeStep ==
  ASSUME Exp!ExportAssumption, Exp!TypeOK, [Exp!Next]_(Exp!vars)
  PROVE  Exp!TypeOK'
<1>1. CASE UNCHANGED Exp!vars
  BY <1>1 DEF Exp!vars, Exp!TypeOK
<1>2. ASSUME NEW e \in Export, Exp!Do(e)
      PROVE  Exp!TypeOK'
  <2> USE DEF Exp!ExportAssumption, Exp!TypeOK, Exp!Working, Exp!row
  <2>1. CASE Exp!InsertQueued(e)
    BY <2>1 DEF Exp!InsertQueued
  <2>2. CASE Exp!Enqueue(e)
    BY <2>2 DEF Exp!Enqueue
  <2>3. CASE Exp!UpdateRunning(e)
    BY <2>3 DEF Exp!UpdateRunning, Exp!Thrown, Exp!RetriesLeft
  <2>4. CASE Exp!WriteWorkbook(e)
    BY <2>4 DEF Exp!WriteWorkbook
  <2>5. CASE Exp!SendMail(e)
    BY <2>5 DEF Exp!SendMail, Exp!SendAsync
  <2>6. CASE Exp!UpdateSucceeded(e)
    BY <2>6 DEF Exp!UpdateSucceeded
  <2>7. CASE Exp!UpdateFailed(e)
    BY <2>7 DEF Exp!UpdateFailed, Exp!Thrown, Exp!RetriesLeft, Exp!AfterThrow
  <2>8. CASE Exp!Return(e) \/ Exp!Throw(e)
    BY <2>8 DEF Exp!Return, Exp!Throw
  <2>9. CASE Exp!Sweep(e)
    BY <2>9 DEF Exp!Sweep
  <2>10. CASE Exp!MarkDownloaded(e)
    BY <2>10 DEF Exp!MarkDownloaded
  <2> QED
    BY <1>2, <2>1, <2>2, <2>3, <2>4, <2>5, <2>6, <2>7, <2>8, <2>9, <2>10 DEF Exp!Do, Exp!Work
<1>3. CASE Exp!Crash
  BY <1>3 DEF Exp!Crash, Exp!AfterCrash, Exp!ExportAssumption, Exp!TypeOK, Exp!Working, Exp!row
<1> QED
  BY <1>1, <1>2, <1>3 DEF Exp!Next

LEMMA ExportStep == Exp!ExportAssumption /\ Exp!ExportInv /\ [Exp!Next]_(Exp!vars) => Exp!ExportInv'
<1> SUFFICES ASSUME Exp!ExportAssumption, Exp!ExportInv, [Exp!Next]_(Exp!vars)
             PROVE  Exp!Requested' /\ Exp!Underway' /\ Exp!Counted' /\ Exp!SucceededIsSent' /\ Exp!RowTellsJob'
  BY ExportTypeStep DEF Exp!ExportInv
<1> USE DEF Exp!Requested, Exp!Underway, Exp!Counted, Exp!SucceededIsSent, Exp!RowTellsJob, Exp!SendAsync
<1>1. CASE UNCHANGED Exp!vars
  BY <1>1 DEF Exp!vars, Exp!ExportInv
<1>2. ASSUME NEW e \in Export, Exp!Do(e)
      PROVE  Exp!Requested' /\ Exp!Underway' /\ Exp!Counted' /\ Exp!SucceededIsSent' /\ Exp!RowTellsJob'
  <2> USE DEF Exp!ExportAssumption, Exp!ExportInv, Exp!TypeOK, Exp!Working, Exp!row
  <2>1. CASE Exp!InsertQueued(e)
    BY <2>1 DEF Exp!InsertQueued
  <2>2. CASE Exp!Enqueue(e)
    BY <2>2 DEF Exp!Enqueue
  <2>3. CASE Exp!UpdateRunning(e)
    BY <2>3 DEF Exp!UpdateRunning, Exp!Thrown, Exp!RetriesLeft
  <2>4. CASE Exp!WriteWorkbook(e)
    BY <2>4 DEF Exp!WriteWorkbook
  <2>5. CASE Exp!SendMail(e)
    BY <2>5 DEF Exp!SendMail, Exp!SendAsync
  <2>6. CASE Exp!UpdateSucceeded(e)
    BY <2>6 DEF Exp!UpdateSucceeded, Exp!Ready
  <2>7. CASE Exp!UpdateFailed(e)
    BY <2>7 DEF Exp!UpdateFailed, Exp!Thrown, Exp!RetriesLeft, Exp!AfterThrow
  <2>8. CASE Exp!Return(e) \/ Exp!Throw(e)
    BY <2>8 DEF Exp!Return, Exp!Throw
  <2>9. CASE Exp!Sweep(e)
    BY <2>9 DEF Exp!Sweep
  <2>10. CASE Exp!MarkDownloaded(e)
    BY <2>10 DEF Exp!MarkDownloaded, Exp!Downloadable
  <2> QED
    BY <1>2, <2>1, <2>2, <2>3, <2>4, <2>5, <2>6, <2>7, <2>8, <2>9, <2>10 DEF Exp!Do, Exp!Work
<1>3. CASE Exp!Crash
  BY <1>3 DEF Exp!ExportInv, Exp!SendAsync, Exp!Crash, Exp!AfterCrash, Exp!ExportAssumption, Exp!TypeOK, Exp!Working, Exp!row
<1> QED
  BY <1>1, <1>2, <1>3 DEF Exp!Next

(* The refinement.  A row is queued when it is inserted, runs when an      *)
(* attempt begins, and ends when the job marks it; everything else is a    *)
(* stutter of the rows.                                                    *)

LEMMA LifeInit == On("exports") /\ Exp!Init => Life!Init
BY DEF Exp!Init, Life!Init

LEMMA LifeStep ==
  ASSUME On("exports"), On("exports")', Exp!ExportAssumption, Exp!ExportInv,
         [Exp!Next]_(Exp!vars)
  PROVE  [Life!Next]_(Life!life)
<1>1. CASE UNCHANGED Exp!vars
  BY <1>1 DEF Exp!vars, Life!life
<1>2. ASSUME NEW e \in Export, Exp!Do(e)
      PROVE  [Life!Next]_(Life!life)
  <2>1. CASE Exp!InsertQueued(e)
    <3>1. Life!Queue(e)
      BY <2>1 DEF Exp!InsertQueued, Life!Queue, Exp!ExportInv, Exp!Requested
    <3> QED
      BY <3>1 DEF Life!Next
  <2>2. CASE Exp!UpdateRunning(e)
    <3>1. CASE UNCHANGED <<m1, m2>>
      BY <2>2, <3>1 DEF Exp!UpdateRunning, Life!life
    <3>2. CASE ~UNCHANGED <<m1, m2>>
      <4>1. m2[e] =< m6[e] + m9 /\ m6[e] =< MaxRetry /\ m9 =< MaxCrash
        BY <2>2 DEF Exp!UpdateRunning, Exp!ExportAssumption, Exp!ExportInv, Exp!TypeOK, Exp!Counted
      <4>2. m2[e] < MaxRetry + 1 + MaxCrash
        BY <4>1 DEF Exp!ExportAssumption, Exp!ExportInv, Exp!TypeOK
      <4>3. m1[e] # "none"
        BY <2>2 DEF Exp!UpdateRunning, Exp!ExportInv, Exp!Requested
      <4>4. Life!Run(e)
        BY <2>2, <3>2, <4>2, <4>3 DEF Exp!UpdateRunning, Life!Run
      <4> QED
        BY <4>4 DEF Life!Next
    <3> QED
      BY <3>1, <3>2
  <2>3. CASE Exp!UpdateSucceeded(e)
    <3>1. Life!Finish(e)
      BY <2>3 DEF Exp!UpdateSucceeded, Exp!Ready, Life!Finish, Exp!ExportInv, Exp!Underway
    <3> QED
      BY <3>1 DEF Life!Next
  <2>4. CASE Exp!UpdateFailed(e)
    <3>1. CASE UNCHANGED m1
      BY <2>4, <3>1 DEF Exp!UpdateFailed, Life!life
    <3>2. CASE ~UNCHANGED m1
      <4>1. Life!Finish(e)
        BY <2>4, <3>2 DEF Exp!UpdateFailed, Exp!AfterThrow, Life!Finish, Exp!ExportInv, Exp!Underway
      <4> QED
        BY <4>1 DEF Life!Next
    <3> QED
      BY <3>1, <3>2
  <2>5. CASE Exp!MarkDownloaded(e)
    <3>1. Life!Grab(e)
      BY <2>5 DEF Exp!MarkDownloaded, Exp!Downloadable, Life!Grab
    <3> QED
      BY <3>1 DEF Life!Next
  <2>6. CASE Exp!Enqueue(e) \/ Exp!WriteWorkbook(e) \/ Exp!SendMail(e) \/ Exp!Return(e) \/ Exp!Throw(e) \/ Exp!Sweep(e)
    BY <2>6 DEF Exp!Enqueue, Exp!WriteWorkbook, Exp!SendMail, Exp!Return, Exp!Throw, Exp!Sweep, Exp!row, Life!life
  <2> QED
    BY <1>2, <2>1, <2>2, <2>3, <2>4, <2>5, <2>6 DEF Exp!Do, Exp!Work
<1>3. CASE Exp!Crash
  BY <1>3 DEF Exp!Crash, Exp!row, Life!life
<1> QED
  BY <1>1, <1>2, <1>3 DEF Exp!Next

-----------------------------------------------------------------------------
(* The inductive invariant of the component that runs.                     *)
Sound ==
    /\ On("sync") => Sync!SyncInv
    /\ On("syncFails") => SyncFails!SyncInv
    /\ On("upsert") => Upsert!UpsertInv
    /\ On("locks") => Locks!LocksInv
    /\ On("locksLines") => LocksLines!LocksInv /\ LocksLines!PlanInv
    /\ On("locksOneItem") => LocksOneItem!LocksInv /\ LocksOneItem!HoldsInv
    /\ On("exports") => Exp!ExportInv
    /\ On("settings") => Conf!SettingsInv

LEMMA SoundInit == Init => Sound
<1> SUFFICES ASSUME Init
             PROVE  Sound
  OBVIOUS
<1>1. On("sync") => Sync!SyncInv
  BY ConstantsFit, Sync!SyncInit DEF Init, On
<1>2. On("syncFails") => SyncFails!SyncInv
  BY ConstantsFit, SyncFails!SyncInit DEF Init, On
<1>3. On("upsert") => Upsert!UpsertInv
  BY ConstantsFit, Upsert!UpsertInit DEF Init, On
<1>4. On("locks") => Locks!LocksInv
  BY ConstantsFit, Locks!LocksInit DEF Init, On
<1>5. On("locksLines") => LocksLines!LocksInv /\ LocksLines!PlanInv
  BY ConstantsFit, LocksLines!LocksInit, LocksLines!PlanInit DEF Init, On
<1>6. On("locksOneItem") => LocksOneItem!LocksInv /\ LocksOneItem!HoldsInv
  BY ConstantsFit, LocksOneItem!LocksInit, LocksOneItem!HoldsInit DEF Init, On
<1>7. On("exports") => Exp!ExportInv
  BY ConstantsFit, ExportInit DEF Init, On
<1>8. On("settings") => Conf!SettingsInv
  BY ConstantsFit, SettingsInit DEF Init, On
<1> QED
  BY <1>1, <1>2, <1>3, <1>4, <1>5, <1>6, <1>7, <1>8 DEF Sound

(* In the scene of receives, cancels and edits of lines no header is       *)
(* edited, and the lines of the last scene are of one item.                *)
LEMMA ScenesFit == LocksLines!HeadersStay /\ LocksOneItem!OneItem
<1>1. LocksLines!HeadersStay
  BY DEF LocksLines!HeadersStay
<1>2. DOMAIN OneItem = 1 .. 3
  BY DEF OneItem
<1>3. \A k \in 1 .. 3 : OneItem[k].item = a
  BY DEF OneItem, LineOf
<1>4. LocksOneItem!LineId = 1 .. 3
  BY <1>2 DEF LocksOneItem!LineId
<1>5. LocksOneItem!OneItem
  BY <1>3, <1>4 DEF LocksOneItem!OneItem
<1> QED
  BY <1>1, <1>5

LEMMA SoundStep == Sound /\ [Next]_vars => Sound'
<1> SUFFICES ASSUME Sound, [Next]_vars
             PROVE  Sound'
  OBVIOUS
<1>0. scene' = scene
  BY DEF Next, Step, vars
<1>1. ASSUME On("sync")
      PROVE  Sync!SyncInv'
  <2>1. Sync!SyncInv /\ [Sync!Next]_(Sync!vars)
    BY <1>1 DEF Sound, Next, Step, On, vars, Sync!vars
  <2> QED
    BY <2>1, ConstantsFit, Sync!SyncStep
<1>2. ASSUME On("syncFails")
      PROVE  SyncFails!SyncInv'
  <2>1. SyncFails!SyncInv /\ [SyncFails!Next]_(SyncFails!vars)
    BY <1>2 DEF Sound, Next, Step, On, vars, SyncFails!vars
  <2> QED
    BY <2>1, ConstantsFit, SyncFails!SyncStep
<1>3. ASSUME On("upsert")
      PROVE  Upsert!UpsertInv'
  <2>1. Upsert!UpsertInv /\ [Upsert!Next]_(Upsert!vars)
    BY <1>3 DEF Sound, Next, Step, On, vars, Upsert!vars
  <2> QED
    BY <2>1, ConstantsFit, Upsert!UpsertStep
<1>4. ASSUME On("locks")
      PROVE  Locks!LocksInv'
  <2>1. Locks!LocksInv /\ [Locks!Next]_(Locks!vars)
    BY <1>4 DEF Sound, Next, Step, On, vars, Locks!vars
  <2> QED
    BY <2>1, ConstantsFit, Locks!LocksStep
<1>5. ASSUME On("locksLines")
      PROVE  LocksLines!LocksInv' /\ LocksLines!PlanInv'
  <2>1. LocksLines!LocksInv /\ LocksLines!PlanInv /\ [LocksLines!Next]_(LocksLines!vars)
    BY <1>5 DEF Sound, Next, Step, On, vars, LocksLines!vars
  <2> QED
    BY <2>1, ConstantsFit, ScenesFit, LocksLines!LocksStep, LocksLines!PlanStep
<1>6. ASSUME On("locksOneItem")
      PROVE  LocksOneItem!LocksInv' /\ LocksOneItem!HoldsInv'
  <2>1. LocksOneItem!LocksInv /\ LocksOneItem!HoldsInv /\ [LocksOneItem!Next]_(LocksOneItem!vars)
    BY <1>6 DEF Sound, Next, Step, On, vars, LocksOneItem!vars
  <2> QED
    BY <2>1, ConstantsFit, ScenesFit, LocksOneItem!LocksStep, LocksOneItem!HoldsStep
<1>7. ASSUME On("exports")
      PROVE  Exp!ExportInv'
  <2>1. Exp!ExportInv /\ [Exp!Next]_(Exp!vars)
    BY <1>7 DEF Sound, Next, Step, On, vars, Exp!vars
  <2> QED
    BY <2>1, ConstantsFit, ExportStep
<1>8. ASSUME On("settings")
      PROVE  Conf!SettingsInv'
  <2>1. Conf!SettingsInv /\ [Conf!Next]_(Conf!vars)
    BY <1>8 DEF Sound, Next, Step, On, vars, Conf!vars
  <2> QED
    BY <2>1, ConstantsFit, SettingsStep
<1> QED
  BY <1>0, <1>1, <1>2, <1>3, <1>4, <1>5, <1>6, <1>7, <1>8 DEF Sound, On

LEMMA AlwaysSound == Behaviour => []Sound
BY SoundInit, SoundStep, PTL DEF Behaviour

-----------------------------------------------------------------------------
(* TypeOK: the state of each component is what its module says.            *)
THEOREM TypesScenes == Behaviour => []TypeOK
<1>1. Sync!SyncInv => Sync!TypeOK
  BY ConstantsFit, Sync!SyncTypes
<1>2. SyncFails!SyncInv => SyncFails!TypeOK
  BY ConstantsFit, SyncFails!SyncTypes
<1>3. Sound => TypeOK
  BY <1>1, <1>2, Locks!LocksMean, LocksLines!LocksMean, SettingsMean DEF Sound, TypeOK,
     Upsert!UpsertInv, Exp!ExportInv
<1> QED
  BY <1>3, AlwaysSound, PTL

(* OneSync: one sync at a time, the mutex taken exactly while one runs,    *)
(* rows that tell how it went.                                             *)
THEOREM SyncScenes == Behaviour => []OneSync
<1>1. Sync!SyncInv => Sync!OneSync /\ Sync!RowsAreTrue /\ Sync!SkippedWhenBusy
  BY DEF Sync!SyncInv, Sync!Mutex, Sync!Rows
<1>2. Sync!SyncInv => Sync!MutexInUse
  BY DEF Sync!SyncInv, Sync!Mutex, Sync!Excludes, Sync!GivenBack, Sync!MutexInUse
<1>3. SyncFails!SyncInv => SyncFails!OneSync
  BY DEF SyncFails!SyncInv, SyncFails!Mutex
<1>4. Sound => OneSync
  BY <1>1, <1>2, <1>3 DEF Sound, OneSync
<1> QED
  BY <1>4, AlwaysSound, PTL

(* CapKept: no revision of the ERP plans less than was received, and a     *)
(* signed pull stays complete.                                             *)
THEOREM CapScene == Behaviour => []CapKept
<1>1. Sound => CapKept
  BY DEF Sound, CapKept, Upsert!UpsertInv
<1> QED
  BY <1>1, AlwaysSound, PTL

(* Idempotent: a sync that repeats one changes nothing.                    *)
THEOREM IdempotentScene == Behaviour => []Idempotent
<1>1. Sound => Idempotent
  BY DEF Sound, Idempotent, Upsert!UpsertInv
<1> QED
  BY <1>1, AlwaysSound, PTL

(* OperatorsDecide: a canceled item stays so until an operator says        *)
(* otherwise, and so does a setting; a start changes no value and leaves   *)
(* nothing to migrate, wherever it dies.                                   *)
THEOREM OperatorsScenes == Behaviour => OperatorsDecide
<1>1. ASSUME Sound, Sound', Next
      PROVE  Decided
  <2>1. ASSUME On("upsert")
        PROVE  Upsert!KeepsCanceled
    <3>1. Upsert!UpsertInv /\ Upsert!Next
      BY <1>1, <2>1 DEF Sound, Next, Step, On
    <3>2. CASE UNCHANGED Upsert!vars
      BY <3>2 DEF Upsert!vars, Upsert!KeepsCanceled
    <3>3. CASE ~UNCHANGED Upsert!vars
      BY <3>1, <3>3, Upsert!KeepsStep
    <3> QED
      BY <3>2, <3>3
  <2>2. ASSUME On("settings")
        PROVE  Conf!SavedStands /\ Conf!StartKeepsValues /\ Conf!FlatIsGone'
    <3>1. Conf!SettingsInv /\ Conf!SettingsInv' /\ Conf!Next
      BY <1>1, <2>2 DEF Sound, Next, Step, On
    <3>2. Conf!FlatIsGone'
      BY <3>1 DEF Conf!SettingsInv, Conf!Uncleared, Conf!FlatIsGone
    <3> QED
      BY <3>1, <3>2, ConstantsFit, SavedStep, StartStep
  <2> QED
    BY <2>1, <2>2 DEF Decided
<1>2. Sound /\ Sound' /\ [Next]_vars => [Decided]_vars
  BY <1>1
<1> QED
  BY <1>2, AlwaysSound, PTL DEF Behaviour, OperatorsDecide

(* LedgerBalances: whatever the interleaving of their statements,          *)
(* transactions leave every line with the sum of its receipts.             *)
THEOREM LedgerScenes == Behaviour => []LedgerBalances
<1>1. Sound => LedgerBalances
  BY Locks!LocksMean, LocksLines!LocksMean DEF Sound, LedgerBalances
<1> QED
  BY <1>1, AlwaysSound, PTL

(* PlanHolds: the plan of a receive stands until it commits, unless a      *)
(* header is edited.                                                       *)
THEOREM PlanScene == Behaviour => []PlanHolds
<1>1. Sound => PlanHolds
  BY LocksLines!PlanMeans DEF Sound, PlanHolds
<1> QED
  BY <1>1, AlwaysSound, PTL

(* NoDeadlock: receives and cancels of one item never wait in a circle.    *)
THEOREM NoDeadlockScene == Behaviour => []NoDeadlock
<1>1. Sound => NoDeadlock
  BY ConstantsFit, ScenesFit, LocksOneItem!NoCircle DEF Sound, NoDeadlock
<1> QED
  BY <1>1, AlwaysSound, PTL

(* SucceededIsSent: an export that says succeeded has had its workbook     *)
(* written and its link sent, or logged by a process without SMTP          *)
(* settings, and a job that is over has a row that says how.               *)
THEOREM SentScenes == Behaviour => []SucceededIsSent
<1>1. Sound => SucceededIsSent
  BY DEF Sound, SucceededIsSent, Exp!ExportInv
<1> QED
  BY <1>1, AlwaysSound, PTL

(* ImplementsLife: with failing statements, crashes and retries, the rows  *)
(* of the job are a life of an export.                                     *)
THEOREM LifeScene == Behaviour => ImplementsLife
<1>1. Init => Life!Init
  <2>1. Init /\ On("exports") => Exp!Init
    BY DEF Init, On
  <2>2. ~On("exports") => Life!Init
    BY DEF Life!Init
  <2> QED
    BY <2>1, <2>2, LifeInit
<1>2. Sound /\ [Next]_vars => [Life!Next]_(Life!life)
  <2> SUFFICES ASSUME Sound, [Next]_vars
               PROVE  [Life!Next]_(Life!life)
    OBVIOUS
  <2>1. On("exports")' <=> On("exports")
    BY DEF Next, Step, vars, On
  <2>2. CASE On("exports")
    <3>1. Exp!ExportInv /\ [Exp!Next]_(Exp!vars)
      BY <2>2 DEF Sound, Next, Step, On, vars, Exp!vars
    <3> QED
      BY <2>1, <2>2, <3>1, ConstantsFit, LifeStep
  <2>3. CASE ~On("exports")
    BY <2>1, <2>3 DEF Life!life
  <2> QED
    BY <2>2, <2>3
<1> QED
  BY <1>1, <1>2, AlwaysSound, PTL DEF Behaviour, ImplementsLife, Life!Spec
=============================================================================
