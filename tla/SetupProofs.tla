------------------------------ MODULE SetupProofs ------------------------------
(***************************************************************************)
(* What the set-up and its reports promise, for every set of ids, subjects *)
(* and tasks, and whatever the disturbances are.  The set-up runs the      *)
(* operations as they are, so the invariants of the service hold of it     *)
(* too; on them stands what is said here of erasures, of the bytes that a  *)
(* set-up misses, and of the reports.                                      *)
(***************************************************************************)
EXTENDS SetupHealth, VoiceprintDurabilityProofs

(***************************************************************************)
(* The invariants.                                                         *)
(***************************************************************************)

\* While the instance is set up, everything in flight belongs to an older one.
NobodyLive ==
    ~Up => \A t \in Tasks : task[t].step # "idle" => ~Live(t)

SetupInv ==
    /\ TypeOK
    /\ SetupTypeOK
    /\ EpochsAgree
    /\ NobodyLive
    /\ ~SettingUp => todo = {}

--------------------------------------------------------------------------------

\* Every id that was ever registered has its bytes, or somebody asked to erase it.
BytesKept ==
    /\ \A v \in Vids : v \in artifacts \/ v \in erased \/ Unregistered(v)
    /\ \A t \in Tasks : Erasing(t) => task[t].vid \in erased

\* The bytes of a persist that was cancelled while they were saved may come late:
\* their id has no record, and nobody is about to give it one.
LateWrite(t) == task[t].step = "abandoned" /\ task[t].io = "write"

NobodysBytes(t) ==
    /\ task[t].vid \in issued
    /\ Unregistered(task[t].vid)
    /\ \A u \in Tasks : task[u].step \in PreSteps => task[u].vid # task[t].vid

LateWritesAreOrphans == \A t \in Tasks : LateWrite(t) => NobodysBytes(t)

OnlyIssuedStored == artifacts \subseteq issued

StoreInv ==
    /\ OwnInv
    /\ BytesKept
    /\ LateWritesAreOrphans
    /\ OnlyIssuedStored

--------------------------------------------------------------------------------

RegistryMissed == stage > 1 /\ health["voiceprint_registry"] # "healthy"

Lost == {v \in PresentVids : v \notin artifacts}

\* What the registry's check has missed is still missing, and every check after it
\* has missed it too, or has still to look for it.
MissedStaysMissed ==
    /\ (stage = 1 /\ verdict # "healthy") => verdict = "unavailable" /\ Lost # {}
    /\ RegistryMissed =>
        /\ SettingUp => Lost # {}
        /\ SettingUp => verdict = "unavailable" \/ Lost \cap todo # {}
        /\ \A i \in DOMAIN Checks : i < stage => health[Checks[i].of] = "unavailable"

ReportInv == SetupInv /\ StoreInv /\ MissedStaysMissed

--------------------------------------------------------------------------------

\* A generation that never became a record of this instance, and never will.
LostGeneration(v) ==
    /\ v \in issued
    /\ ~Present(records, v)
    /\ \A t \in Tasks : (task[t].step \in PreSteps /\ Live(t)) => task[t].vid # v

\* What the reports of operations that run one at a time say: the managers find
\* nothing wrong, the registry misses erased bytes, and the validator finds bytes
\* of a lost generation.
SequentialReports ==
    /\ stage > 1 =>
        /\ health["voiceprint_lifecycle_manager"] = "healthy"
        /\ health["voiceprint_revision_manager"] = "healthy"
    /\ RegistryMissed => \E v \in erased : Present(records, v)
    /\ stage = 3 => verdict # "degraded"
    /\ (stage > 3 /\ health["artifact_integrity_validator"] = "degraded")
        => \E v \in Vids : LostGeneration(v)

SequentialSetupInv == ReportInv /\ SequentialInv /\ SequentialReports

(***************************************************************************)
(* The kinds of steps.                                                     *)
(***************************************************************************)

\* The set-up looks at a record, at none, or at the storage.
Looks ==
    /\ SettingUp
    /\ UNCHANGED <<vars, stage, health, erased>>
    /\ todo' \subseteq todo
    /\ verdict' \in HealthStates

LEMMA ProbeLooks == ASSUME SetupTypeOK, ProbeFails PROVE Looks
BY DEF SetupTypeOK, ProbeFails, Looks, HealthStates

LEMMA CheckLooks ==
    ASSUME SetupTypeOK, NEW v \in Vids, CheckRecord(v) \/ CheckEnvelope(v)
    PROVE  Looks
<1>1. CASE CheckRecord(v)
  BY <1>1 DEF CheckRecord, SetupTypeOK, Looks, HealthStates
<1>2. CASE CheckEnvelope(v)
  <2>1. verdict' \in HealthStates
    BY <1>2 DEF CheckEnvelope, Worse, HealthStates
  <2> QED BY <1>2, <2>1 DEF CheckEnvelope, Looks
<1> QED BY <1>1, <1>2

\* A new instance is set up, on whatever storage.
SetsUp ==
    /\ Load
    /\ stage' = 1
    /\ todo' = {v \in Vids : Present(records', v)}
    /\ verdict' = "healthy"
    /\ health' \in [Components -> HealthStates]
    /\ UNCHANGED erased

LEMMA SetUpBegins == ASSUME BeginSetUp \/ BeginSetUpUnwritable PROVE SetsUp
BY DEF BeginSetUp, BeginSetUpUnwritable, SetsUp, NoReports, HealthStates

\* An operation that was already there goes on.
Operates == (\E t \in Tasks : GoOn(t)) /\ UNCHANGED <<setupVars, erased>>

Serves == \E t \in Tasks : Serve(t)

LEMMA SetupKinds ==
    ASSUME SetupTypeOK, [SetupNext]_allVars
    PROVE  Looks \/ SetsUp \/ EndCheck \/ Operates \/ Serves \/ TakeDown
           \/ UNCHANGED allVars
BY ProbeLooks, CheckLooks, SetUpBegins DEF SetupNext, SetUpStep, Operates, Serves, GoOn

\* The set-up runs the service: each of its steps is a step of that, or none.
LEMMA SetupRunsTheService == ASSUME [SetupNext]_allVars PROVE [Next]_vars
<1>1. ASSUME NEW t \in Tasks, Serve(t) \/ GoOn(t) PROVE Next
  BY <1>1 DEF Serve, GoOn, Next
<1>2. CASE SetUpStep
  BY <1>2 DEF SetUpStep, BeginSetUp, BeginSetUpUnwritable, ProbeFails, CheckRecord,
              CheckEnvelope, EndCheck, Next, vars
<1>3. CASE TakeDown
  BY <1>3 DEF TakeDown, Next
<1>4. CASE UNCHANGED allVars
  BY <1>4 DEF allVars
<1> QED BY <1>1, <1>2, <1>3, <1>4 DEF SetupNext

(***************************************************************************)
(* The types, and nobody live during a set-up.                             *)
(***************************************************************************)

\* The stages, and what is asked at each.
LEMMA ChecksAre ==
    /\ Served = 10
    /\ DOMAIN Checks = 1 .. 9
    /\ \A i \in 1 .. 9 : Checks[i].of \in Components /\ Checks[i].reads \in {"records", "envelopes"}
BY DEF Served, Checks, Components

\* A report is one, whatever was found.
LEMMA ReportType ==
    ASSUME verdict \in HealthStates, NEW component
    PROVE  Report(component, Findings) \in HealthStates
<1>1. Findings \in HealthStates
  BY DEF Findings, Worse, HealthStates
<1> QED BY <1>1 DEF Report, PersistenceReport, OrchestratorReport, StatusReport,
                    DeleteSupersedeReport, HealthStates

\* It stays the operation it is.
Same(t) ==
    /\ task'[t].epoch = task[t].epoch
    /\ task'[t].op = task[t].op
    /\ task'[t].vid = task[t].vid

\* An operation that saves a record stays itself.
LEMMA CommitStays ==
    ASSUME TypeOK, NEW t \in Tasks, NEW v, NEW rec, NEW self \in Task, Commit(t, v, rec, self)
    PROVE  /\ OthersWait(t)
           /\ task'[t].epoch = self.epoch
           /\ task'[t].op = self.op
           /\ task'[t].vid = self.vid
BY DEF Commit, TypeOK, Task, OthersWait

\* An operation that goes on stays with its instance, and only on a loaded one does
\* it write a record.
LEMMA GoOnStays ==
    ASSUME TypeOK, NEW t \in Tasks, GoOn(t)
    PROVE  /\ UNCHANGED <<loaded, epoch>>
           /\ OthersWait(t)
           /\ task'[t] = Idle
                \/ (Same(t) /\ task[t].step # "idle")
           /\ task[t].step = "idle" \/ ~Live(t) => records' = records
<1>1. CASE Executor(t)
  BY <1>1, ExecutorReplies DEF Replies, Continues, Same
<1>2. ASSUME TaskOnly(t)
      PROVE  /\ UNCHANGED <<records, loaded, epoch>>
             /\ OthersWait(t)
             /\ task'[t] = Idle
                  \/ (Same(t) /\ task[t].step # "idle")
  BY <1>2, FinishEnds, AwaitContinues DEF TaskOnly, Continues, Same
<1>3. ASSUME Register(t) \/ ActivateNew(t) \/ WriteReplacement(t) \/ SupersedeNew(t)
      PROVE  /\ UNCHANGED <<loaded, epoch>>
             /\ Live(t)
             /\ task[t].step # "idle"
             /\ OthersWait(t)
             /\ Same(t)
  <2>1. UNCHANGED <<loaded, epoch>> /\ Live(t) /\ task[t].step # "idle"
    BY <1>3 DEF Register, ActivateNew, WriteReplacement, SupersedeNew, CanFinishPersist,
                CanWriteReplacement, At
  <2>2. \A step \in SaveSteps :
            /\ AtSave(t, step) \in Task
            /\ AtSave(t, step).epoch = task[t].epoch
            /\ AtSave(t, step).op = task[t].op
            /\ AtSave(t, step).vid = task[t].vid
    BY DEF AtSave, TypeOK, Task, SaveSteps, Steps
  <2>3. CASE SupersedeNew(t)
    <3> DEFINE rec == WithState(records[task[t].vid], "active")
               self == [AtSave(t, "swapSave") EXCEPT !.rec = rec]
    <3>1. task[t].vid \in Vids
      BY <2>1, BusyTask
    <3>2. rec \in Record
      BY <3>1, ChangedRecordType DEF TypeOK, Registry, LifecycleStates
    <3>3. Commit(t, task[t].prev, SupersededBy(records[task[t].prev], task[t].vid), self)
      BY <2>3 DEF SupersedeNew
    <3> HIDE DEF rec
    <3>4. self \in Task /\ self.epoch = task[t].epoch /\ self.op = task[t].op
            /\ self.vid = task[t].vid
      BY <2>2, <3>2 DEF Task, SaveSteps
    <3> HIDE DEF self
    <3> QED BY <2>1, <3>3, <3>4, CommitStays DEF Same
  <2>4. CASE Register(t) \/ ActivateNew(t) \/ WriteReplacement(t)
    <3>1. PICK step \in SaveSteps, v \in {task[t].vid},
                rec \in {task[t].rec, WithState(records[task[t].vid], "active")} :
            Commit(t, v, rec, AtSave(t, step))
      BY <2>4 DEF Register, ActivateNew, WriteReplacement, SaveSteps
    <3> QED BY <2>1, <2>2, <3>1, CommitStays DEF Same
  <2> QED BY <1>3, <2>1, <2>3, <2>4
<1>4. TaskOnly(t) \/ Executor(t) \/ Register(t) \/ ActivateNew(t) \/ WriteReplacement(t)
        \/ SupersedeNew(t)
  BY TaskOnlySteps DEF GoOn, Resume
<1> QED BY <1>1, <1>2, <1>3, <1>4

\* A request is taken up by the instance that serves it.
LEMMA RequestIsTaken ==
    ASSUME TypeOK, NEW t \in Tasks, Request(t)
    PROVE  /\ UNCHANGED <<loaded, epoch>>
           /\ OthersWait(t)
           /\ task'[t].epoch = epoch
<1>1. ASSUME NEW op, NEW step, NEW v, NEW p, NEW activate, NEW rec, NEW x, NEW new,
             Commit(t, x, new, Operation(op, step, "lock", v, p, activate, rec))
      PROVE  OthersWait(t) /\ task'[t].epoch = epoch
  BY <1>1 DEF Commit, Operation, OthersWait, TypeOK
<1>2. ASSUME NEW op, NEW step, NEW v, NEW state, Move(t, op, step, v, state)
      PROVE  OthersWait(t) /\ task'[t].epoch = epoch /\ UNCHANGED <<loaded, epoch>>
  BY <1>1, <1>2 DEF Move
<1>3. ASSUME NEW v \in Vids, NEW p \in Vids, StartSupersede(t, p, v)
      PROVE  OthersWait(t) /\ task'[t].epoch = epoch /\ UNCHANGED <<loaded, epoch>>
  BY <1>1, <1>3 DEF StartSupersede
<1>4. ASSUME NEW v, NEW s, NEW p, NEW activate,
             StartEnrol(t, v, s, activate) \/ StartReenrol(t, v, p, activate)
      PROVE  OthersWait(t) /\ task'[t].epoch = epoch /\ UNCHANGED <<loaded, epoch>>
  BY <1>4, OperationBegins DEF StartEnrol, StartReenrol, Begins
<1> QED BY <1>2, <1>3, <1>4
        DEF Request, StartDelete, StartErase, ActivateRecord, DeactivateRecord, MarkFailed

LEMMA SetupInvInit == ASSUME SetupInit PROVE SetupInv
<1>1. TypeOK
  BY TypeInit DEF SetupInit
<1>2. \A t \in Tasks : task[t] = Idle
  BY DEF SetupInit, Init
<1>3. EpochsAgree /\ NobodyLive
  BY <1>2, MaxEpochAssumption DEF EpochsAgree, NobodyLive, Idle, SetupInit, Init
<1>4. SetupTypeOK /\ ~SettingUp /\ todo = {}
  BY ChecksAre DEF SetupInit, Init, SetupTypeOK, HealthStates, NoReports, SettingUp
<1> QED BY <1>1, <1>3, <1>4 DEF SetupInv

\* The operations' epochs, during a set-up and after it.
LEMMA EpochsStep ==
    ASSUME SetupInv, [SetupNext]_allVars, TypeOK'
    PROVE  EpochsAgree' /\ NobodyLive'
<1>1. /\ TypeOK /\ EpochsAgree /\ NobodyLive /\ SetupTypeOK
      /\ epoch \in Nat /\ epoch' \in Nat
      /\ \A t \in Tasks : task[t].epoch \in Nat /\ task'[t].epoch \in Nat
  BY MaxEpochAssumption DEF SetupInv, TypeOK, Task, Epochs
<1>2. CASE Looks \/ EndCheck \/ UNCHANGED allVars
  <2>1. UNCHANGED vars /\ (Up => Up')
    BY <1>2 DEF Looks, EndCheck, allVars, setupVars, Up, SettingUp, Served
  <2> QED BY <1>1, <2>1 DEF vars, EpochsAgree, NobodyLive, Live
<1>3. CASE SetsUp
  BY <1>1, <1>3 DEF SetsUp, Load, EpochsAgree, NobodyLive, Live
<1>4. CASE Operates
  <2>1. PICK t \in Tasks : GoOn(t)
    BY <1>4 DEF Operates
  <2>2. Up' <=> Up
    BY <1>4 DEF Operates, setupVars, Up
  <2> QED BY <1>1, <2>1, <2>2, GoOnStays
          DEF EpochsAgree, NobodyLive, Live, OthersWait, Idle, Same
<1>5. CASE Serves
  <2>1. PICK t \in Tasks : Serve(t)
    BY <1>5 DEF Serves
  <2>2. Up' /\ Request(t)
    BY <2>1 DEF Serve, setupVars, Up
  <2> QED BY <1>1, <2>2, RequestIsTaken DEF EpochsAgree, NobodyLive, OthersWait
<1>6. CASE TakeDown
  BY <1>1, <1>6 DEF TakeDown, Unload, Crash, EpochsAgree, NobodyLive, Live, Idle
<1> QED BY <1>1, <1>2, <1>3, <1>4, <1>5, <1>6, SetupKinds

\* The end of a check.
LEMMA EndCheckType ==
    ASSUME SetupTypeOK, EndCheck
    PROVE  /\ stage' \in 2 .. Served
           /\ todo' = {} \/ (todo' = PresentVids /\ stage < Len(Checks))
           /\ stage' = Served => todo' = {}
           /\ verdict' = "healthy"
           /\ health' \in [Components -> HealthStates]
           /\ stage < stage'
           /\ UNCHANGED <<vars, erased>>
<1>1. stage \in 1 .. 9 /\ Len(Checks) = 9
  BY ChecksAre DEF EndCheck, SettingUp, Served
<1>2. Report(Checks[stage].of, Findings) \in HealthStates /\ Checks[stage].of \in Components
  BY <1>1, ReportType, ChecksAre DEF SetupTypeOK
<1>3. stage < 9 => stage' \in 2 .. 9
  BY <1>1 DEF EndCheck, Checks
<1> HIDE DEF Checks
<1>4. health' \in [Components -> HealthStates]
  BY <1>2 DEF EndCheck, SetupTypeOK, HealthStates
<1>5. stage' \in 2 .. 10 /\ stage < stage'
  BY <1>1 DEF EndCheck
<1> QED BY <1>1, <1>3, <1>4, <1>5, ChecksAre DEF EndCheck

LEMMA SetupTypeStep ==
    ASSUME SetupInv, [SetupNext]_allVars
    PROVE  SetupInv'
<1>1. TypeOK'
  BY SetupRunsTheService, TypeStep DEF SetupInv
<1>2. EpochsAgree' /\ NobodyLive'
  BY <1>1, EpochsStep
<1> SUFFICES SetupTypeOK' /\ (~SettingUp => todo = {})'
  BY <1>1, <1>2 DEF SetupInv
<1>3. TypeOK /\ SetupTypeOK /\ NobodyLive /\ (~SettingUp => todo = {})
  BY DEF SetupInv
<1>4. SettingUp => ~Up /\ stage # 0 /\ loaded
  BY <1>3, ChecksAre DEF SettingUp, Up, SetupTypeOK
<1> HIDE DEF Checks
<1>5. CASE Looks \/ UNCHANGED allVars
  BY <1>3, <1>4, <1>5 DEF Looks, allVars, vars, setupVars, SetupTypeOK, PresentVids, SettingUp
<1>6. CASE SetsUp
  BY <1>3, <1>6, ChecksAre DEF SetsUp, Load, SetupTypeOK, PresentVids, SettingUp, HealthStates
<1>7. CASE EndCheck
  <2>1. /\ stage' \in 2 .. 10
        /\ todo' = {} \/ todo' = PresentVids
        /\ stage' = 10 => todo' = {}
        /\ verdict' \in HealthStates
        /\ health' \in [Components -> HealthStates]
        /\ UNCHANGED <<vars, erased>>
        /\ SettingUp
    BY <1>3, <1>7, EndCheckType, ChecksAre DEF EndCheck, HealthStates
  <2>2. PresentVids' = PresentVids /\ loaded' /\ erased' \subseteq Vids
    BY <1>3, <1>4, <2>1 DEF vars, PresentVids, SetupTypeOK
  <2> QED BY <2>1, <2>2, ChecksAre DEF SetupTypeOK, SettingUp
<1>8. CASE Operates
  <2>1. PICK t \in Tasks : GoOn(t)
    BY <1>8 DEF Operates
  <2>2. UNCHANGED <<stage, todo, verdict, health, erased>>
    BY <1>8 DEF Operates, setupVars
  <2>3. SettingUp => records' = records
      BY <1>3, <1>4, <2>1, GoOnStays DEF NobodyLive
  <2> QED BY <1>3, <1>4, <2>1, <2>2, <2>3, GoOnStays
          DEF SetupTypeOK, PresentVids, SettingUp, Present
<1>9. CASE Serves
  <2>1. PICK t \in Tasks : Serve(t)
    BY <1>9 DEF Serves
  <2>2. /\ UNCHANGED <<stage, todo, verdict, health>>
        /\ Request(t)
        /\ todo = {} /\ ~SettingUp
    BY <1>3, <1>4, <2>1 DEF Serve, setupVars
  <2>3. erased' \subseteq Vids
    <3>1. task'[t].op = "erase" => task'[t].vid \in Vids
      BY <1>1 DEF TypeOK, Idle
    <3> QED BY <1>3, <2>1, <3>1 DEF Serve, SetupTypeOK
  <2> QED BY <1>3, <2>2, <2>3, RequestIsTaken DEF SetupTypeOK, SettingUp
<1>10. CASE TakeDown
  BY <1>3, <1>10, ChecksAre
     DEF TakeDown, Unload, Crash, SetupTypeOK, PresentVids, SettingUp, NoReports, HealthStates
<1> QED BY <1>1, <1>2, <1>3, <1>5, <1>6, <1>7, <1>8, <1>9, <1>10, SetupKinds DEF SetupInv

(***************************************************************************)
(* Whose bytes are missing.                                                *)
(***************************************************************************)

\* An id without a record has none after a step that writes no record.
LEMMA StaysUnregistered ==
    ASSUME TypeOK, NEW w \in Vids, Unregistered(w),
           \/ \E t \in Tasks : (\E v \in Vids : Enrols(t, v)) \/ Passes(t) \/ Executor(t)
           \/ Load \/ Unload \/ Crash \/ UNCHANGED vars
    PROVE  Unregistered(w)'
<1>1. UNCHANGED vars => Registries' = Registries
  BY DEF vars, Registries, Snapshots
<1>2. Registries' \subseteq Registries \cup {EmptyRegistry}
  BY <1>1, QuietRegistries, LifeRegistries
<1> QED BY <1>2, UnregisteredStays

\* Who erases has been asked to.
LEMMA ErasuresAreAsked ==
    ASSUME SetupInv, BytesKept, [SetupNext]_allVars
    PROVE  /\ erased \subseteq erased'
           /\ \A t \in Tasks : Erasing(t)' => task'[t].vid \in erased'
<1>1. SetupTypeOK /\ TypeOK
  BY DEF SetupInv
<1>2. CASE Operates
  <2>1. PICK t \in Tasks : GoOn(t)
    BY <1>2 DEF Operates
  <2> QED BY <1>1, <1>2, <2>1, GoOnStays
          DEF Operates, BytesKept, Erasing, OthersWait, Same, Idle
<1>3. CASE Serves
  <2>1. PICK t \in Tasks : Serve(t)
    BY <1>3 DEF Serves
  <2>2. Request(t) /\ erased' = IF task'[t].op = "erase" THEN erased \cup {task'[t].vid} ELSE erased
    BY <2>1 DEF Serve
  <2> QED BY <1>1, <2>2, RequestIsTaken DEF BytesKept, Erasing, OthersWait
<1>4. CASE Looks \/ EndCheck \/ SetsUp \/ TakeDown \/ UNCHANGED allVars
  <2>1. erased' = erased /\ \A t \in Tasks : task'[t] = task[t] \/ task'[t] = Idle
    BY <1>4 DEF Looks, EndCheck, SetsUp, Load, TakeDown, Unload, Crash, allVars, vars
  <2> QED BY <2>1 DEF BytesKept, Erasing, Idle
<1> QED BY <1>1, <1>2, <1>3, <1>4, SetupKinds

\* No step but an erasure takes the bytes of an id that was registered.
LEMMA BytesKeptStep ==
    ASSUME SetupInv, StoreInv, ReuseIds = FALSE, ManagerMoves = {}, [SetupNext]_allVars
    PROVE  BytesKept'
<1>1. TypeOK /\ IInv /\ OwnInv /\ CallsMatch /\ BytesOwned /\ BytesSaved /\ BytesKept
  BY DEF SetupInv, StoreInv, OwnInv
<1>2. /\ erased \subseteq erased'
      /\ \A t \in Tasks : Erasing(t)' => task'[t].vid \in erased'
  BY <1>1, ErasuresAreAsked
<1> SUFFICES ASSUME NEW v \in Vids, v \notin erased'
             PROVE  v \in artifacts' \/ Unregistered(v)'
  BY <1>2 DEF BytesKept
<1>3. v \in artifacts \/ Unregistered(v)
  BY <1>1, <1>2 DEF BytesKept
<1>4. ASSUME NEW t \in Tasks, (\E w \in Vids : Enrols(t, w)) \/ Passes(t)
      PROVE  v \in artifacts' \/ Unregistered(v)'
  BY <1>1, <1>3, <1>4, StaysUnregistered DEF Enrols, Passes
<1>5. ASSUME NEW t \in Tasks, NEW x \in Vids, NEW rec \in Record, Writes(t, x, rec)
      PROVE  v \in artifacts' \/ Unregistered(v)'
  <2>1. artifacts' = artifacts
    BY <1>5 DEF Writes
  <2>2. CASE v # x
    BY <1>1, <1>3, <1>5, <2>1, <2>2, OthersUnregistered
  <2>3. CASE v = x
    <3>1. Enters(t, x, rec) => x \in artifacts
      BY <1>1 DEF Enters, BytesSaved
    <3>2. ~Enters(t, x, rec) => Present(records, x)
      BY <1>5 DEF Writes, Promotes, HandsOver, Retires, Active, Present
    <3> QED BY <1>3, <1>5, <2>1, <2>3, <3>1, <3>2 DEF Unregistered, Registries
  <2> QED BY <2>2, <2>3
<1>6. ASSUME NEW t \in Tasks, Executor(t)
      PROVE  v \in artifacts' \/ Unregistered(v)'
  <2>1. CASE Unregistered(v)
    BY <1>1, <1>6, <2>1, StaysUnregistered
  <2>2. CASE v \in artifacts /\ ~(RunUnlink(t) /\ task[t].vid = v)
    BY <1>6, <2>2
       DEF Executor, RunExists, RunWrite, RunUnlink, StorageFails, TakeSnapshot,
           RunStore, StoreFails
  <2>3. CASE RunUnlink(t) /\ task[t].vid = v
    <3>1. OwnsBytes(t)
      BY <1>1, <2>3 DEF RunUnlink, BytesOwned, Unlinking
    <3>2. ~Erasing(t)
      BY <1>1, <1>2, <2>3 DEF BytesKept
    <3> QED BY <2>1, <2>3, <3>1, <3>2 DEF OwnsBytes
  <2> QED BY <1>3, <2>1, <2>2, <2>3
<1>7. CASE Load \/ Unload \/ Crash
  <2>1. artifacts' = artifacts
    BY <1>7 DEF Load, Unload, Crash
  <2> QED BY <1>1, <1>3, <1>7, <2>1, StaysUnregistered
<1>8. CASE UNCHANGED vars
  BY <1>1, <1>3, <1>8, StaysUnregistered DEF vars
<1> QED BY <1>1, <1>4, <1>5, <1>6, <1>7, <1>8, SetupRunsTheService, StepKinds

\* Only a save writes bytes, cancelled or not.
LEMMA SavesWrite ==
    ASSUME TypeOK, CallsMatch, NEW t \in Tasks, task[t].io = "write"
    PROVE  task[t].step \in {"save", "abandoned"}
<1>1. task[t].step \in Steps /\ task[t].io \in CallAt[task[t].step] \cup Answers
  BY WaitingTask DEF TypeOK, Task, CallsMatch
<1> QED BY <1>1 DEF Steps, CallAt, Answers

\* Bytes that come late belong to nobody.
LEMMA LateWritesStep ==
    ASSUME OwnInv, LateWritesAreOrphans, ReuseIds = FALSE, ManagerMoves = {}, [Next]_vars
    PROVE  LateWritesAreOrphans'
<1>1. TypeOK /\ IInv /\ CallsMatch
  BY DEF OwnInv, IInv
<1> SUFFICES ASSUME NEW u \in Tasks, LateWrite(u)'
             PROVE  NobodysBytes(u)'
  BY DEF LateWritesAreOrphans
<1>2. LateWrite(u) => NobodysBytes(u) /\ task[u].vid \in Vids
  BY <1>1, BusyTask DEF LateWritesAreOrphans, LateWrite
<1>3. ASSUME NEW t \in Tasks, NEW v \in Vids, Enrols(t, v)
      PROVE  NobodysBytes(u)'
  <2>1. u # t /\ task'[u] = task[u] /\ LateWrite(u)
    BY <1>3 DEF Enrols, Begins, OthersWait, LateWrite
  <2>2. \A w \in Vids : Unregistered(w) => Unregistered(w)'
    BY <1>1, <1>3, StaysUnregistered
  <2> QED BY <1>2, <1>3, <2>1, <2>2 DEF Enrols, Begins, OthersWait, NobodysBytes
<1>4. ASSUME NEW t \in Tasks, Passes(t)
      PROVE  NobodysBytes(u)'
  <2>1. \A w \in Vids : Unregistered(w) => Unregistered(w)'
    BY <1>1, <1>4, StaysUnregistered
  <2>2. /\ OthersWait(t) /\ issued' = issued
        /\ task'[t].step \in PreSteps => task[t].step \in PreSteps /\ task'[t].vid = task[t].vid
    BY <1>4 DEF Passes, GoesOn, Continues, At, PreSteps, Idle
  <2>3. CASE LateWrite(u)
    <3>1. task'[u].vid = task[u].vid
      BY <1>4, <2>2 DEF Passes, Continues, OthersWait, LateWrite, Idle
    <3> QED BY <1>2, <2>1, <2>2, <2>3, <3>1 DEF NobodysBytes, OthersWait
  <2>4. CASE ~LateWrite(u)
    <3>1. u = t
      BY <2>2, <2>4 DEF OthersWait, LateWrite
    <3>2. /\ task[u].io = "write" /\ task[u].step # "abandoned"
          /\ task'[u].vid = task[u].vid
          /\ task'[u].step \notin PreSteps
      BY <1>4, <2>4, <3>1
         DEF Passes, GoesOn, Continues, At, LateWrite, Idle, PreSteps
    <3>4. task[u].vid \in Vids
      BY <1>1, <3>2, WaitingTask, BusyTask
    <3>3. /\ task[u].vid \in issued
          /\ Unregistered(task[u].vid)
          /\ \A q \in Tasks \ {u} : task[q].step \in PreSteps => task[q].vid # task[u].vid
      BY <1>1, <3>2, SavesWrite DEF IInv, BeforeRegister, PreSteps
    <3> QED BY <2>1, <2>2, <3>1, <3>2, <3>3, <3>4 DEF NobodysBytes, OthersWait
  <2> QED BY <2>3, <2>4
<1>5. ASSUME NEW t \in Tasks, NEW x \in Vids, NEW rec \in Record, Writes(t, x, rec)
      PROVE  NobodysBytes(u)'
  <2>1. /\ task'[t].step \notin PreSteps /\ task'[t].io # "write"
        /\ OthersWait(t) /\ issued' = issued
    BY <1>5 DEF Writes, Saves, Enters, Promotes, HandsOver, Retires, PreSteps
  <2>2. task'[u] = task[u] /\ LateWrite(u)
    BY <2>1 DEF LateWrite, OthersWait
  <2>3. task[u].vid # x
    BY <1>2, <1>5, <2>2 DEF Writes, Enters, Promotes, HandsOver, Retires, Active,
                            NobodysBytes, Unregistered, Registries, Present, PreSteps
  <2>4. \A w \in Vids : (w # x /\ Unregistered(w)) => Unregistered(w)'
    BY <1>1, <1>5, OthersUnregistered
  <2> QED BY <1>2, <2>1, <2>2, <2>3, <2>4 DEF NobodysBytes, OthersWait
<1>6. ASSUME NEW t \in Tasks, Executor(t)
      PROVE  NobodysBytes(u)'
  <2>1. OthersWait(t) /\ Replies(t) /\ issued' = issued
    BY <1>1, <1>6, ExecutorReplies
  <2>2. /\ \A q \in Tasks : task'[q].step = task[q].step /\ task'[q].vid = task[q].vid
        /\ LateWrite(u)
    BY <2>1 DEF Replies, Continues, OthersWait, LateWrite, Answers
  <2>3. issued' = issued /\ \A w \in Vids : Unregistered(w) => Unregistered(w)'
    BY <1>1, <1>6, <2>1, StaysUnregistered
  <2> QED BY <1>2, <2>2, <2>3 DEF NobodysBytes
<1>7. CASE Load \/ Unload \/ Crash
  <2>1. issued' = issued /\ \A q \in Tasks : task'[q] = task[q] \/ task'[q] = Idle
    BY <1>7 DEF Load, Unload, Crash
  <2>2. task'[u] = task[u] /\ LateWrite(u)
    BY <2>1 DEF LateWrite, Idle
  <2>3. \A w \in Vids : Unregistered(w) => Unregistered(w)'
    BY <1>1, <1>7, StaysUnregistered
  <2> QED BY <1>2, <2>1, <2>2, <2>3 DEF NobodysBytes, Idle, PreSteps
<1>8. CASE UNCHANGED vars
  BY <1>1, <1>2, <1>8, StaysUnregistered DEF vars, NobodysBytes, LateWrite
<1> QED BY <1>1, <1>3, <1>4, <1>5, <1>6, <1>7, <1>8, StepKinds

\* What is stored was issued.
LEMMA StoredStep ==
    ASSUME OwnInv, LateWritesAreOrphans, OnlyIssuedStored,
           ReuseIds = FALSE, ManagerMoves = {}, [Next]_vars
    PROVE  OnlyIssuedStored'
<1>1. TypeOK /\ IInv /\ CallsMatch
  BY DEF OwnInv, IInv
<1>2. ASSUME NEW t \in Tasks, Executor(t)
      PROVE  OnlyIssuedStored'
  <2>1. task[t].io = "write" => task[t].step \in {"save", "abandoned"}
    BY <1>1, SavesWrite
  <2>2. task[t].io = "write" => task[t].vid \in issued
    BY <1>1, <2>1
       DEF IInv, BeforeRegister, PreSteps, LateWritesAreOrphans, LateWrite, NobodysBytes
  <2> QED BY <1>2, <2>2
          DEF Executor, RunExists, RunWrite, RunUnlink, StorageFails, TakeSnapshot,
              RunStore, StoreFails, OnlyIssuedStored
<1>3. ASSUME NEW t \in Tasks,
             \/ (\E v \in Vids : Enrols(t, v)) \/ Passes(t)
             \/ \E x \in Vids, rec \in Record : Writes(t, x, rec)
      PROVE  OnlyIssuedStored'
  BY <1>3 DEF Enrols, Passes, Writes, OnlyIssuedStored
<1>4. CASE Load \/ Unload \/ Crash \/ UNCHANGED vars
  BY <1>4 DEF Load, Unload, Crash, vars, OnlyIssuedStored
<1> QED BY <1>1, <1>2, <1>3, <1>4, StepKinds

LEMMA StoreInit == ASSUME SetupInit PROVE StoreInv
<1>1. OwnInv
  BY OwnInit DEF SetupInit
<1>2. \A t \in Tasks : task[t] = Idle
  BY DEF SetupInit, Init
<1>3. LateWritesAreOrphans /\ OnlyIssuedStored
  BY <1>2 DEF LateWritesAreOrphans, LateWrite, Idle, OnlyIssuedStored, SetupInit, Init
<1>4. \A v \in Vids : Unregistered(v)
  BY <1>2, EmptyIsGood DEF SetupInit, Init, Unregistered, Registries, Snapshots, Idle
<1> QED BY <1>1, <1>2, <1>3, <1>4 DEF StoreInv, BytesKept, Erasing, Idle

LEMMA StoreStep ==
    ASSUME SetupInv, StoreInv, ReuseIds = FALSE, ManagerMoves = {}, [SetupNext]_allVars
    PROVE  StoreInv'
<1>1. [Next]_vars
  BY SetupRunsTheService
<1>2. OwnInv' /\ LateWritesAreOrphans' /\ OnlyIssuedStored'
  BY <1>1, OwnStep, LateWritesStep, StoredStep DEF StoreInv
<1> QED BY <1>2, BytesKeptStep DEF StoreInv

(***************************************************************************)
(* What a set-up has missed.                                               *)
(***************************************************************************)

\* The registry is asked first, and only once; the managers are not asked.
LEMMA ChecksOrder ==
    /\ Checks[1].of = "voiceprint_registry" /\ Checks[1].reads = "records"
    /\ \A i \in 2 .. 9 : Checks[i].of \notin
            {"voiceprint_registry", "voiceprint_lifecycle_manager", "voiceprint_revision_manager"}
    /\ Checks[2].of # Checks[1].of
BY DEF Checks

\* While the set-up looks, no record comes or goes, and missing bytes are not
\* brought back by what older instances have left behind.
LEMMA LostStays ==
    ASSUME SetupInv, StoreInv, Operates, SettingUp
    PROVE  PresentVids' = PresentVids /\ Lost \subseteq Lost'
<1>1. TypeOK /\ NobodyLive /\ ~Up /\ IInv /\ CallsMatch /\ LateWritesAreOrphans
  BY ChecksAre DEF SetupInv, StoreInv, OwnInv, SettingUp, Up
<1>2. PICK t \in Tasks : GoOn(t)
  BY DEF Operates
<1>3. records' = records
  BY <1>1, <1>2, GoOnStays DEF NobodyLive
<1>4. PresentVids' = PresentVids
  BY <1>3 DEF PresentVids, Present
<1>5. artifacts' \subseteq artifacts \/ RunWrite(t)
  <2>1. TaskOnly(t) => artifacts' = artifacts
    BY DEF TaskOnly
  <2>2. Register(t) \/ ActivateNew(t) \/ WriteReplacement(t) \/ SupersedeNew(t)
            => artifacts' = artifacts
    BY DEF Register, ActivateNew, WriteReplacement, SupersedeNew
  <2>3. Executor(t) => artifacts' \subseteq artifacts \/ RunWrite(t)
    BY DEF Executor, RunExists, RunUnlink, StorageFails, TakeSnapshot,
           RunStore, StoreFails
  <2> QED BY <1>1, <1>2, <2>1, <2>2, <2>3, TaskOnlySteps DEF GoOn, Resume
<1>6. RunWrite(t) => artifacts' = artifacts \cup {task[t].vid} /\ ~Present(records, task[t].vid)
  <2>1. task[t].io = "write" => Unregistered(task[t].vid)
    BY <1>1, SavesWrite
       DEF IInv, BeforeRegister, PreSteps, LateWritesAreOrphans, LateWrite, NobodysBytes
  <2> QED BY <2>1 DEF RunWrite, Unregistered, Registries
<1> QED BY <1>3, <1>4, <1>5, <1>6 DEF Lost, PresentVids, Present

\* A check of a record misses its bytes or leaves the missing ones to be looked for.
LEMMA LooksMiss ==
    ASSUME SetupInv, MissedStaysMissed, SetUpStep, ~SetsUp, ~EndCheck
    PROVE  MissedStaysMissed'
<1>1. /\ Looks
      /\ ProbeFails \/ \E v \in Vids : CheckRecord(v) \/ CheckEnvelope(v)
  BY SetUpBegins, ProbeLooks, CheckLooks DEF SetUpStep, SetupInv
<1>2. /\ Lost' = Lost
      /\ RegistryMissed' <=> RegistryMissed
      /\ SettingUp
      /\ UNCHANGED <<stage, health>>
      /\ todo \subseteq PresentVids
  BY <1>1 DEF Looks, vars, Lost, PresentVids, Present, RegistryMissed, SetupInv, SetupTypeOK
<1>3. ASSUME stage = 1 => (verdict' = verdict \/ (verdict' = "unavailable" /\ Lost # {})),
             RegistryMissed => verdict' = "unavailable" \/ Lost \cap todo' # {}
      PROVE  MissedStaysMissed'
  BY <1>2, <1>3 DEF MissedStaysMissed, SettingUp
<1>4. CASE ProbeFails
  <2>1. stage # 1 /\ verdict' = "unavailable"
    BY <1>4, ChecksOrder DEF ProbeFails
  <2> QED BY <1>3, <2>1
<1>5. ASSUME NEW v \in Vids, CheckRecord(v)
      PROVE  MissedStaysMissed'
  <2>1. CASE v \in artifacts
    BY <1>2, <1>3, <1>5, <2>1 DEF CheckRecord, MissedStaysMissed, Lost
  <2>2. CASE v \notin artifacts
    BY <1>2, <1>3, <1>5, <2>2 DEF CheckRecord, Lost
  <2> QED BY <2>1, <2>2
<1>6. ASSUME NEW v \in Vids, CheckEnvelope(v)
      PROVE  MissedStaysMissed'
  <2>1. stage # 1
    BY <1>6, ChecksOrder DEF CheckEnvelope
  <2>2. verdict = "unavailable" \/ v \notin artifacts => verdict' = "unavailable"
    BY <1>6 DEF CheckEnvelope, Worse
  <2> QED BY <1>2, <1>3, <1>6, <2>1, <2>2 DEF CheckEnvelope, MissedStaysMissed, Lost
<1> QED BY <1>1, <1>4, <1>5, <1>6

\* What is found to be unavailable is reported so, whoever reports it.
LEMMA UnavailableIsReported ==
    ASSUME verdict = "unavailable", NEW component
    PROVE  Report(component, Findings) = "unavailable"
<1>1. Findings = "unavailable"
  BY DEF Findings, Worse
<1> QED BY <1>1 DEF Report, PersistenceReport, OrchestratorReport, StatusReport,
                    DeleteSupersedeReport

\* A check that ends has missed what the registry had missed.
LEMMA EndMisses ==
    ASSUME SetupInv, MissedStaysMissed, EndCheck
    PROVE  MissedStaysMissed'
<1> DEFINE component == Checks[stage].of
           report == Report(component, Findings)
<1>1. /\ SettingUp /\ stage \in 1 .. 9 /\ todo = {} /\ Len(Checks) = 9 /\ SetupTypeOK
      /\ stage' \in 2 .. 10 /\ stage < stage' /\ stage' <= stage + 2
      /\ UNCHANGED vars /\ verdict' = "healthy"
      /\ health \in [Components -> HealthStates]
  <2>1. SetupTypeOK /\ Len(Checks) = 9 /\ Served = 10
    BY ChecksAre DEF SetupInv, Served
  <2>2. SettingUp /\ todo = {} /\ stage \in 1 .. 9
    BY <2>1 DEF EndCheck, SettingUp
  <2>3. stage' \in 2 .. 10 /\ stage < stage' /\ UNCHANGED vars /\ verdict' = "healthy"
    BY <2>1, EndCheckType
  <2>4. stage' <= stage + 2
    BY <2>2 DEF EndCheck
  <2>5. health \in [Components -> HealthStates]
    BY <2>1 DEF SetupTypeOK
  <2> QED BY <2>1, <2>2, <2>3, <2>4, <2>5
<1>2. Lost' = Lost /\ (SettingUp' => todo' = PresentVids)
  BY <1>1, ChecksAre DEF vars, Lost, PresentVids, Present, EndCheck, SettingUp
<1>3. stage' = stage + 2 => Checks[stage + 1].of = component
  BY <1>1 DEF EndCheck
<1>4. \A i \in 1 .. 9 : health'[Checks[i].of] =
        IF Checks[i].of = component THEN report ELSE health[Checks[i].of]
  <2> TAKE i \in 1 .. 9
  <2>1. /\ Checks[i].of \in Components
        /\ Checks[i].of \notin {"voiceprint_lifecycle_manager", "voiceprint_revision_manager"}
    BY ChecksAre, ChecksOrder
  <2> HIDE DEF Checks
  <2> QED BY <1>1, <2>1 DEF EndCheck
<1>5. RegistryMissed' => verdict = "unavailable" /\ Lost # {}
  <2>1. CASE stage = 1
    <3>1. health'["voiceprint_registry"] = verdict
      BY <1>4, <2>1, ChecksOrder DEF Report, Findings
    <3> QED BY <2>1, <3>1 DEF RegistryMissed, MissedStaysMissed
  <2>2. CASE stage # 1
    <3>1. health'["voiceprint_registry"] = health["voiceprint_registry"]
      <4>1. component # "voiceprint_registry"
        BY <1>1, <2>2, ChecksOrder
      <4> QED BY <1>4, <4>1, ChecksOrder
    <3>2. RegistryMissed' => RegistryMissed
      BY <1>1, <2>2, <3>1 DEF RegistryMissed
    <3> QED BY <1>1, <3>2 DEF MissedStaysMissed
  <2> QED BY <2>1, <2>2
<1>6. \A i \in 1 .. 9 : (RegistryMissed' /\ i < stage') => health'[Checks[i].of] = "unavailable"
  <2> SUFFICES ASSUME NEW i \in 1 .. 9, RegistryMissed', i < stage'
               PROVE  health'[Checks[i].of] = "unavailable"
    OBVIOUS
  <2>1. report = "unavailable"
    BY <1>5, UnavailableIsReported
  <2>2. i < stage \/ Checks[i].of = component
    BY <1>1, <1>3
  <2>3. i < stage => RegistryMissed
    <3>1. i < stage => stage # 1 /\ component # "voiceprint_registry"
      BY <1>1, ChecksOrder
    <3>2. i < stage => health'["voiceprint_registry"] = health["voiceprint_registry"]
      BY <1>4, <3>1, ChecksOrder
    <3> QED BY <1>1, <3>1, <3>2 DEF RegistryMissed
  <2>4. i < stage => health[Checks[i].of] = "unavailable"
    BY <2>3, ChecksAre DEF MissedStaysMissed
  <2> QED BY <1>4, <2>1, <2>2, <2>4
<1> QED BY <1>1, <1>2, <1>5, <1>6, ChecksAre DEF MissedStaysMissed, Lost

LEMMA MissedStep ==
    ASSUME SetupInv, StoreInv, MissedStaysMissed, [SetupNext]_allVars
    PROVE  MissedStaysMissed'
<1>1. CASE SetUpStep
  <2>1. CASE SetsUp
    BY <2>1 DEF SetsUp, MissedStaysMissed, RegistryMissed
  <2> QED BY <1>1, <2>1, LooksMiss, EndMisses
<1>2. CASE Operates
  <2>1. UNCHANGED <<stage, todo, verdict, health>>
    BY <1>2 DEF Operates, setupVars
  <2>2. CASE SettingUp
    BY <1>2, <2>1, <2>2, LostStays DEF MissedStaysMissed, RegistryMissed, SettingUp
  <2>3. CASE ~SettingUp
    BY <2>1, <2>3, ChecksAre DEF MissedStaysMissed, RegistryMissed, SettingUp
  <2> QED BY <2>2, <2>3
<1>3. CASE Serves
  <2>1. UNCHANGED <<stage, todo, verdict, health>> /\ ~SettingUp /\ stage # 1
    BY <1>3, ChecksAre DEF Serves, Serve, setupVars, Up, SettingUp
  <2> QED BY <2>1, ChecksAre DEF MissedStaysMissed, RegistryMissed, SettingUp
<1>4. CASE TakeDown
  BY <1>4, ChecksAre DEF TakeDown, MissedStaysMissed, RegistryMissed
<1>5. CASE UNCHANGED allVars
  BY <1>5 DEF allVars, setupVars, vars, MissedStaysMissed, RegistryMissed, Lost, PresentVids,
              Present, SettingUp
<1> QED BY <1>1, <1>2, <1>3, <1>4, <1>5 DEF SetupNext, Operates, Serves, GoOn

(***************************************************************************)
(* What the reports say of operations that run one at a time.              *)
(***************************************************************************)

\* A record stays in its instance's registry.
LEMMA RecordStays ==
    ASSUME OwnInv, ReuseIds = FALSE, ManagerMoves = {}, [Next]_vars, loaded, loaded',
           NEW v \in Vids, Present(records, v)
    PROVE  Present(records', v)
<1>1. TypeOK /\ IInv /\ CallsMatch
  BY DEF OwnInv, IInv
<1>2. ASSUME NEW t \in Tasks, NEW x \in Vids, NEW rec \in Record, Writes(t, x, rec)
      PROVE  Present(records', v)
  <2>1. rec.state # "absent"
    <3>1. records[x] \in Record
      BY <1>1 DEF TypeOK, Registry
    <3> QED BY <1>2, <3>1 DEF Writes, Enters, Promotes, HandsOver, Retires, WithState,
                              SupersededBy, Record
  <2> QED BY <1>1, <1>2, <2>1, WriteEffect DEF Present
<1>3. ASSUME NEW t \in Tasks, Executor(t) PROVE records' = records
  BY <1>1, <1>3, QuietExecutor DEF QuietStep
<1> QED BY <1>1, <1>2, <1>3, StepKinds DEF Enrols, Passes, Load, Unload, Crash, vars, Present

\* A generation that was lost to this instance is never found again.
LEMMA LostStaysLost ==
    ASSUME OwnInv, ReuseIds = FALSE, ManagerMoves = {}, [Next]_vars,
           loaded, loaded', epoch' = epoch, NEW v \in Vids, LostGeneration(v)
    PROVE  LostGeneration(v)'
<1>1. TypeOK /\ IInv /\ CallsMatch
  BY DEF OwnInv, IInv
<1>2. ASSUME NEW t \in Tasks, NEW w \in Vids, Enrols(t, w)
      PROVE  LostGeneration(v)'
  BY <1>2 DEF Enrols, Begins, OthersWait, LostGeneration, Live, Present
<1>3. ASSUME NEW t \in Tasks, Passes(t)
      PROVE  LostGeneration(v)'
  <2>1. task'[t].step \in PreSteps =>
            /\ task[t].step \in PreSteps
            /\ task'[t].vid = task[t].vid
            /\ task'[t].epoch = task[t].epoch
    BY <1>3 DEF Passes, GoesOn, Continues, At, PreSteps, Idle
  <2> QED BY <1>3, <2>1 DEF Passes, OthersWait, LostGeneration, Live, Present
<1>4. ASSUME NEW t \in Tasks, NEW x \in Vids, NEW rec \in Record, Writes(t, x, rec)
      PROVE  LostGeneration(v)'
  <2>1. x # v
    BY <1>4 DEF Writes, Enters, Promotes, HandsOver, Retires, Active, Present, LostGeneration,
                PreSteps
  <2>2. records'[v] = records[v]
    BY <1>1, <1>4, <2>1, WriteEffect
  <2>3. task'[t].step \notin PreSteps /\ OthersWait(t) /\ issued' = issued
    BY <1>4 DEF Writes, Saves, Enters, Promotes, HandsOver, Retires, PreSteps
  <2> QED BY <2>2, <2>3 DEF OthersWait, LostGeneration, Live, Present
<1>5. ASSUME NEW t \in Tasks, Executor(t)
      PROVE  LostGeneration(v)'
  <2>1. OthersWait(t) /\ Replies(t) /\ UNCHANGED <<records, loaded, epoch, issued>>
    BY <1>1, <1>5, ExecutorReplies
  <2> QED BY <2>1 DEF Replies, Continues, OthersWait, LostGeneration, Live, Present
<1>6. CASE UNCHANGED vars
  BY <1>6 DEF vars, LostGeneration, Live, Present
<1> QED BY <1>1, <1>2, <1>3, <1>4, <1>5, <1>6, StepKinds DEF Load, Unload, Crash

\* The reports that one check decides.
LEMMA ReportsOf ==
    ASSUME SetupTypeOK, EndCheck
    PROVE  /\ health'["voiceprint_registry"] =
                IF stage = 1 THEN verdict ELSE health["voiceprint_registry"]
           /\ health'["artifact_integrity_validator"] =
                IF stage = 3 THEN Findings ELSE health["artifact_integrity_validator"]
           /\ health'["voiceprint_lifecycle_manager"] =
                IF stage > 1 THEN health["voiceprint_lifecycle_manager"]
                ELSE IF SingleActive THEN "healthy" ELSE "unavailable"
           /\ health'["voiceprint_revision_manager"] =
                IF stage > 1 THEN health["voiceprint_revision_manager"]
                ELSE IF ChainsValid THEN "healthy" ELSE "unavailable"
           /\ stage' > 3 => stage \in 3 .. 9
           /\ stage \in 1 .. 9
<1>1. stage \in 1 .. 9
  BY ChecksAre DEF EndCheck, SettingUp
<1> DEFINE report == Report(Checks[stage].of, Findings)
<1>2. /\ stage = 1 => report = verdict
      /\ stage = 3 => report = Findings
  BY DEF Checks, Report, Findings
<1>3. /\ Checks[stage].of \notin {"voiceprint_lifecycle_manager", "voiceprint_revision_manager"}
      /\ Checks[stage].of = "voiceprint_registry" <=> stage = 1
      /\ Checks[stage].of = "artifact_integrity_validator" <=> stage = 3
  BY <1>1 DEF Checks
<1>4. stage \in {1, 2} => stage' = stage + 1
  BY DEF EndCheck, Checks
<1>5. health \in [Components -> HealthStates]
  BY DEF SetupTypeOK
<1> HIDE DEF Checks
<1> QED BY <1>1, <1>2, <1>3, <1>4, <1>5 DEF EndCheck, Components

\* The chains are in order, so the managers and the validator find nothing.
LEMMA OrderIsFound ==
    ASSUME IInv, SequentialInv
    PROVE  /\ SingleActive
           /\ ChainsValid
           /\ \A v \in PresentVids : ValidLineage(records, records[v].root)
BY DEF IInv, GoodRegistries, GoodRegistry, SequentialInv, OrderlyRegistries, OrderlyRegistry,
       RootsPresent, SingleActive, ChainsValid, PresentVids, Everywhere, Registries

\* Bytes that are missing were erased.
LEMMA LostWereErased ==
    ASSUME BytesKept, NEW v \in Lost
    PROVE  v \in erased /\ Present(records, v)
BY DEF BytesKept, Lost, PresentVids, Unregistered, Registries

LEMMA EndReports ==
    ASSUME ReportInv, SequentialInv, SequentialReports, EndCheck
    PROVE  SequentialReports'
<1>1. /\ SetupTypeOK /\ IInv /\ BytesKept /\ NobodyLive /\ ~Up /\ UNCHANGED <<vars, erased>>
      /\ verdict' = "healthy" /\ MissedStaysMissed /\ OnlyIssuedStored /\ artifacts \subseteq Vids
      /\ stage \in 1 .. 9 /\ stage' \in 2 .. 10
  BY ChecksAre, EndCheckType
     DEF ReportInv, SetupInv, StoreInv, OwnInv, EndCheck, SettingUp, Up, TypeOK
<1>2. (stage > 1)' =>
        /\ health'["voiceprint_lifecycle_manager"] = "healthy"
        /\ health'["voiceprint_revision_manager"] = "healthy"
  BY <1>1, ReportsOf, OrderIsFound DEF SequentialReports
<1>3. RegistryMissed' => \E v \in erased : Present(records, v)
  BY <1>1, ReportsOf, LostWereErased
     DEF RegistryMissed, SequentialReports, MissedStaysMissed
<1>4. (stage' > 3 /\ health'["artifact_integrity_validator"] = "degraded")
        => \E v \in Vids : LostGeneration(v)
  <2>1. CASE stage = 3
    <3>1. Findings = "degraded" => Orphaned
      BY <2>1 DEF Findings, SequentialReports
    <3>2. Orphaned => \E v \in Vids : LostGeneration(v)
      BY <1>1 DEF Orphaned, LostGeneration, OnlyIssuedStored, NobodyLive, PreSteps
    <3> QED BY <1>1, <2>1, <3>1, <3>2, ReportsOf
  <2>2. CASE stage # 3
    BY <1>1, <2>2, ReportsOf DEF SequentialReports
  <2> QED BY <2>1, <2>2
<1>5. \A v \in Vids : LostGeneration(v) => LostGeneration(v)'
  BY <1>1 DEF vars, LostGeneration, Present, Live
<1> QED BY <1>1, <1>2, <1>3, <1>4, <1>5 DEF SequentialReports, vars, Present

LEMMA LooksReport ==
    ASSUME ReportInv, SequentialInv, SequentialReports, SetUpStep, ~SetsUp, ~EndCheck
    PROVE  SequentialReports'
<1>1. /\ Looks
      /\ ProbeFails \/ \E v \in Vids : CheckRecord(v) \/ CheckEnvelope(v)
      /\ IInv /\ todo \subseteq PresentVids
  BY SetUpBegins, ProbeLooks, CheckLooks
     DEF SetUpStep, ReportInv, SetupInv, SetupTypeOK, StoreInv, OwnInv
<1>2. stage = 3 => verdict' # "degraded"
  <2>1. ASSUME NEW v \in Vids, CheckEnvelope(v), stage = 3
        PROVE  verdict' # "degraded"
    BY <1>1, <2>1, OrderIsFound DEF CheckEnvelope, Worse, SequentialReports
  <2> QED BY <1>1, <2>1 DEF ProbeFails, CheckRecord, SequentialReports
<1>3. /\ UNCHANGED <<stage, health, erased, records>>
      /\ RegistryMissed' <=> RegistryMissed
      /\ \A v \in Vids : LostGeneration(v) => LostGeneration(v)'
  BY <1>1 DEF Looks, vars, RegistryMissed, LostGeneration, Present, Live
<1> QED BY <1>2, <1>3 DEF SequentialReports, Present

LEMMA ReportsStep ==
    ASSUME ReportInv, SequentialInv, SequentialReports, ReuseIds = FALSE, ManagerMoves = {},
           [SetupNext]_allVars
    PROVE  SequentialReports'
<1>1. SetupInv /\ SetupTypeOK /\ TypeOK /\ OwnInv /\ [Next]_vars /\ erased \subseteq Vids
  BY SetupRunsTheService DEF ReportInv, SetupInv, StoreInv, SetupTypeOK
<1>2. CASE SetUpStep
  <2>1. CASE SetsUp
    BY <2>1 DEF SetsUp, SequentialReports, RegistryMissed
  <2> QED BY <1>2, <2>1, LooksReport, EndReports
<1>3. CASE Operates \/ Serves
  <2>1. UNCHANGED <<stage, verdict, health, loaded, epoch>> /\ erased \subseteq erased'
    BY <1>1, <1>3, GoOnStays, RequestIsTaken DEF Operates, Serves, Serve, setupVars
  <2>2. stage > 1 => loaded
    BY <1>1 DEF SetupTypeOK
  <2>3. \A v \in Vids : stage > 1 =>
            /\ Present(records, v) => Present(records', v)
            /\ LostGeneration(v) => LostGeneration(v)'
    BY <1>1, <2>1, <2>2, RecordStays, LostStaysLost
  <2>4. (RegistryMissed => \E v \in erased : Present(records, v))'
    BY <1>1, <2>1, <2>3 DEF SequentialReports, RegistryMissed
  <2>5. ((stage > 3 /\ health["artifact_integrity_validator"] = "degraded")
            => \E v \in Vids : LostGeneration(v))'
    <3>1. stage > 3 => stage > 1
      BY <1>1 DEF SetupTypeOK
    <3> QED BY <2>1, <2>3, <3>1 DEF SequentialReports
  <2> QED BY <2>1, <2>4, <2>5 DEF SequentialReports
<1>4. CASE TakeDown
  BY <1>4 DEF TakeDown, SequentialReports, RegistryMissed
<1>5. CASE UNCHANGED allVars
  <2>1. UNCHANGED <<stage, verdict, health, erased, records, loaded, epoch, issued, task>>
    BY <1>5 DEF allVars, setupVars, vars
  <2>2. \A v \in Vids : LostGeneration(v) => LostGeneration(v)'
    BY <2>1 DEF LostGeneration, Present, Live
  <2> QED BY <2>1, <2>2 DEF SequentialReports, RegistryMissed, Present
<1> QED BY <1>2, <1>3, <1>4, <1>5 DEF SetupNext, Operates, Serves, GoOn

(***************************************************************************)
(* The theorems.                                                           *)
(***************************************************************************)

LEMMA ReportInit == ASSUME SetupInit PROVE ReportInv
<1>1. MissedStaysMissed
  BY DEF SetupInit, MissedStaysMissed, RegistryMissed
<1> QED BY <1>1, SetupInvInit, StoreInit DEF ReportInv

LEMMA ReportInvStep ==
    ASSUME ReportInv, ReuseIds = FALSE, ManagerMoves = {}, [SetupNext]_allVars
    PROVE  ReportInv'
BY SetupTypeStep, StoreStep, MissedStep DEF ReportInv

\* Set-ups, and the operations beside them, keep what set-up knows well formed: the
\* records a check has still to look at are records, whatever older instances have
\* left running.
THEOREM SetupTypeCorrect == SetupSpec => []SetupTypeOK
<1>1. SetupInit => SetupInv
  BY SetupInvInit
<1>2. SetupInv /\ [SetupNext]_allVars => SetupInv'
  BY SetupTypeStep
<1>3. SetupInv => SetupTypeOK
  BY DEF SetupInv
<1> QED BY <1>1, <1>2, <1>3, PTL DEF SetupSpec

\* A set-up runs the service as it is: what is proved of the service holds of it.
THEOREM SetupRunsTheOperations == SetupSpec => Spec
<1>1. SetupInit => Init
  BY DEF SetupInit
<1>2. [SetupNext]_allVars => [Next]_vars
  BY SetupRunsTheService
<1> QED BY <1>1, <1>2, PTL DEF SetupSpec, Spec

\* What the reports rest on.
THEOREM ReportInvariantHolds ==
    (ReuseIds = FALSE /\ ManagerMoves = {}) => (SetupSpec => []ReportInv)
<1> SUFFICES ASSUME ReuseIds = FALSE, ManagerMoves = {}
             PROVE  SetupSpec => []ReportInv
  OBVIOUS
<1>1. SetupInit => ReportInv
  BY ReportInit
<1>2. ReportInv /\ [SetupNext]_allVars => ReportInv'
  BY ReportInvStep
<1> QED BY <1>1, <1>2, PTL DEF SetupSpec

\* Under every disturbance a registered voiceprint loses its bytes to an erasure and
\* to nothing else, clean-ups that outlive their instance included (persist_artifact,
\* delete_artifact).
THEOREM BytesGoByErasureOnly ==
    (ReuseIds = FALSE /\ ManagerMoves = {}) => (SetupSpec => []OnlyErasureTakesBytes)
<1>1. ReportInv => OnlyErasureTakesBytes
  BY DEF ReportInv, StoreInv, BytesKept, OnlyErasureTakesBytes, Unregistered, Registries
<1> QED BY <1>1, ReportInvariantHolds, PTL

\* What the registry has missed every later check of the set-up misses, too: the
\* reports do not contradict each other (async_setup_entry).
THEOREM ReportsAgree ==
    (ReuseIds = FALSE /\ ManagerMoves = {}) => (SetupSpec => []MissingBytesStayMissing)
<1>1. ReportInv => MissingBytesStayMissing
  BY ChecksAre
     DEF ReportInv, MissedStaysMissed, RegistryMissed, MissingBytesStayMissing, Up
<1> QED BY <1>1, ReportInvariantHolds, PTL

\* The same for operations that run one at a time.
THEOREM SequentialReportsHold ==
    (OneAtATime /\ ReuseIds = FALSE /\ ManagerMoves = {})
        => (SetupSpec => []SequentialSetupInv)
<1> SUFFICES ASSUME OneAtATime, ReuseIds = FALSE, ManagerMoves = {}
             PROVE  SetupSpec => []SequentialSetupInv
  OBVIOUS
<1>1. SetupInit => SequentialSetupInv
  BY ReportInit, SequentialInit
     DEF SetupInit, SequentialSetupInv, SequentialReports, RegistryMissed
<1>2. SequentialSetupInv /\ [SetupNext]_allVars => SequentialSetupInv'
  BY ReportInvStep, SetupRunsTheService, SequentialStep, ReportsStep DEF SequentialSetupInv
<1> QED BY <1>1, <1>2, PTL DEF SetupSpec

\* One at a time, no interruption of an operation costs a later instance its
\* attribution: only an erasure does (_readiness_summary).
THEOREM OnlyErasureEndsAttribution ==
    (OneAtATime /\ ReuseIds = FALSE /\ ManagerMoves = {})
        => (SetupSpec => []AttributionOutlivesInterruptions)
<1>1. SequentialSetupInv => AttributionOutlivesInterruptions
  BY ChecksAre
     DEF SequentialSetupInv, SequentialReports, RegistryMissed, Up, AttributionReadiness,
         Readiness, AttributionOutlivesInterruptions
<1> QED BY <1>1, SequentialReportsHold, PTL

\* One at a time, the validator is degraded by bytes of a lost generation and by
\* nothing else (validate_all).
THEOREM OrphansAreLostGenerations ==
    (OneAtATime /\ ReuseIds = FALSE /\ ManagerMoves = {})
        => (SetupSpec => []DegradedByLostGeneration)
<1>1. SequentialSetupInv => DegradedByLostGeneration
  BY ChecksAre
     DEF SequentialSetupInv, SequentialReports, LostGeneration, Up, DegradedByLostGeneration
<1> QED BY <1>1, SequentialReportsHold, PTL

================================================================================
