# A TLA+ model of Voice Identity

Voice Identity is a Home Assistant integration. It keeps *voiceprints* — a
metadata record in a registry and an encrypted artifact in a file — generates
them from enrolment samples, answers who is speaking, and tells a second
integration, the Concierge, about the voiceprints it has. This directory models
the parts of it that keep state or decide something, checks them with TLC and
proves the most important facts with TLAPS. All source paths below are relative
to `custom_components/voice_identity/`.

## The system

Everything runs in one asyncio event loop; file I/O and registry writes run in
executor threads. Code between two awaits is atomic, and everything may happen
between an await and the line after it.

| Component | State it keeps | Operations | Makes it correct |
| --- | --- | --- | --- |
| registry (`voiceprint_registry.py`) | the `_records` dict, a snapshot of it in Home Assistant's `Store` | register, update, load, clear, look-ups, health | records keep their identity; what a caller was told is saved is saved, as long as nothing is cancelled; no snapshot without a record's parent |
| lifecycle manager (`voiceprint_lifecycle.py`) | none of its own | activate, deactivate, fail, delete, supersede | only allowed moves; one active record of a lineage and of a subject |
| revision manager (`voiceprint_revision.py`) | none of its own | prepare an initial or next record, coordinate a supersession | revisions 1, 2, 3 ... along the parents |
| storage provider (`storage_provider.py`) | artifact files | exists, write, unlink, probe | all or nothing |
| persistence engine (`artifact_persistence.py`) | none of its own | persist, erase, load | a record that is not deleted has its bytes; bytes have a record |
| integrity validator (`artifact_integrity.py`) | none | validate one or all | reports on registry and files while they change |
| delete and supersede operation | none of its own | the two requests | as the lifecycle manager |
| generation orchestrator (`generation_orchestrator.py`) | status history and cancel requests per generation id | generate, cancel, clear | every history ends, cancellation and terminal states mean what they say |
| sample validation, quality scoring | none | validate, score | what completes meets the configuration |
| generate operation (`generate_voiceprint_operation.py`) | a second status history | generate, status, clear | agrees with the orchestrator's |
| configuration (`config_flow.py`, `configuration.py`) | data and options of the entry, the loaded configuration | three forms, load, clear | what the forms accept, set-up accepts; a form shows what runs |
| set-up, health engine, telemetry (`__init__.py`, `health.py`, `health_telemetry.py`) | reports computed at set-up | set up, unload, readiness | an interruption costs nobody their attribution |
| Concierge discovery and voice profile metadata | two caches with a time to live | discover, resolve, health, clear | never serve what has long ceased to be so |
| attribution (`attribution_service.py`, `services.py`, `attribution_context_store.py`, `contracts.py`) | short-lived attribution records | attribute a speaker, answer from context | hand-offs within a room are final, evidence fades |
| identity context, diagnostics, repairs, telemetry views | none that changes | pure functions and projections | - |

They interact by calls: the generate operation calls the orchestrator, which
calls validation, scoring, a model provider and the persistence engine, which
calls the revision manager, the storage, the registry and the lifecycle manager;
the Concierge integrations read the registry through the status operation;
attribution reads the registry and the readiness. `__init__.py` builds all of
them, asks each for its health, stores them in `hass.data` and clears them on
unload without waiting for the operations that are still running on them. Every
form the user saves is such a reload.

What is hard: two operations on a lineage whose steps interleave; supersession
as two writes; a record computed before an await and stored after it; crashes,
timeouts and failed writes between two steps; a reload under operations in
flight; calls that share an id; two histories of one generation; a configuration
that is validated in one way and merged in another; reports that are computed
once; two caches on top of each other; records of different age and lifetime in
the attribution context. `PROJECT.json` lists each hazard at its line, the ones
that are known behaviour and have no property with a note.

## The modules

    VoiceprintRecord - VoiceprintLifecycle - VoiceprintRevision
        |- VoiceprintStore - VoiceprintService - VoiceprintSafety - VoiceprintInvariant
        |                                             |                 |- VoiceprintRefinement
        |                                             |- SetupHealth
        |- VoiceprintCatalogue - ConciergeProfile
    GenerationOrchestrator, EntryConfiguration, GenerationGates - GenerateOperation
    SpeakerAttribution

A module extends the one to its left.

* **VoiceprintRecord** is the data: a registry value is a function from ids to
  records, with `Absent` for an id that is not a key. `CanRegister` and
  `CanUpdate` are the guards of `register_record` and `update_record`.
* **VoiceprintLifecycle** has the transition table, the conflict check and the
  guards of the moves, as operators on a registry value. **VoiceprintRevision**
  does the same for record preparation, chain validation and supersession.
* **VoiceprintStore** has the shared state: `records` (the dict of the current
  instance), `disk` (the `.storage` file), `unsaved` (the snapshot that waits
  for the lock of each instance's `Store`), `artifacts` (the files), and `task`
  (each operation in flight: the await at which it stands, the call it waits
  for, the locals that survive the await, and the snapshot that was taken for
  its thread). Its actions are the executor's and the life of the integration:
  `RunExists`, `RunWrite`, `RunUnlink`, `TakeSnapshot`, `RunStore`, the
  failures, `Load`, `Unload`, `Crash`.
* **VoiceprintService** has one action per stretch of code between two awaits:
  `StartEnrol`/`StartReenrol` to `FinishCall` for `persist_artifact`,
  `StartSupersede`, `StartDelete`, `StartErase`, the lifecycle manager's own
  calls, and what `wait_for` does to a persist (`Timeout`, `TimeoutRunning`).
* **VoiceprintSafety** states the properties. **VoiceprintInvariant** has the
  inductive invariants: `IInv` of operations that interleave, `SequentialInv`
  of operations that run one at a time.
* **VoiceprintCatalogue** is the abstract specification of all this: a registry
  without awaits, tasks, snapshots or files that changes one record at a time
  along the lifecycle and has at most one active record in a lineage. While it is
  up (`loaded`) nothing goes back; only `Stop`, which the service takes when the
  process dies, may leave a record as it was earlier.
  **VoiceprintRefinement** says that the service implements it, with
  `catalogue <- IF loaded THEN records ELSE disk`.
* **SetupHealth** makes the set-up a process: `stage` is the check it awaits,
  `todo` the records the check has still to look at, `verdict` the worst it has
  found, `health` the reports so far. Beside it run the operations that the
  unloaded instance left behind, and after it (`Serve`) new ones. The integrity
  validator, the health aggregation and the readiness of attribution are its
  operators.
* **ConciergeProfile** is what the Concierge is told: `resolve` with one action
  for each way it ends, over the profile cache and the discovery cache, while
  the catalogue of VoiceprintCatalogue changes, both caches age and the entry is
  unloaded and set up again, with the service on or off. An unload (or a crash)
  is a `Stop` of the catalogue: what the registry held and the disk does not is
  lost, after a write error the Store kept to itself or a late write of an older
  snapshot, and what a left-behind operation still writes is loaded next.
* **GenerationOrchestrator**: a run is the stage it awaits. `Generate`,
  `Cancel`, `Clear`, `SetUp`, `Timeout`, and per stage passed, failed, cancelled
  or out of order. `EndWith` is `_build_failure`, including the case that the
  history refuses the status and the call raises. A run of an instance that was
  cleared (`own` is false) goes on, without the dicts of the new one.
* **EntryConfiguration**: the data, the options and the loaded configuration,
  the three forms, and the two ways to merge: `Overlay` by section, which the
  forms validate and show, and `DeepMerge` by key, which set-up loads.
* **GenerationGates**: sample validation and quality score as functions of
  request and configuration; scores in ten-thousandths.
* **GenerateOperation** composes these three: the operation's own status
  history and generation ids beside the orchestrator's, the gates as what the
  first two stages decide, and forms that are saved under the calls in flight.
  The orchestrator's actions are used as they are.
* **SpeakerAttribution**: the context store, the verdict of `attribute` and the
  two handlers. Time is counted in 5 s, of which every window in the code is a
  multiple, and relative: a record has an age and a time left.
* **VoiceprintTypeProofs**, **VoiceprintSafetyProofs** and
  **VoiceprintDurabilityProofs** (the service and its catalogue),
  **SetupProofs**, **ConciergeProofs**, **GenerationProofs**,
  **OperationProofs** (the entry, the gates and the composition) and
  **AttributionProofs** hold the theorems.
* `MC*` modules add what only TLC needs (symmetry, forms, requests, candidate
  scopes). An operator whose comment starts with *Mutant* is a wrong version of
  the definition after it; nothing uses it except to show that a property fails
  with it.

### What the models abstract from

* `active` is `lifecycle_state = ACTIVE` (every writer sets both), `supersedes`
  is the parent (both are set once, together), and the artifact id is the
  voiceprint id (`model_execution.py` derives both from one suffix).
* Home Assistant's `Store` is modelled by what `async_save` does: it replaces the
  data that waits, awaits the lock, and under it takes the data (or returns when
  another caller took it) and awaits the thread that replaces the file. `Commit`
  is the part up to the first of these awaits that suspends, `TakeSnapshot` the
  lock, `RunStore` the thread, and the lock is held until its caller goes on. A
  cancelled caller releases it: its thread, if it had begun, goes on with the
  snapshot it was given (`TimeoutRunning`), and if it had not, that snapshot is
  gone (`Timeout`). Threads run in any order, so that an older snapshot may be
  written last.
* In VoiceprintService a set-up is one step after its registry load, because
  nothing uses an instance before set-up ends; SetupHealth has the rest of it.
* Model names, schema versions, timestamps, payloads and failure texts decide
  nothing and are left out; where a version matters (the Concierge's requests)
  it is supported or not. The normalization of text (lower-casing a model's
  name, trimming) is left out. Requests that are refused before they change
  anything are not actions.
* The orchestrator's lock is never held across an await, so it is never
  contended. Its stages are taken to suspend, since providers are Protocols;
  the shipped validation and quality providers do not. A call to an operation
  that was cleared already is left out: the handlers find it in `hass.data`,
  where it no longer is. Saving a form and the unload it causes are one step.
* SetupHealth has the reports that depend on files and records. Those that
  depend on the configuration alone are taken to be HEALTHY, with the service
  and a model backend switched on; the default configuration has no backend
  (`enable_experimental_models` is off), and then the model provider, the two
  generation components and attribution are UNAVAILABLE whatever the files say.
  An artifact's envelope is present or missing: nothing changes one in place.
* Nothing that `resolve` and `discover` await suspends, so a request is one
  step, and so is an attribution handler. The discovery cache's key is constant
  within an instance, so that it has one entry. Ages are in units of time; the
  clock does not go back. `AnswersNeverGoBack` is about one instance: the next one
  may load an earlier catalogue, and its answers go back with it.
* In attribution, readiness, confidence and a failing handler are choices. A
  person has at most one active voiceprint, and callers name persons. `Bindings`
  is what callers give: which conversations, places and rooms belong together.

## What TLC checks

Every property has a mutant of the modelled code that breaks it in its run.

| Run | Question | Instance | Result |
| --- | --- | --- | --- |
| `concurrent` | two operations at once, timeouts, crashes | 2 tasks, 3 ids, 1 subject, 2 set-ups | `LineageForest`, `SingleActivePerLineage` and the refinement `ImplementsCatalogue` hold |
| `reload` | unload and set-up under operations in flight, lost registry writes | 2 tasks, 2 ids, 3 set-ups | `IInv`, `LifecycleIsFollowed`, `FailedPersistLeavesNothing` hold |
| `undisturbed` | two operations at once, none cancelled, storage faults, fair | 2 tasks, 3 ids, 1 set-up | `RecordsHaveArtifacts`, `AckIsDurable`, `DiskNeverRegresses`, `NoStrandedSuccessor`, `SupersessionsSettle` hold |
| `sequential` | one operation at a time, retried ids, manager calls, storage faults, crashes | 1 task, 3 ids, 2 set-ups | `SingleActivePerSubject`, `RevisionsAreUnique`, `ImplementsCatalogue` hold |
| `readiness` | set-up beside an operation left behind, after crashes, timeouts, storage faults; one operation at a time | 1 task, 2 ids, 2 set-ups | interruptions cost no attribution, an erasure costs it for ever: `OnlyErasureTakesBytes`, `AttributionOutlivesInterruptions`, `DegradedByLostGeneration`, `MissingBytesStayMissing`, `ErasureEndsAttribution` hold |
| `concierge` | questions, forced or not, while voiceprints change and each set-up may load an earlier registry | 2 ids, times to live of one unit (profiles) and none (discovery), a cache of one entry | `ReadyWasActive`, `AnswersNeverGoBack`, `SwitchedOffIsSilent`, `ActiveBecomesReady` hold |
| `generation_runs` | two calls share both ids; cancellation, timeouts, unloads, forms | 1 generation id, 1 operation id, 4 forms, 5 requests that tell them apart | all eleven hold |
| `speaker_attribution` | hand-offs and fading; callers name one candidate, a conversation stays in one room | 2 persons, 1 conversation, 1 place, 2 rooms, 3 records | `HandoffIsFinal`, `RetiredSpeakerFades` hold |
| `subject_conflict` | an activation inside a supersession | 2 tasks, 3 ids | `SingleActivePerSubject` fails |
| `reload_loses_update` | an old instance's write after a reload | 2 tasks, 2 ids | `DiskNeverRegresses` fails |
| `reconfigure_ignored` | the reconfigure form after the options form | 2 forms | `ReconfigureTakesEffect` fails |
| `speaker_handoff` | an ambiguous verdict between two speakers | 2 persons, 2 rooms, 3 records | `HandoffIsFinal` fails |

The failing runs are disagreements between the code and what its documents or
docstrings say; `PROJECT.json` quotes both sides. Together with `sequential` and
`concurrent` they draw a line: the single active voiceprint of a subject is
right as long as operations do not overlap and wrong when they do; per lineage,
one active voiceprint is right always; and to somebody who only reads the
registry, even the overlapping operations are a catalogue that changes one
record at a time.

`generation_runs` in words: both histories end (`NoAbandonedHistory`,
`OperationsSettle`), agree when a call had its ids to itself (`StatusesAgree`)
and keep their terminal status (`TerminalIsFinal`); nobody is cancelled by a
request that is older than the run (`NoStaleCancel`); a lone run returns
(`AloneRunsReturn`) and finds the entry it is recorded in, although the
integration may be unloaded under it (`ResultsFindTheirStatus`); forms accept
only what set-up accepts (`AcceptedFormsLoad`) and show what runs
(`FormsShowWhatRuns`); and what completes meets the configuration in effect
(`CompletedMeetTheConfiguration`).

**Known behaviours without a run.** The code does the following, and the
properties say where they stop.

* Two re-enrolments that overlap give two records the same revision, and the next
  set-up reports it, as it reports the two active voiceprints of
  `subject_conflict`. `RevisionsAreUnique` and what `readiness` says of
  interruptions are about operations that run one at a time.
* A persist that is cancelled inside `async_save` leaves a thread with the
  snapshot that was taken for it. The thread may run after another operation's
  save was acknowledged and put the older snapshot over it: the change is gone
  from disk until the next save, and when it was an erasure the disk holds a live
  record without bytes. With `timeout` among the disturbances TLC shows this for
  `AckIsDurable`, `DiskNeverRegresses` and `RecordsHaveArtifacts`; they are
  checked and proved without it. What such a write leaves is still a registry
  with its lineages (`LineageForest`, `SingleActivePerLineage`).
* In a conversation that moves between rooms a hand-off is not seen: with one
  speaker heard in the kitchen and then another in the office, the kitchen still
  resolves to the first (`attribution_context_store.py:89`, `services.py:699`).
  `HandoffIsFinal` is checked and proved for conversations that stay in one room.
* Two generations that share an id at the same time can move one record twice;
  the runs with several operations and the proofs assume fresh ids.
* A cancellation after the last stage's check is answered `True` and not obeyed.
* When the task of `generate_voiceprint`'s caller is cancelled, `CancelledError`
  passes every handler of the orchestrator and the operation, and both histories
  stay at the stage they had reached. No model cancels a caller.

**Bounds.** Three ids make the shortest lineage in which a re-enrolment can
start from a record that is no longer the latest, and let two re-enrolments
compete for one parent; two tasks make every race between two operations, and a
cancelled save, its late thread and the save it undoes need no third. One subject
is enough where nothing is said of subjects, and gives every activation its
conflicts. `MaxEpoch` bounds set-ups: with 2 there is a restart (or reload), with
3 one after the other. `sequential` has `crash` without registry write faults,
`reload` has those; `undisturbed` stops neither the process nor an operation,
because each of them strands a successor, and the proofs allow it crashes where
the property does. `readiness` has one
operation that outlives its instance beside the set-up of the next, and two ids
make a lineage of two or two lineages. A cache of one entry makes every second
voiceprint an eviction, and with a time to live of one unit a profile is fresh,
old enough to matter, and too old; a discovery is too old after one unit, so that
its cache and the profile cache expire apart. In `generation_runs` the slot of a call that
is over is used again: the instance has no bound on calls one after the other,
only two at the same time, which is one that is superseded and one that
supersedes it; three of the four forms are accepted. Larger instances of it take
longer than a run should, and the proofs cover any number of ids and calls.
Three attribution records are a speaker, what is heard in between and the next
speaker. `MaxIssued` and `MaxEpoch` are guards and nothing else depends on them.
`CHECK_DEADLOCK FALSE` everywhere: a service without requests, or with its ids
used up, rests.

**Fairness.** `FairSpec` of VoiceprintService gives weak fairness to resuming an
operation whose await is over (the event loop runs ready coroutines) and to the
executor (a thread pool runs what it was given). `FairSetupSpec` says that the
executor answers set-up. `FairOperationSpec` says that a provider answers or the
request's timeout runs out; a request without a timeout relies on its providers.
`FairProfileSpec` says that time passes and that the Concierge keeps asking,
which is what the property is about. None is given to requests, forms, reloads,
crashes, cancellations or faults.

## What is proved

Every safety property of a passing run is also a theorem, and so are its action
properties and the refinement of the catalogue. Each invariant was model-checked
before it was proved. Nothing below depends on how many ids, subjects, tasks,
calls, forms, persons or requests there are, nor on the sizes and times to live
of the caches. What a theorem needs beside that is one of its hypotheses:

| Module | Theorems | Hypotheses |
| --- | --- | --- |
| `VoiceprintTypeProofs` | `TypeCorrect` | none |
| `VoiceprintSafetyProofs` | `InvariantHolds`, `LineagesAreForests`, `OneActiveVoiceprintPerLineage`, `LifecycleHolds` | fresh ids, service operations only; every disturbance |
| | `SequentialInvariantHolds`, `OneActiveVoiceprintPerSubject`, `RevisionsStayUnique` | one operation at a time; ids may be repeated, every manager call, every disturbance |
| `VoiceprintDurabilityProofs` | `BytesHaveOneOwner` | fresh ids, service operations only; every disturbance |
| | `OperationsImplementCatalogue` | the same, no reloads |
| | `DiskOnlyAdvances` | the same, no reloads and timeouts |
| | `AcknowledgedIsDurable`, `RegisteredHaveArtifacts` | the same, no reloads, timeouts and lost registry writes |
| | `SuccessorsAreAwaited` | the same, no reloads, crashes and timeouts |
| | `FailedPersistIsClean` | the same, no crashes, timeouts and storage faults |
| `SetupProofs` | `SetupTypeCorrect`, `SetupRunsTheOperations` | none |
| | `ReportInvariantHolds`, `BytesGoByErasureOnly`, `ReportsAgree` | fresh ids, service operations only; every disturbance |
| | `SequentialReportsHold`, `OnlyErasureEndsAttribution`, `OrphansAreLostGenerations` | the same, one operation at a time |
| `ConciergeProofs` | `ProfileInvariantHolds`, `ProfileTypeCorrect`, `ReadyMeansRecentlyActive`, `SilentWhenSwitchedOff`, `ToldOnlyOnward`, `ConciergeReadsTheCatalogue` | none |
| `GenerationProofs`, `OperationProofs` | see below | none |
| `AttributionProofs` | `AttributionTypeCorrect`, `SpeakersFade` | none |
| | `HandoffsAreFinal` | callers name one candidate, and no conversation is put into two rooms |

"Fresh ids" is `ReuseIds = FALSE` (callers do not repeat a generation id),
"service operations only" is `ManagerMoves = {}` (nobody calls the lifecycle
manager beside them), "one at a time" is `OneAtATime` (there is one task; what an
unloaded instance has left in flight is that task too). The hypotheses are there
because the code needs them: `subject_conflict` is what happens to
`SingleActivePerSubject` with two operations, `reload_loses_update` to
`DiskNeverRegresses` with reloads, the late thread of a cancelled save what
happens to it with timeouts, `speaker_handoff` to `HandoffIsFinal` with
scopes that name more than one; two operations with the same generation id move
a record that is no longer PENDING; a crash strands a successor and leaves the
bytes of a persist. No operation of the integration calls `mark_failed` or
`deactivate_record`, so that `ManagerMoves = {}` asks for less than it seems.

The assumptions on constants: a Python `None` is not an id, not a registry and
not an attribution record (`NoneAssumption`, `SnapshotAssumption`,
`NoneIsNothing`, `NoneIsNoRecord`, `OpsAssumption`); sizes and times are numbers
and a cache holds something; disturbances, manager moves, withdrawals and bands
are among the ones the code knows; every form has every section
(`EntryAssumption`) and every request is one (`RequestAssumption`). TLC evaluates
all of them on the runs.

**The service.** Why `IInv` needs its parts. The three properties speak of
`records`, `disk` and the snapshots under way, so `GoodRegistries` says
everything of all three: a load then copies a good value and a write stores one.
A registration keeps the forest because the record *fits* when it is assigned:
`BeforeRegister` carries this across the awaits, which works because records are
never removed and never change identity, and needs that no other operation owns
the id (`OnlyIssued`, and the ids of tasks before registration are distinct).
The second write of a supersession stores a record computed before an await;
`Window` says why this is harmless — the replacement is still PENDING, because
the only moves out of PENDING are an activation, which the guards of the
supersession exclude since its parent is no longer active, and a failure, which
`ManagerMoves = {}` excludes. That no *other* record of the lineage becomes
active in the window rests on `RootsMoveFirst` (a root that is PENDING has no
active descendants, so a root cannot be activated late) and on two windows
never being open in one lineage. `EpochsAgree` says that an operation of an old
instance cannot become one of a new instance.

**Its bytes.** `OwnInv` adds who may delete a file. `CallsMatch` ties the call
an operation waits for to the step it is at; `BytesOwned` says that the unlink
of a clean-up is for an id that has no record anywhere and that no other
operation is about to register, and an erasure's for an id that no persist
carries. This survives every disturbance, reloads and cancellations included.

**What lasts.** Without reloads, `InStep` relates all the copies of the registry:
operations run on the loaded instance, the snapshot that waits for the Store's
lock is the registry as it is, and each record on disk or in a thread, a
cancelled one's included, is an *earlier* form of the one in memory
(`Catalogue!Earlier`). From this follows the crash step of the refinement, which
is the only step of the service that changes more than one record of the
catalogue and maps to `Stop`. `StepKinds` classifies the others once, for all
the theorems: an enrolment begins, an operation passes a point without a write,
it writes one record (`Enters`, `Promotes`, `HandsOver`, `Retires`), the executor
works, the instance begins or ends. Without timeouts too, `LockInv` says that one
caller is past the lock at most (`OneHolder`) and that what it is about to write
is ahead of the disk, so that `DiskNeverRegresses` holds. `Settled` (what nobody
has still to write is on disk) needs that the Store does not swallow write
errors; with it `AckInv` carries what an operation wrote from memory to the disk
at the moment it is answered, and `ErasedEverywhere` says that bytes go after the
record is DELETED in every copy, which is why `RecordsHaveArtifacts` holds of
memory and disk. `NoStrandedSuccessor` needs `FirstStart`, that the only set-up
is on an empty Store: otherwise it would take over what a stopped instance had
stranded.

**One at a time.** `SequentialInv` is about chains instead of windows: what
`persist_artifact` prepared before its awaits would still be the last of its
chain (`StillAppends`), and between the two writes of a supersession the subject
has no other active record (`StillAlone`). An abandoned task of an older
instance is not `Live` and writes to a cleared registry or to its own snapshot,
so these are only asked of live ones.

**Set-up.** `NobodyLive`: while an instance is set up, whatever is in flight
belongs to an older one. `BytesKept` is what makes the reports stable: an id
that was ever registered has its bytes or somebody asked to erase it, so what a
check misses (`MissedStaysMissed`) cannot come back, for the late write of a
cancelled persist is of an id without a record (`LateWritesAreOrphans`).
`SequentialReports` adds what the two managers and the validator report, from
`SequentialInv`. `SetupRunsTheOperations` is the refinement by which everything
proved of the service holds here.

**The Concierge.** `EntriesAreTruthful` relates a cached profile to three things
at once: its age to how long ago its voiceprint was active, its state to what
the catalogue says (never more), and to what this instance has told already
(never less). Answers from the cache and answers from the catalogue are then
both in order, and it is preserved because in a catalogue that is up a
voiceprint only moves on (`LivesForward`, which is where the withdrawals without
"inactive" come in). An unload may take records back, and then nothing of the
instance is left that could contradict them: `CachesMatchSettings` says that no
cache outlives its instance, so a profile is only ever served by an instance
that is switched on and has read the catalogue itself. `ReadyMeansRecentlyActive`
holds across unloads all the same.

**The runs of the orchestrator.** `RunsKeepTheirInvariant` and from it
`OrchestratorTypeCorrect`, `HistoriesAreEnded`, `NoRunIsCancelledByAnOldRequest`,
`LoneRunsReturn`, `TerminalStatusStays`. A history that is not ended has a run
that owns it, and the difficulty is who that is when an id is shared:
`RequestsAreFresh` says that a run only sees requests made since it began
(`Generate` drops older ones), and `AloneIsAlone` with `AloneInStep` that the
history of a run which is alone stands at its stage, so that no transition of it
can be refused.

**The operation over it.** `FormsLoad` and `FormsAreTrue`: by the assumption that
every form has every section with all its keys (`_normalize_form_data` fills them
in), a form that is laid over another replaces it under both ways to merge; so
data and options are each a valid form, and the configuration is the options once
there are any. The same lemma is why a reconfigure form is then ignored.
`QualityFloor`: a request that passes validation scores at least 0.825 whatever
the configuration, so that the quality stage only decides anything when the user
sets a threshold above that. `OperationRunsTheOrchestrator` and
`OperationKeepsTheEntry`: every step of the operation is a step of the
orchestrator and of the entry or stutters there, so that everything above holds
under it; and then what relates their states, `OperationTypeCorrect`,
`LookUpsAgree`, `ResultsAreRecorded`, `CompletedMeet`. A call's request was
validated under the configuration that is still loaded, because every change of
it clears the instance and a run of a cleared instance cannot complete.

**Attribution.** `EvidenceRunsOut`: how long a person is retired and how long a
record of that person has left never exceed the longest time to live together,
because a verdict only names active persons and no record is prolonged.
`OnlyTheLastSpeaker`: all that is left of a conversation is evidence of whom it
heard last; a verdict that names another finds the earlier one
(`LeftOfConversation`), and this is where `OneCandidate` comes in: a second room
or an ambiguous verdict hides the earlier record from `resolve_current_speaker`.
`LargestOf` (bounded numbers have a largest, from the well-foundedness of `<`)
is what makes `Latest` one of the records.

**Only model-checked.** The prover does not do liveness, so `SupersessionsSettle`,
`OperationsSettle`, `ErasureEndsAttribution` and `ActiveBecomesReady` stay with
TLC. So does `ImplementsCatalogue` for repeated ids and manager calls, which
`sequential` checks for operations one at a time and `OperationsImplementCatalogue`
does not cover.

## What is not modelled

* Diagnostics, repairs, the identity context generator and the telemetry views:
  projections and static tables, sanitised; they change no state and decide
  nothing another component reads. The same of the read-only service handlers
  and of the status operation's `execute`.
* The contract scaffolds: Protocols and placeholders without behaviour.
* The model backends: placeholders for a model; any answer is possible.
* Of the configuration, the ranges of the service, storage and cleanup sections
  (no check relates them to anything) and the migration of old schemas; of the
  set-up, one that the configuration makes fail, and the reports that depend on
  the configuration alone.
* Parsing of identifiers and the wording of failures.

## Plan

Done: the voiceprint operations on registry, disk and files, their catalogue and
its refinement; set-up and readiness; the generate operation over the
orchestrator, the gates and the configuration; the Concierge's caches; the
attribution context; and the proofs of every safety and action property of the
passing runs. Left, in order of importance:

1. The refinement of the catalogue one at a time, with repeated ids and the
   manager's calls, from `SequentialInv`.
2. The orchestrator's persist stage composed with VoiceprintService: what a
   timed-out or cancelled generation leaves behind. Today each side has it by
   itself, the orchestrator as a stage that is cut off and the service as the
   `timeout` disturbance.
3. What a cancelled save can take back, as a bound instead of a refusal: how old
   the snapshot on disk can be.
