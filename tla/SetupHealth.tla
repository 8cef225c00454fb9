------------------------------- MODULE SetupHealth -------------------------------
(***************************************************************************)
(* async_setup_entry as a process.  Set-up reads the registry, asks every  *)
(* component for its health, one after the other, and only then lets       *)
(* requests in; the reports stay what they are until the next set-up.      *)
(* While it looks for artifact files it awaits the executor once a record, *)
(* and operations that the unloaded instance left behind still write and   *)
(* delete files.                                                           *)
(*                                                                         *)
(* The reports that depend on the configuration alone (sample validation,  *)
(* quality scoring, model provider, capabilities, Concierge) are left out: *)
(* the instance has a configuration under which they are HEALTHY, with the *)
(* service and its model backend switched on.  Without the backend the     *)
(* model provider is UNAVAILABLE, and with it the two generation           *)
(* components and attribution, whatever the files say.  list_records sorts *)
(* by id; here a check may take the records in any order.                  *)
(***************************************************************************)
EXTENDS VoiceprintSafety, Sequences

VARIABLES
    stage,      \* index of the check that set-up awaits
    todo,       \* records the check has still to look at
    verdict,    \* the worst it has found so far
    health,     \* the component reports of the health engine
    erased      \* history: ids that delete_artifact was ever asked to erase

setupVars == <<stage, todo, verdict, health>>

allVars == <<vars, setupVars, erased>>

HealthStates == {"healthy", "degraded", "unavailable"}

Components ==
    {"storage_provider", "voiceprint_registry", "voiceprint_lifecycle_manager",
     "voiceprint_revision_manager", "artifact_persistence_engine",
     "artifact_integrity_validator", "generation_orchestrator",
     "generate_voiceprint_operation", "get_voiceprint_status_operation",
     "delete_supersede_voiceprint_operation"}

\* The checks that await the executor, in the order of async_setup_entry.  Of
\* "records" the registry asks whether the file is there, of "envelopes" the
\* integrity validator reads it.  The orchestrator repeats what the persistence
\* engine and the validator do, and the generate operation repeats all of that.
Checks ==
    <<[of |-> "voiceprint_registry",                   reads |-> "records"],
      [of |-> "artifact_persistence_engine",           reads |-> "records"],
      [of |-> "artifact_integrity_validator",          reads |-> "envelopes"],
      [of |-> "generation_orchestrator",               reads |-> "records"],
      [of |-> "generation_orchestrator",               reads |-> "envelopes"],
      [of |-> "generate_voiceprint_operation",         reads |-> "records"],
      [of |-> "generate_voiceprint_operation",         reads |-> "envelopes"],
      [of |-> "get_voiceprint_status_operation",       reads |-> "records"],
      [of |-> "delete_supersede_voiceprint_operation", reads |-> "records"]>>

Served == Len(Checks) + 1

SettingUp == stage \in DOMAIN Checks

Up == stage = Served

PresentVids == {v \in Vids : Present(records, v)}

NoReports == [c \in Components |-> "unavailable"]

SetupInit ==
    /\ Init
    /\ stage = 0
    /\ todo = {}
    /\ verdict = "healthy"
    /\ health = NoReports
    /\ erased = {}

--------------------------------------------------------------------------------
(***************************************************************************)
(* What the reports are put together to.                                   *)
(***************************************************************************)

\* _aggregate_state, where every component is required.
Aggregate ==
    IF \E c \in Components : health[c] = "unavailable" THEN "unavailable"
    ELSE IF \E c \in Components : health[c] = "degraded" THEN "degraded"
    ELSE "healthy"

\* _readiness_state
Readiness(dependencies) ==
    IF \E c \in dependencies : health[c] = "unavailable" THEN "unavailable"
    ELSE IF \E c \in dependencies : health[c] = "degraded" THEN "degraded"
    ELSE "ready"

\* Mutant: attribution waits for every component.
ReadinessOfAll == Readiness(Components)

\* attribution_readiness: anything but "ready" makes every attribution unavailable.
AttributionReadiness ==
    Readiness({"voiceprint_registry", "voiceprint_lifecycle_manager",
               "voiceprint_revision_manager"})

\* _result_from_findings
Worse(a, b) ==
    IF "unavailable" \in {a, b} THEN "unavailable"
    ELSE IF "degraded" \in {a, b} THEN "degraded"
    ELSE "healthy"

--------------------------------------------------------------------------------
(***************************************************************************)
(* Set-up.                                                                 *)
(***************************************************************************)

\* validate_health of the lifecycle and of the revision manager.
SingleActive == OneActivePerLineage(records) /\ OneActivePerSubject(records)

ChainsValid == \A r \in Vids : ValidLineage(records, r)

\* The storage probe, and then VoiceprintRegistry.create.
BeginSetUp ==
    /\ Load
    /\ stage' = 1
    /\ todo' = {v \in Vids : Present(records', v)}
    /\ verdict' = "healthy"
    /\ health' = [NoReports EXCEPT !["storage_provider"] = "healthy"]
    /\ UNCHANGED erased

\* The same, with a storage directory that cannot be written.  The set-up goes on.
BeginSetUpUnwritable ==
    /\ "storageFault" \in Disturbances
    /\ Load
    /\ stage' = 1
    /\ todo' = {v \in Vids : Present(records', v)}
    /\ verdict' = "healthy"
    /\ health' = NoReports
    /\ UNCHANGED erased

\* The persistence engine probes the storage first, whoever asks it, and looks no
\* further when the probe fails.
ProbeFails ==
    /\ "storageFault" \in Disturbances
    /\ SettingUp
    /\ Checks[stage].of \in {"artifact_persistence_engine", "generation_orchestrator",
                             "generate_voiceprint_operation"}
    /\ Checks[stage].reads = "records"
    /\ todo = PresentVids
    /\ verdict = "healthy"
    /\ todo' = {}
    /\ verdict' = "unavailable"
    /\ UNCHANGED <<vars, stage, health, erased>>
\* Mutant: the bytes of deleted records are not asked for.
CheckLiveRecord(v) ==
    /\ SettingUp
    /\ Checks[stage].reads = "records"
    /\ v \in todo
    /\ IF v \in artifacts \/ records[v].state = "deleted"
       THEN todo' = todo \ {v} /\ UNCHANGED verdict
       ELSE todo' = {} /\ verdict' = "unavailable"
    /\ UNCHANGED <<vars, stage, health, erased>>

\* validate_health of the registry asks for one record's file, and stops at the
\* first that is missing.
CheckRecord(v) ==
    /\ SettingUp
    /\ Checks[stage].reads = "records"
    /\ v \in todo
    /\ IF v \in artifacts
       THEN todo' = todo \ {v} /\ UNCHANGED verdict
       ELSE todo' = {} /\ verdict' = "unavailable"
    /\ UNCHANGED <<vars, stage, health, erased>>

\* validate_voiceprint of the integrity validator reads one record's file and
\* validates the revisions of its lineage.
CheckEnvelope(v) ==
    LET found == IF v \notin artifacts THEN "unavailable"
                 ELSE IF ~ValidLineage(records, records[v].root) THEN "degraded"
                 ELSE "healthy"
    IN  /\ SettingUp
        /\ Checks[stage].reads = "envelopes"
        /\ v \in todo
        /\ verdict' = Worse(verdict, found)
        /\ todo' = todo \ {v}
        /\ UNCHANGED <<vars, stage, health, erased>>
\* Mutant: only active records own their artifact.
OrphanedIfRetired == \E v \in artifacts : ~Active(records, v)

\* validate_all lists the stored artifacts last: one that no record names.
Orphaned == \E v \in artifacts : ~Present(records, v)

Findings ==
    IF Checks[stage].reads = "envelopes" /\ Orphaned THEN Worse(verdict, "degraded")
    ELSE verdict

PersistenceReport(found) ==
    IF found = "healthy" /\ SingleActive /\ ChainsValid THEN "healthy" ELSE "unavailable"

\* The orchestrator takes the persistence engine's report, and then the
\* validator's, as good or as bad: an orphan is enough to make it unavailable.
OrchestratorReport(found) ==
    IF Checks[stage].reads = "records" THEN PersistenceReport(found)
    ELSE IF found = "healthy" THEN "healthy" ELSE "unavailable"

StatusReport(found) ==
    IF found # "healthy" THEN "unavailable"
    ELSE IF SingleActive /\ ChainsValid THEN "healthy" ELSE "degraded"
\* Mutant: only the managers are asked.
ReportOfManagers(found) ==
    IF SingleActive /\ ChainsValid THEN "healthy" ELSE "unavailable"

DeleteSupersedeReport(found) ==
    IF SingleActive /\ ChainsValid /\ found = "healthy" THEN "healthy" ELSE "unavailable"

\* The component's report from what its check has found.
Report(component, found) ==
    CASE component = "artifact_persistence_engine"           -> PersistenceReport(found)
      [] component = "generation_orchestrator"               -> OrchestratorReport(found)
      [] component = "generate_voiceprint_operation"         -> OrchestratorReport(found)
      [] component = "get_voiceprint_status_operation"       -> StatusReport(found)
      [] component = "delete_supersede_voiceprint_operation" -> DeleteSupersedeReport(found)
      [] OTHER                                               -> found

\* Mutant: the next check is skipped, whosever it is.
EndCheckAndSkip ==
    LET report == Report(Checks[stage].of, Findings) IN
    /\ SettingUp
    /\ todo = {}
    /\ stage' = IF report # "healthy" THEN stage + 2 ELSE stage + 1
    /\ todo' = IF stage = Len(Checks) THEN {} ELSE PresentVids
    /\ verdict' = "healthy"
    /\ health' = [health EXCEPT ![Checks[stage].of] = report]
    /\ UNCHANGED <<vars, erased>>

\* The check is over: the next component, or the rest of this one when it has
\* passed so far.  After the registry the two managers report without awaiting.
EndCheck ==
    LET component == Checks[stage].of
        report == Report(component, Findings)
        again == stage < Len(Checks) /\ Checks[stage + 1].of = component
    IN  /\ SettingUp
        /\ todo = {}
        /\ stage' = IF again /\ report # "healthy" THEN stage + 2 ELSE stage + 1
        /\ todo' = IF stage = Len(Checks) THEN {} ELSE PresentVids
        /\ verdict' = "healthy"
        /\ health' =
            [health EXCEPT
                ![component] = report,
                !["voiceprint_lifecycle_manager"] =
                    IF stage > 1 THEN @
                    ELSE IF SingleActive THEN "healthy" ELSE "unavailable",
                !["voiceprint_revision_manager"] =
                    IF stage > 1 THEN @
                    ELSE IF ChainsValid THEN "healthy" ELSE "unavailable"]
        /\ UNCHANGED <<vars, erased>>

SetUpStep ==
    \/ BeginSetUp
    \/ BeginSetUpUnwritable
    \/ ProbeFails
    \/ \E v \in Vids : CheckRecord(v) \/ CheckEnvelope(v)
    \/ EndCheck

--------------------------------------------------------------------------------

\* The services find the instance in hass.data, where the end of set-up puts it.
Serve(t) ==
    /\ Up
    /\ Request(t)
    /\ erased' = IF task'[t].op = "erase" THEN erased \cup {task'[t].vid} ELSE erased
    /\ UNCHANGED setupVars

GoOn(t) ==
    /\ Resume(t) \/ Executor(t) \/ Timeout(t) \/ TimeoutRunning(t)
    /\ UNCHANGED <<setupVars, erased>>

\* Home Assistant unloads an entry only when its set-up has ended.
TakeDown ==
    /\ \/ Up /\ Unload
       \/ Crash
    /\ stage' = 0
    /\ todo' = {}
    /\ verdict' = "healthy"
    /\ health' = NoReports
    /\ UNCHANGED erased

SetupNext ==
    \/ SetUpStep
    \/ \E t \in Tasks : Serve(t) \/ GoOn(t)
    \/ TakeDown

SetupSpec == SetupInit /\ [][SetupNext]_allVars

\* The executor answers set-up, too.
FairSetupSpec == SetupSpec /\ WF_allVars(SettingUp /\ SetUpStep)

--------------------------------------------------------------------------------

SetupTypeOK ==
    /\ stage \in 0 .. Served
    /\ todo \subseteq PresentVids
    /\ verdict \in HealthStates
    /\ health \in [Components -> HealthStates]
    /\ erased \subseteq Vids
    /\ loaded <=> stage # 0

\* Whatever interrupts the operations, a timeout, a crash or an unload that leaves
\* them behind, no registered voiceprint of the running instance loses its bytes
\* unless somebody asked to erase it (persist_artifact's clean-up deletes bytes
\* too, and runs on the instance it was called on).
OnlyErasureTakesBytes ==
    \A v \in Vids : (Present(records, v) /\ v \notin artifacts) => v \in erased

\* When operations run one at a time, the one that an unload or a timeout left
\* behind beside the set-up included, attribution is lost at a set-up because of an
\* erasure and of nothing else: interrupted generations, supersessions and deletions
\* leave the registry, lifecycle and revision reports healthy (_readiness_summary,
\* VoiceprintRegistry.validate_health).  Two enrolments, or re-enrolments, that
\* overlap may cost it too.
AttributionOutlivesInterruptions ==
    (Up /\ AttributionReadiness # "ready") => \E v \in erased : Present(records, v)

\* When operations run one at a time the integrity validator only degrades because
\* of a generation that never became a record of this instance: retired, superseded
\* and pending voiceprints are not orphans, however their operations ended, and no
\* chain has a revision twice, as overlapping re-enrolments may leave it
\* (validate_all).
DegradedByLostGeneration ==
    (Up /\ health["artifact_integrity_validator"] = "degraded")
        => \E v \in issued : ~Present(records, v)

\* The reports of one set-up do not contradict each other: when the registry missed
\* a file, nothing that runs beside the set-up brings it back, and every report
\* that looks at the files again says so too.
MissingBytesStayMissing ==
    (Up /\ health["voiceprint_registry"] = "unavailable") =>
        \A c \in {Checks[i].of : i \in DOMAIN Checks} : health[c] = "unavailable"

\* A set-up that begins with a record whose bytes are gone, a DELETED one included,
\* ends with attribution unavailable: erasing a voiceprint costs every later
\* instance its attribution (VoiceprintRegistry.validate_health asks for the
\* artifact of every record).
ErasureEndsAttribution ==
    (stage = 1 /\ todo = PresentVids /\ \E v \in PresentVids : v \notin artifacts)
        ~> (stage = 0 \/ (Up /\ AttributionReadiness = "unavailable"))

================================================================================
