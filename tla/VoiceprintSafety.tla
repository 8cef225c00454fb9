---------------------------- MODULE VoiceprintSafety ----------------------------
(***************************************************************************)
(* What the voiceprint operations promise: properties of VoiceprintService *)
(* that relate the registry in memory, the snapshot on disk, the artifact  *)
(* files and the operations in flight.                                     *)
(***************************************************************************)
EXTENDS VoiceprintService

\* The registry snapshots: on disk, waiting for a Store, or in a thread.
Snapshots ==
    ({disk} \cup {unsaved[e] : e \in Epochs} \cup {task[t].snap : t \in Tasks}) \ {None}

\* Every registry value there is: in memory, on disk, or on its way there.
Registries == {records} \cup Snapshots

Everywhere(P(_)) == \A reg \in Registries : P(reg)

--------------------------------------------------------------------------------

\* The lineages of every registry value are trees, however enrolments,
\* re-enrolments, deletions, crashes and restarts interleave: no snapshot is
\* ever written, or loaded, with a record whose parent or successor is missing
\* (voiceprint_registry.py register_record and _persist).
LineageForest == Everywhere(ParentsPresent) /\ Everywhere(SuccessorsPresent)

\* No lineage ever has two active voiceprints, in memory or in a snapshot, also
\* while supersede_record stands between its two writes and other operations run
\* (voiceprint_lifecycle.py _ensure_no_other_active_conflict).
SingleActivePerLineage == Everywhere(OneActivePerLineage)

\* No subject ever has two active voiceprints.  The conflict check of the
\* lifecycle manager asks for this too.
SingleActivePerSubject == Everywhere(OneActivePerSubject)

\* The revisions of every lineage are 1, 2, ... without a repetition: the chain
\* that _validate_records of voiceprint_revision.py accepts.
RevisionsAreUnique ==
    Everywhere(LAMBDA reg : \A r \in Vids : ValidLineage(reg, r))

\* A record that is not DELETED has its artifact file, in memory and in the
\* snapshot that a restart would load, as long as no operation is cancelled and
\* the instance is not replaced under one: then a thread may still hold a snapshot
\* from before an erasure (register_record asks for the artifact before it
\* registers; delete_artifact retires the record before the bytes).
RecordsHaveArtifacts ==
    \A v \in Vids :
        /\ records[v].state \notin {"absent", "deleted"} => v \in artifacts
        /\ disk[v].state \notin {"absent", "deleted"} => v \in artifacts

\* When an operation has been told that its record is saved, a crash at that
\* moment does not take the change back: the snapshot on disk holds the record
\* in the state it was given or in a later one, although other operations write
\* snapshots of their own meanwhile, or wrote it for this one while it waited for
\* the Store's lock (voiceprint_registry.py _persist).  Again no operation is
\* cancelled: the thread of a cancelled one may write an older snapshot.
AckIsDurable ==
    \A t \in Tasks :
        /\ At(t, "regSave", "yes") => disk[task[t].vid].state \in Later("pending")
        /\ At(t, "eraseSave", "yes") => disk[task[t].vid].state = "deleted"
        /\ At(t, "swapSave", "yes") =>
            disk[task[t].prev].state \in Later("superseded")
        /\ At(t, "lastSave", "yes") /\ task[t].op \in {"persist", "supersede"} =>
            disk[task[t].vid].state \in Later("active")

\* A superseded voiceprint whose replacement is still PENDING has an operation
\* in flight that is about to activate the replacement: nobody is left without an
\* active voiceprint by a supersession (voiceprint_lifecycle.py supersede_record).
NoStrandedSuccessor ==
    \A p \in Vids :
        (records[p].state = "superseded" /\ records[records[p].next].state = "pending")
            => \E t \in Tasks :
                /\ Live(t)
                /\ task[t].step = "swapSave"
                /\ task[t].prev = p
                /\ task[t].vid = records[p].next

--------------------------------------------------------------------------------

LifecycleStep(from, to) ==
    \/ to = from
    \/ from = "absent" /\ to = "pending"
    \/ CanMove(from, to)

\* In one instance of the integration a record only moves along the allowed
\* lifecycle transitions, whatever stale copies operations carry across their
\* awaits: a DELETED voiceprint never comes back (voiceprint_lifecycle.py
\* _assert_transition_allowed).
LifecycleIsFollowed ==
    [][(loaded /\ loaded') =>
         \A v \in Vids : LifecycleStep(records[v].state, records'[v].state)]_vars

\* A persist that ends before it has registered its record leaves no bytes
\* behind, unless they were there before it came, and also when the integration
\* was reloaded under it (persist_artifact and its clean-up).
FailedPersistLeavesNothing ==
    [][\A t \in Tasks :
        (/\ task[t].op = "persist"
         /\ task[t].step \in {"save", "regExists", "delExists", "delUnlink"}
         /\ task'[t] = Idle)
            => task[t].vid \notin artifacts']_vars

\* The snapshot on disk never goes back: as long as no operation is cancelled no
\* write takes away a record or a lifecycle move that an earlier write had made
\* durable (voiceprint_registry.py _persist, the Store's lock).
DiskNeverRegresses ==
    [][\A v \in Vids : disk'[v].state \in Later(disk[v].state)]_vars

--------------------------------------------------------------------------------

\* Supersessions are carried to their end: again and again there is a moment when
\* no superseded voiceprint waits for its replacement to be activated, whatever
\* else runs (the second update_record of supersede_record).
SupersessionsSettle ==
    []<>(\A p \in Vids :
            records[p].state = "superseded" => records[records[p].next].state # "pending")

================================================================================
