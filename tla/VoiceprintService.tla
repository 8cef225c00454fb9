--------------------------- MODULE VoiceprintService ---------------------------
(***************************************************************************)
(* The operations on voiceprints, from the request to the last await:      *)
(* artifact_persistence.py (persist and erase), the delete and supersede   *)
(* operation, and the lifecycle manager's own calls.  Every action is the  *)
(* code of one operation between two awaits.  A request that the code      *)
(* turns down before it has changed anything is not an action.             *)
(***************************************************************************)
EXTENDS VoiceprintStore

CONSTANTS
    ReuseIds,       \* may a caller give a generation id it has used before
    ManagerMoves    \* lifecycle manager calls made beside the service operations

ASSUME ReuseIdsAssumption == ReuseIds \in BOOLEAN

ASSUME ManagerMovesAssumption == ManagerMoves \subseteq {"active", "inactive", "failed"}

FreshIds == IF ReuseIds THEN Vids ELSE Vids \ issued

\* A request becomes an operation on the loaded instance.
CanStart(t) == loaded /\ task[t] = Idle

Operation(op, step, io, v, prev, activate, rec) ==
    [step |-> step, op |-> op, vid |-> v, prev |-> prev, activate |-> activate,
     rec |-> rec, epoch |-> epoch, io |-> io, snap |-> None]

\* The operation as it stands at its next save.
AtSave(t, step) == [task[t] EXCEPT !.step = step]

--------------------------------------------------------------------------------
(***************************************************************************)
(* persist_artifact: prepare a record, save the bytes, register the        *)
(* record, then activate it or let it supersede the current one.           *)
(***************************************************************************)

\* A first enrolment: prepare_initial_record looks at nothing in the registry.
StartEnrol(t, v, s, activate) ==
    /\ CanStart(t)
    /\ v \in FreshIds
    /\ task' = [task EXCEPT ![t] = Operation("persist", "exists", "exists", v, None,
                                             activate, InitialRecord(v, s))]
    /\ issued' = issued \cup {v}
    /\ UNCHANGED <<records, loaded, epoch, disk, unsaved, artifacts>>

\* A re-enrolment on top of the current voiceprint p.
StartReenrol(t, v, p, activate) ==
    /\ CanStart(t)
    /\ v \in FreshIds
    /\ CanPrepareNext(records, p)
    /\ task' = [task EXCEPT ![t] = Operation("persist", "exists", "exists", v, p,
                                             activate, NextRecord(records, p))]
    /\ issued' = issued \cup {v}
    /\ UNCHANGED <<records, loaded, epoch, disk, unsaved, artifacts>>

\* An artifact of that id exists: the save is refused.
RefuseExisting(t) ==
    /\ At(t, "exists", "yes")
    /\ Finish(t)
    /\ UNCHANGED <<records, loaded, epoch, disk, unsaved, artifacts, issued>>

SaveArtifact(t) ==
    /\ At(t, "exists", "no")
    /\ Await(t, "save", "write")
    /\ UNCHANGED <<records, loaded, epoch, disk, unsaved, artifacts, issued>>

SaveFailed(t) ==
    /\ At(t, "save", "no")
    /\ Finish(t)
    /\ UNCHANGED <<records, loaded, epoch, disk, unsaved, artifacts, issued>>

\* register_record, up to its question whether the artifact is there.
StartRegister(t) ==
    /\ At(t, "save", "yes")
    /\ Live(t)
    /\ CanRegister(records, task[t].vid)
    /\ Await(t, "regExists", "exists")
    /\ UNCHANGED <<records, loaded, epoch, disk, unsaved, artifacts, issued>>

\* register_record after the answer.  It does not look again whether the id is
\* still free.
Register(t) ==
    /\ At(t, "regExists", "yes")
    /\ Live(t)
    /\ Commit(t, task[t].vid, task[t].rec, AtSave(t, "regSave"))
    /\ UNCHANGED <<loaded, epoch, disk, artifacts, issued>>
\* Mutant: the bytes are left where they are.
NoCleanUp(t) ==
    /\ \/ At(t, "save", "yes") /\ ~(Live(t) /\ CanRegister(records, task[t].vid))
       \/ At(t, "regExists", "no")
       \/ At(t, "regExists", "yes") /\ ~Live(t)
    /\ Finish(t)
    /\ UNCHANGED <<records, loaded, epoch, disk, unsaved, artifacts, issued>>

\* register_record raised: the bytes just saved are deleted again.
CleanUp(t) ==
    /\ \/ At(t, "save", "yes") /\ ~(Live(t) /\ CanRegister(records, task[t].vid))
       \/ At(t, "regExists", "no")
       \/ At(t, "regExists", "yes") /\ ~Live(t)
    /\ Await(t, "delExists", "exists")
    /\ UNCHANGED <<records, loaded, epoch, disk, unsaved, artifacts, issued>>

\* The record stays PENDING, because the request said so ...
FinishInactive(t) ==
    /\ At(t, "regSave", "yes")
    /\ ~task[t].activate
    /\ Finish(t)
    /\ UNCHANGED <<records, loaded, epoch, disk, unsaved, artifacts, issued>>

\* ... or because the activation that the request asked for is refused.
CanFinishPersist(t) ==
    /\ Live(t)
    /\ IF task[t].prev = None
       THEN CanActivate(records, task[t].vid)
       ELSE CanCoordinate(records, task[t].prev, task[t].vid)
\* Mutant: the clean-up covers the activation too.
CleanUpRefused(t) ==
    /\ At(t, "regSave", "yes")
    /\ task[t].activate
    /\ ~CanFinishPersist(t)
    /\ Await(t, "delExists", "exists")
    /\ UNCHANGED <<records, loaded, epoch, disk, unsaved, artifacts, issued>>

RefuseActivation(t) ==
    /\ At(t, "regSave", "yes")
    /\ task[t].activate
    /\ ~CanFinishPersist(t)
    /\ Finish(t)
    /\ UNCHANGED <<records, loaded, epoch, disk, unsaved, artifacts, issued>>

ActivateNew(t) ==
    LET v == task[t].vid IN
    /\ At(t, "regSave", "yes")
    /\ task[t].activate
    /\ task[t].prev = None
    /\ CanFinishPersist(t)
    /\ Commit(t, v, WithState(records[v], "active"), AtSave(t, "lastSave"))
    /\ UNCHANGED <<loaded, epoch, disk, artifacts, issued>>
\* Mutant: the first write is the last one.
SupersedeHalf(t) ==
    LET v == task[t].vid
        p == task[t].prev
    IN  /\ At(t, "regSave", "yes")
        /\ task[t].activate
        /\ p # None
        /\ CanFinishPersist(t)
        /\ Commit(t, p, SupersededBy(records[p], v), AtSave(t, "lastSave"))
        /\ UNCHANGED <<loaded, epoch, disk, artifacts, issued>>

\* supersede_record, up to its first write: both new records are computed here,
\* and the replacement's waits in the task for the second write.
SupersedeNew(t) ==
    LET v == task[t].vid
        p == task[t].prev
    IN  /\ At(t, "regSave", "yes")
        /\ task[t].activate
        /\ p # None
        /\ CanFinishPersist(t)
        /\ Commit(t, p, SupersededBy(records[p], v),
                  [AtSave(t, "swapSave") EXCEPT !.rec = WithState(records[v], "active")])
        /\ UNCHANGED <<loaded, epoch, disk, artifacts, issued>>

--------------------------------------------------------------------------------
(***************************************************************************)
(* The second write of supersede_record, and the end of an operation.      *)
(***************************************************************************)

CanWriteReplacement(t) == Live(t) /\ CanUpdate(records, task[t].vid, task[t].rec)
\* Mutant: the replacement is written as it was found.
WriteUnchanged(t) ==
    /\ At(t, "swapSave", "yes")
    /\ CanWriteReplacement(t)
    /\ Commit(t, task[t].vid, records[task[t].vid], AtSave(t, "lastSave"))
    /\ UNCHANGED <<loaded, epoch, disk, artifacts, issued>>

WriteReplacement(t) ==
    /\ At(t, "swapSave", "yes")
    /\ CanWriteReplacement(t)
    /\ Commit(t, task[t].vid, task[t].rec, AtSave(t, "lastSave"))
    /\ UNCHANGED <<loaded, epoch, disk, artifacts, issued>>

RefuseReplacement(t) ==
    /\ At(t, "swapSave", "yes")
    /\ ~CanWriteReplacement(t)
    /\ Finish(t)
    /\ UNCHANGED <<records, loaded, epoch, disk, unsaved, artifacts, issued>>

FinishCall(t) ==
    /\ At(t, "lastSave", "yes")
    /\ Finish(t)
    /\ UNCHANGED <<records, loaded, epoch, disk, unsaved, artifacts, issued>>

--------------------------------------------------------------------------------
(***************************************************************************)
(* The operations that start from a registered record.                     *)
(***************************************************************************)

\* supersede_voiceprint: p must be ACTIVE and v must wait to be activated.
StartSupersede(t, p, v) ==
    /\ CanStart(t)
    /\ Active(records, p)
    /\ records[v].state \in {"pending", "inactive"}
    /\ CanCoordinate(records, p, v)
    /\ Commit(t, p, SupersededBy(records[p], v),
              Operation("supersede", "swapSave", "lock", v, p, TRUE,
                        WithState(records[v], "active")))
    /\ UNCHANGED <<loaded, epoch, disk, artifacts, issued>>
\* Mutant: the transition table is not asked.
MoveAnyState(t, op, step, v, state) ==
    /\ CanStart(t)
    /\ Present(records, v)
    /\ Commit(t, v, WithState(records[v], state),
              Operation(op, step, "lock", v, None, FALSE, Absent))
    /\ UNCHANGED <<loaded, epoch, disk, artifacts, issued>>

\* One lifecycle move and one write.
Move(t, op, step, v, state) ==
    /\ CanStart(t)
    /\ CanMove(records[v].state, state)
    /\ Commit(t, v, WithState(records[v], state),
              Operation(op, step, "lock", v, None, FALSE, Absent))
    /\ UNCHANGED <<loaded, epoch, disk, artifacts, issued>>

\* delete_voiceprint retires the record and keeps the bytes.
StartDelete(t, v) == Move(t, "move", "lastSave", v, "deleted")

\* The lifecycle manager's own calls.
ActivateRecord(t, v) ==
    /\ "active" \in ManagerMoves
    /\ ~ActiveConflict(records, v, {})
    /\ Move(t, "move", "lastSave", v, "active")

DeactivateRecord(t, v) ==
    /\ "inactive" \in ManagerMoves
    /\ Move(t, "move", "lastSave", v, "inactive")

MarkFailed(t, v) ==
    /\ "failed" \in ManagerMoves
    /\ Move(t, "move", "lastSave", v, "failed")

\* delete_artifact of the persistence engine: retire the record, then delete the
\* bytes.
StartErase(t, v) == Move(t, "erase", "eraseSave", v, "deleted")

EraseBytes(t) ==
    /\ At(t, "eraseSave", "yes")
    /\ Await(t, "delExists", "exists")
    /\ UNCHANGED <<records, loaded, epoch, disk, unsaved, artifacts, issued>>

\* delete_artifact of the storage provider, for an erase and for a clean-up.
UnlinkBytes(t) ==
    /\ At(t, "delExists", "yes")
    /\ Await(t, "delUnlink", "unlink")
    /\ UNCHANGED <<records, loaded, epoch, disk, unsaved, artifacts, issued>>

FinishUnlink(t) ==
    /\ \/ At(t, "delExists", "no")
       \/ task[t].step = "delUnlink" /\ task[t].io \in Answers
    /\ Finish(t)
    /\ UNCHANGED <<records, loaded, epoch, disk, unsaved, artifacts, issued>>

--------------------------------------------------------------------------------
(***************************************************************************)
(* The orchestrator's wait_for cancels persist_artifact at an await.  No   *)
(* handler of persist_artifact catches the cancellation.                   *)
(***************************************************************************)

Cancellable(t) ==
    /\ "timeout" \in Disturbances
    /\ task[t].op = "persist"
    /\ task[t].step # "abandoned"

\* The call it waited for had not begun, and never will, or had ended.  A snapshot
\* taken for a write that had not begun is lost; the lock is free again.
Timeout(t) ==
    /\ Cancellable(t)
    /\ Finish(t)
    /\ UNCHANGED <<records, loaded, epoch, disk, unsaved, artifacts, issued>>

\* The call is running in its thread, and runs to its end, with the snapshot taken
\* for it if it is a write.  The Store's lock is free again.
TimeoutRunning(t) ==
    /\ Cancellable(t)
    /\ task[t].io \in Waiting
    /\ Await(t, "abandoned", task[t].io)
    /\ UNCHANGED <<records, loaded, epoch, disk, unsaved, artifacts, issued>>

AbandonedEnds(t) ==
    /\ task[t].step = "abandoned"
    /\ task[t].io \in Answers
    /\ Finish(t)
    /\ UNCHANGED <<records, loaded, epoch, disk, unsaved, artifacts, issued>>

--------------------------------------------------------------------------------

\* What an operation in flight does when its await is over.
Resume(t) ==
    \/ RefuseExisting(t)
    \/ SaveArtifact(t)
    \/ SaveFailed(t)
    \/ StartRegister(t)
    \/ Register(t)
    \/ CleanUp(t)
    \/ FinishInactive(t)
    \/ RefuseActivation(t)
    \/ ActivateNew(t)
    \/ SupersedeNew(t)
    \/ WriteReplacement(t)
    \/ RefuseReplacement(t)
    \/ FinishCall(t)
    \/ EraseBytes(t)
    \/ UnlinkBytes(t)
    \/ FinishUnlink(t)
    \/ AbandonedEnds(t)

Request(t) ==
    \/ \E v \in Vids, s \in Subjects, activate \in BOOLEAN : StartEnrol(t, v, s, activate)
    \/ \E v, p \in Vids, activate \in BOOLEAN : StartReenrol(t, v, p, activate)
    \/ \E v, p \in Vids : StartSupersede(t, p, v)
    \/ \E v \in Vids : StartDelete(t, v)
    \/ \E v \in Vids : StartErase(t, v)
    \/ \E v \in Vids : ActivateRecord(t, v)
    \/ \E v \in Vids : DeactivateRecord(t, v)
    \/ \E v \in Vids : MarkFailed(t, v)

Next ==
    \/ \E t \in Tasks : Request(t) \/ Resume(t) \/ Executor(t)
    \/ \E t \in Tasks : Timeout(t) \/ TimeoutRunning(t)
    \/ Load
    \/ Unload
    \/ Crash

Spec == Init /\ [][Next]_vars

\* The event loop resumes a coroutine whose await is over, and the executor runs
\* what it was given.
FairSpec == Spec /\ \A t \in Tasks : WF_vars(Resume(t)) /\ WF_vars(Executor(t))

================================================================================
