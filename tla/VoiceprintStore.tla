---------------------------- MODULE VoiceprintStore ----------------------------
(***************************************************************************)
(* The state the voiceprint operations share, and everything that happens  *)
(* to it between two steps of an operation: the executor threads that do   *)
(* the file I/O, Home Assistant's Store writing a registry snapshot, and   *)
(* the integration being loaded, unloaded and killed.                      *)
(*                                                                         *)
(* One asyncio event loop runs every operation, so the code between two    *)
(* awaits is atomic and an operation is a record in `task` that says at    *)
(* which await it stands.  While it waits, `io` names the call it waits    *)
(* for; the executor answers "yes" or "no" there, and the operation's next *)
(* step takes the answer.                                                  *)
(*                                                                         *)
(* Home Assistant's Store keeps the newest snapshot handed to it until a   *)
(* caller of async_save holds its lock; that caller takes the snapshot     *)
(* along into the thread that writes it.  Callers that come meanwhile wait *)
(* for the lock.                                                           *)
(***************************************************************************)
EXTENDS VoiceprintRevision

CONSTANTS
    Tasks,          \* operations that may be in flight together
    Disturbances,   \* what may go wrong around them
    MaxEpoch        \* bound: how often the integration is set up

ASSUME DisturbancesAssumption ==
    Disturbances \subseteq {"reload", "crash", "timeout", "writeFault", "storageFault"}

ASSUME MaxEpochAssumption == MaxEpoch \in Nat

VARIABLES
    records,    \* VoiceprintRegistry._records of the current instance
    loaded,     \* the managers' _loaded flags, which are set and cleared together
    epoch,      \* which instance of the integration is the current one
    disk,       \* the registry snapshot in .storage
    unsaved,    \* per instance, the snapshot that waits for its Store's lock
    artifacts,  \* ids that have an artifact file
    issued,     \* ids that a generation has been given
    task        \* the operations in flight

vars == <<records, loaded, epoch, disk, unsaved, artifacts, issued, task>>

Epochs == 0 .. MaxEpoch

\* The calls that run in a thread.
Waiting == {"exists", "write", "store", "unlink"}

Answers == {"yes", "no"}

Steps == {"idle", "exists", "save", "regExists", "regSave", "swapSave", "lastSave",
          "eraseSave", "delExists", "delUnlink", "abandoned"}

\* The steps at which an operation is in async_save.
SaveSteps == {"regSave", "swapSave", "lastSave", "eraseSave"}

Operations == {"none", "persist", "supersede", "move", "erase"}

Task ==
    [step     : Steps,
     op       : Operations,
     vid      : Vids \cup {None},   \* the voiceprint it creates or changes
     prev     : Vids \cup {None},   \* current_voiceprint_id
     activate : BOOLEAN,
     rec      : Record,             \* a record computed before an await
     epoch    : Epochs,             \* the instance it was called on
     io       : Waiting \cup Answers \cup {"lock", "none"},
     snap     : Registry \cup {None}]   \* the snapshot its thread is to write

Idle ==
    [step |-> "idle", op |-> "none", vid |-> None, prev |-> None, activate |-> FALSE,
     rec |-> Absent, epoch |-> 0, io |-> "none", snap |-> None]

TypeOK ==
    /\ records \in Registry
    /\ loaded \in BOOLEAN
    /\ epoch \in Epochs
    /\ disk \in Registry
    /\ unsaved \in [Epochs -> Registry \cup {None}]
    /\ artifacts \subseteq Vids
    /\ issued \subseteq Vids
    /\ task \in [Tasks -> Task]
    /\ \A t \in Tasks :
        /\ task[t] # Idle => task[t].step # "idle" /\ task[t].vid \in Vids
        /\ task[t].io = "store" <=> task[t].snap # None

Init ==
    /\ records = EmptyRegistry
    /\ loaded = FALSE
    /\ epoch = 0
    /\ disk = EmptyRegistry
    /\ unsaved = [e \in Epochs |-> None]
    /\ artifacts = {}
    /\ issued = {}
    /\ task = [t \in Tasks |-> Idle]

--------------------------------------------------------------------------------
(***************************************************************************)
(* Steps shared by the operations.                                         *)
(***************************************************************************)

\* The instance the operation was called on is still the loaded one.  clear()
\* empties the old instance, and every manager call on it raises.
Live(t) == loaded /\ task[t].epoch = epoch

At(t, step, answer) == task[t].step = step /\ task[t].io = answer

\* Await the next call.
Await(t, step, io) ==
    task' = [task EXCEPT ![t].step = step, ![t].io = io]

\* Return or raise to the caller.
Finish(t) == task' = [task EXCEPT ![t] = Idle]

\* Nobody but t holds the lock of the current instance's Store, or waits for it.
StoreFree(t) ==
    \A u \in Tasks \ {t} : ~(task[u].step \in SaveSteps /\ task[u].epoch = epoch)
\* Mutants: a snapshot that waits for the Store is not replaced ...
CommitUnlessWaiting(t, v, rec, self) ==
    LET new == [records EXCEPT ![v] = rec]
        free == StoreFree(t)
    IN  /\ records' = new
        /\ unsaved' = [unsaved EXCEPT ![epoch] =
                         IF free THEN None ELSE IF @ = None THEN new ELSE @]
        /\ task' = [task EXCEPT ![t] =
                      [self EXCEPT !.io = IF free THEN "store" ELSE "lock",
                                   !.snap = IF free THEN new ELSE None]]

\* ... and the snapshot is written but the dict is not updated.
CommitToDiskOnly(t, v, rec, self) ==
    LET new == [records EXCEPT ![v] = rec]
        free == StoreFree(t)
    IN  /\ unsaved' = [unsaved EXCEPT ![epoch] = IF free THEN None ELSE new]
        /\ task' = [task EXCEPT ![t] =
                      [self EXCEPT !.io = IF free THEN "store" ELSE "lock",
                                   !.snap = IF free THEN new ELSE None]]
        /\ UNCHANGED records

\* Set a record in the dict and call async_save with the new snapshot: what
\* register_record and update_record do up to their await, for an operation that
\* goes on as `self`.  The Store replaces the snapshot it has; a caller that finds
\* the lock free takes it along at once.
Commit(t, v, rec, self) ==
    LET new == [records EXCEPT ![v] = rec]
        free == StoreFree(t)
    IN  /\ records' = new
        /\ unsaved' = [unsaved EXCEPT ![epoch] = IF free THEN None ELSE new]
        /\ task' = [task EXCEPT ![t] =
                      [self EXCEPT !.io = IF free THEN "store" ELSE "lock",
                                   !.snap = IF free THEN new ELSE None]]

--------------------------------------------------------------------------------
(***************************************************************************)
(* The executor, and the Store's lock.  A call whose thread has begun runs *)
(* to its end whether or not the operation that asked for it is still      *)
(* there.                                                                  *)
(***************************************************************************)

Reply(t, io, snap) == task' = [task EXCEPT ![t].io = io, ![t].snap = snap]

Answer(t, answer) == Reply(t, answer, None)

RunExists(t) ==
    /\ task[t].io = "exists"
    /\ Answer(t, IF task[t].vid \in artifacts THEN "yes" ELSE "no")
    /\ UNCHANGED <<records, loaded, epoch, disk, unsaved, artifacts, issued>>

\* The bytes go to a temporary file that replaces the artifact: all or nothing.
RunWrite(t) ==
    /\ task[t].io = "write"
    /\ artifacts' = artifacts \cup {task[t].vid}
    /\ Answer(t, "yes")
    /\ UNCHANGED <<records, loaded, epoch, disk, unsaved, issued>>

RunUnlink(t) ==
    /\ task[t].io = "unlink"
    /\ artifacts' = artifacts \ {task[t].vid}
    /\ Answer(t, "yes")
    /\ UNCHANGED <<records, loaded, epoch, disk, unsaved, issued>>

\* An OSError in a thread reaches the operation as an exception.
StorageFails(t) ==
    /\ "storageFault" \in Disturbances
    /\ task[t].io \in {"write", "unlink"}
    /\ Answer(t, "no")
    /\ UNCHANGED <<records, loaded, epoch, disk, unsaved, artifacts, issued>>

\* A caller that waited for the lock gets it when nobody holds it: it takes the
\* snapshot there is, or returns at once when another caller took it.  The lock is
\* held until the caller goes on.
TakeSnapshot(t) ==
    LET e == task[t].epoch IN
    /\ task[t].io = "lock"
    /\ \A u \in Tasks \ {t} :
        (task[u].step \in SaveSteps /\ task[u].epoch = e) => task[u].io = "lock"
    /\ Reply(t, IF unsaved[e] = None THEN "yes" ELSE "store", unsaved[e])
    /\ unsaved' = [unsaved EXCEPT ![e] = None]
    /\ UNCHANGED <<records, loaded, epoch, disk, artifacts, issued>>
\* The thread replaces the file by the snapshot that was taken for it, whatever the
\* file holds by now.
RunStore(t) ==
    /\ task[t].io = "store"
    /\ disk' = task[t].snap
    /\ Answer(t, "yes")
    /\ UNCHANGED <<records, loaded, epoch, unsaved, artifacts, issued>>

\* The Store logs a write error and returns: the caller is told nothing, and the
\* snapshot is lost.
StoreFails(t) ==
    /\ "writeFault" \in Disturbances
    /\ task[t].io = "store"
    /\ Answer(t, "yes")
    /\ UNCHANGED <<records, loaded, epoch, disk, unsaved, artifacts, issued>>

Executor(t) ==
    \/ RunExists(t)
    \/ RunWrite(t)
    \/ RunUnlink(t)
    \/ StorageFails(t)
    \/ TakeSnapshot(t)
    \/ RunStore(t)
    \/ StoreFails(t)

--------------------------------------------------------------------------------
(***************************************************************************)
(* The life of the integration.                                            *)
(***************************************************************************)
\* Mutant: an empty Store's None is taken for the registry.
LoadNone ==
    /\ ~loaded
    /\ epoch < MaxEpoch
    /\ loaded' = TRUE
    /\ epoch' = epoch + 1
    /\ records' = IF disk = EmptyRegistry THEN None ELSE disk
    /\ UNCHANGED <<disk, unsaved, artifacts, issued, task>>

\* async_setup_entry: new managers on a registry read from the Store.  MaxEpoch
\* bounds it.
Load ==
    /\ ~loaded
    /\ epoch < MaxEpoch
    /\ loaded' = TRUE
    /\ epoch' = epoch + 1
    /\ records' = disk
    /\ UNCHANGED <<disk, unsaved, artifacts, issued, task>>

\* async_unload_entry clears every manager.  It neither cancels nor awaits the
\* operations in flight, which keep the cleared instance.
Unload ==
    /\ "reload" \in Disturbances
    /\ loaded
    /\ epoch < MaxEpoch
    /\ loaded' = FALSE
    /\ records' = EmptyRegistry
    /\ UNCHANGED <<epoch, disk, unsaved, artifacts, issued, task>>

\* The process dies: only the files are left.
Crash ==
    /\ "crash" \in Disturbances
    /\ epoch > 0
    /\ epoch < MaxEpoch
    /\ loaded' = FALSE
    /\ records' = EmptyRegistry
    /\ unsaved' = [e \in Epochs |-> None]
    /\ task' = [t \in Tasks |-> Idle]
    /\ UNCHANGED <<epoch, disk, artifacts, issued>>

================================================================================
