----------------------- MODULE VoiceprintDurabilityProofs -----------------------
(***************************************************************************)
(* What lasts, for every set of ids, subjects and tasks: the artifact of a *)
(* record, an acknowledged write, the snapshot on disk, the successor of a *)
(* superseded voiceprint; and that the operations implement the catalogue. *)
(* Everything here stands on IInv, and so on its two assumptions; what a   *)
(* theorem asks of the disturbances beside that is among its hypotheses.   *)
(***************************************************************************)
EXTENDS VoiceprintRefinement, VoiceprintSafetyProofs

(***************************************************************************)
(* The invariants.                                                         *)
(***************************************************************************)

\* The call that an operation awaits at a step.
CallAt ==
    [idle |-> {"none"}, exists |-> {"exists"}, save |-> {"write"},
     regExists |-> {"exists"}, regSave |-> {"lock", "store"},
     swapSave |-> {"lock", "store"}, lastSave |-> {"lock", "store"},
     eraseSave |-> {"lock", "store"}, delExists |-> {"exists"},
     delUnlink |-> {"unlink"}, abandoned |-> Waiting]

\* The operations that come by a step.
OperationsAt ==
    [idle |-> {"none"}, exists |-> {"persist"}, save |-> {"persist"},
     regExists |-> {"persist"}, regSave |-> {"persist"},
     swapSave |-> {"persist", "supersede"},
     lastSave |-> {"persist", "supersede", "move"}, eraseSave |-> {"erase"},
     delExists |-> {"persist", "erase"}, delUnlink |-> {"persist", "erase"},
     abandoned |-> {"persist"}]

\* Every operation waits for the call, or has the answer, of the step it is at.
CallsMatch ==
    \A t \in Tasks :
        /\ task[t].op \in OperationsAt[task[t].step]
        /\ task[t].io \in CallAt[task[t].step]
                \cup (IF task[t].step = "idle" THEN {} ELSE Answers)
        /\ (task[t].step \in PreSteps /\ task[t].prev = None)
                => task[t].rec.subject \in Subjects

\* An operation that deletes the bytes of its id, now or next.
Unlinking(t) == task[t].step \in {"delExists", "delUnlink"} \/ task[t].io = "unlink"

Erasing(t) == task[t].op = "erase"

\* Bytes are deleted for an id that no other operation is about to register, and
\* by a clean-up only for an id that nobody has registered.
OwnsBytes(t) ==
    /\ task[t].vid \in issued
    /\ \A u \in Tasks : task[u].step \in PreSteps => task[u].vid # task[t].vid
    /\ ~Erasing(t) => Unregistered(task[t].vid)

BytesOwned == \A t \in Tasks : (Unlinking(t) \/ Erasing(t)) => OwnsBytes(t)

\* A persist that has saved its bytes and not yet registered them has them.
BytesSaved ==
    \A t \in Tasks :
        At(t, "save", "yes") \/ task[t].step = "regExists" => task[t].vid \in artifacts

OwnInv == IInv /\ CallsMatch /\ BytesOwned /\ BytesSaved

--------------------------------------------------------------------------------

\* An id that is no key has no record.
Blank(reg) == \A v \in Vids : ~Present(reg, v) => reg[v] = Absent

\* Every record of the registry value is as it was before, or as it is.
Behind(reg) == \A v \in Vids : Catalogue!Earlier(reg[v], records[v])

\* Without reloads nothing outlives its instance: operations run on the loaded
\* one, what waits for the Store's lock is the newest snapshot, and every other
\* snapshot is an earlier one.
InStep ==
    /\ Everywhere(Blank)
    /\ \A t \in Tasks : task[t].step # "idle" => Live(t)
    /\ \A e \in Epochs : unsaved[e] # None => loaded /\ e = epoch /\ unsaved[e] = records
    /\ loaded => \A reg \in Snapshots : Behind(reg)

NoneAbandoned == \A t \in Tasks : task[t].step # "abandoned"

\* Without timeouts either, the Store's lock keeps its writes in order: one caller
\* is past the lock at most, and what it is to write is not behind the disk.
OneHolder ==
    \A t, u \in Tasks :
        (/\ task[t].step \in SaveSteps /\ task[t].io # "lock"
         /\ task[u].step \in SaveSteps /\ task[u].io # "lock") => t = u

Forward ==
    \A t \in Tasks : task[t].snap # None =>
        \A v \in Vids : task[t].snap[v].state \in Later(disk[v].state)

LockInv == NoneAbandoned /\ OneHolder /\ Forward

\* Without write faults either, the newest snapshot waits for the lock, or is being
\* written, or is on disk.
Settled ==
    (loaded /\ unsaved[epoch] = None) =>
        /\ \A t \in Tasks : task[t].snap # None => task[t].snap = records
        /\ (\A t \in Tasks : task[t].snap = None) => disk = records

\* The record that an operation writes at its step has the state it was given, or
\* a later one.
Reached(reg, t) ==
    /\ task[t].step = "regSave" => reg[task[t].vid].state \in Later("pending")
    /\ task[t].step = "eraseSave" => reg[task[t].vid].state = "deleted"
    /\ task[t].step = "swapSave" => reg[task[t].prev].state \in Later("superseded")
    /\ (task[t].step = "lastSave" /\ task[t].op \in {"persist", "supersede"})
            => reg[task[t].vid].state \in Later("active")

AckInv ==
    \A t \in Tasks :
        /\ Reached(records, t)
        /\ task[t].snap # None => Reached(task[t].snap, t)
        /\ task[t].io = "yes" => Reached(disk, t)

\* An erasure that has come to the bytes has retired the record everywhere.
ErasedEverywhere ==
    \A t \in Tasks : (Unlinking(t) /\ Erasing(t)) =>
        \A reg \in Registries : reg[task[t].vid].state = "deleted"

HasArtifacts(reg) ==
    \A v \in Vids : reg[v].state \notin {"absent", "deleted"} => v \in artifacts

DurableInv ==
    /\ OwnInv
    /\ InStep
    /\ LockInv
    /\ Settled
    /\ AckInv
    /\ ErasedEverywhere
    /\ Everywhere(HasArtifacts)

\* Without timeouts, crashes and storage faults: a clean-up that is over has left
\* nothing.
CleanUpDone ==
    \A t \in Tasks :
        (/\ task[t].op = "persist"
         /\ At(t, "delExists", "no") \/ (task[t].step = "delUnlink" /\ task[t].io \in Answers))
            => task[t].vid \notin artifacts

NoStorageFailure == \A t \in Tasks : ~At(t, "save", "no")

CleanInv == OwnInv /\ CleanUpDone /\ NoStorageFailure /\ NoneAbandoned

(***************************************************************************)
(* What a step does to the operation that makes it.                        *)
(***************************************************************************)

\* Only t's entry changes.
OthersWait(t) == \A u \in Tasks \ {t} : task'[u] = task[u]

\* The operation goes on, or gets its answer.
Continues(t, step, io) ==
    /\ task'[t].step = step
    /\ task'[t].io = io
    /\ task'[t].op = task[t].op
    /\ task'[t].vid = task[t].vid
    /\ task'[t].prev = task[t].prev
    /\ task'[t].rec = task[t].rec
    /\ task'[t].epoch = task[t].epoch

LEMMA AwaitContinues ==
    ASSUME TypeOK, NEW t \in Tasks, NEW step, NEW io, Await(t, step, io)
    PROVE  Continues(t, step, io) /\ OthersWait(t)
BY DEF TypeOK, Await, Task, Continues, OthersWait

LEMMA ReplyContinues ==
    ASSUME TypeOK, NEW t \in Tasks, NEW io, NEW snap, Reply(t, io, snap)
    PROVE  /\ Continues(t, task[t].step, io)
           /\ task'[t].snap = snap
           /\ OthersWait(t)
BY DEF TypeOK, Reply, Task, Continues, OthersWait

\* What the executor answers, or the snapshot it takes along.
Replies(t) ==
    \E io \in Answers \cup {"store"}, snap \in Registry \cup {None} :
        /\ Continues(t, task[t].step, io)
        /\ task'[t].snap = snap
        /\ io = "store" => task[t].io = "lock"

LEMMA ExecutorReplies ==
    ASSUME TypeOK, NEW t \in Tasks, Executor(t)
    PROVE  /\ task[t].step # "idle"
           /\ UNCHANGED <<records, loaded, epoch, issued>>
           /\ OthersWait(t)
           /\ Replies(t)
<1>1. /\ task[t].io # "none"
      /\ UNCHANGED <<records, loaded, epoch, issued>>
  BY DEF Executor, RunExists, RunWrite, RunUnlink, StorageFails, TakeSnapshot, RunStore,
         StoreFails
<1>2. task[t].step # "idle" /\ task[t].epoch \in Epochs
  BY <1>1, WaitingTask, BusyTask
<1>3. PICK io \in Answers \cup {"store"}, snap \in Registry \cup {None} :
        Reply(t, io, snap) /\ (io = "store" => task[t].io = "lock")
  <2>1. unsaved[task[t].epoch] \in Registry \cup {None}
    BY <1>2 DEF TypeOK
  <2> QED BY <2>1 DEF Executor, RunExists, RunWrite, RunUnlink, StorageFails, TakeSnapshot,
                      RunStore, StoreFails, Answer, Answers
<1>4. Replies(t) /\ OthersWait(t)
  BY <1>3, ReplyContinues DEF Replies
<1> QED BY <1>1, <1>2, <1>4

LEMMA FinishEnds ==
    ASSUME TypeOK, NEW t \in Tasks, Finish(t)
    PROVE  task'[t] = Idle /\ OthersWait(t)
BY DEF TypeOK, Finish, OthersWait

\* A request becomes an operation.
Begins(t, op, step, io, v, p, rec) ==
    /\ loaded
    /\ task[t] = Idle
    /\ task'[t].step = step
    /\ task'[t].io = io
    /\ task'[t].op = op
    /\ task'[t].vid = v
    /\ task'[t].prev = p
    /\ task'[t].rec = rec
    /\ task'[t].epoch = epoch

LEMMA OperationBegins ==
    ASSUME TypeOK, NEW t \in Tasks, CanStart(t), NEW op, NEW step, NEW io, NEW v, NEW p,
           NEW activate, NEW rec,
           task' = [task EXCEPT ![t] = Operation(op, step, io, v, p, activate, rec)]
    PROVE  /\ Begins(t, op, step, io, v, p, rec)
           /\ task'[t].snap = None
           /\ OthersWait(t)
BY DEF TypeOK, CanStart, Operation, Begins, OthersWait

\* An operation sets a record and calls async_save: it gets the Store's lock with
\* the snapshot, or waits for it.
Saves(t, x, rec) ==
    /\ records' = [records EXCEPT ![x] = rec]
    /\ Snapshots' \subseteq Snapshots \cup {records'}
    /\ unsaved' = [unsaved EXCEPT ![epoch] = IF StoreFree(t) THEN None ELSE records']
    /\ OthersWait(t)
    /\ task'[t].io = IF StoreFree(t) THEN "store" ELSE "lock"
    /\ task'[t].snap = IF StoreFree(t) THEN records' ELSE None

LEMMA CommitSaves ==
    ASSUME TypeOK, NEW t \in Tasks, NEW v \in Vids, NEW rec \in Record, NEW self \in Task,
           Commit(t, v, rec, self), UNCHANGED disk
    PROVE  /\ Saves(t, v, rec)
           /\ task'[t].step = self.step
           /\ task'[t].op = self.op
           /\ task'[t].vid = self.vid
           /\ task'[t].prev = self.prev
           /\ task'[t].rec = self.rec
           /\ task'[t].epoch = self.epoch
<1> DEFINE op == [self EXCEPT !.io = IF StoreFree(t) THEN "store" ELSE "lock",
                              !.snap = IF StoreFree(t) THEN records' ELSE None]
<1>1. /\ unsaved' = [unsaved EXCEPT ![epoch] = IF StoreFree(t) THEN None ELSE records']
      /\ task' = [task EXCEPT ![t] = op]
  BY DEF Commit
<1>2. /\ op.op = self.op
      /\ op.io = IF StoreFree(t) THEN "store" ELSE "lock"
      /\ op.snap = IF StoreFree(t) THEN records' ELSE None
  BY DEF Task
<1> HIDE DEF op
<1>3. task'[t] = op
  BY <1>1 DEF TypeOK
<1> QED BY <1>1, <1>2, <1>3, CommitWrites DEF Saves, OthersWait

--------------------------------------------------------------------------------

\* CallsMatch, for one operation.
CallMatches(t) ==
    /\ task[t].op \in OperationsAt[task[t].step]
    /\ task[t].io \in CallAt[task[t].step]
            \cup (IF task[t].step = "idle" THEN {} ELSE Answers)
    /\ (task[t].step \in PreSteps /\ task[t].prev = None)
            => task[t].rec.subject \in Subjects

\* A step of one operation keeps what it says of the others.
LEMMA CallsMatchFrom ==
    ASSUME CallsMatch, NEW t \in Tasks, OthersWait(t), CallMatches(t)'
    PROVE  CallsMatch'
BY DEF CallsMatch, CallMatches, OthersWait

LEMMA IdleMatches == ASSUME NEW t \in Tasks, task'[t] = Idle PROVE CallMatches(t)'
BY DEF CallMatches, Idle, OperationsAt, CallAt, PreSteps

\* An answer is one, whatever was asked.
LEMMA CallsMatchExecutor ==
    ASSUME TypeOK, CallsMatch, NEW t \in Tasks, Executor(t)
    PROVE  CallsMatch'
<1>1. task[t].step # "idle" /\ OthersWait(t) /\ Replies(t)
  BY ExecutorReplies
<1>2. PICK io \in Answers \cup {"store"} :
        /\ Continues(t, task[t].step, io)
        /\ io = "store" => task[t].io = "lock"
  BY <1>1 DEF Replies
<1>3. io = "store" => task[t].step \in SaveSteps
  BY <1>2 DEF CallsMatch, CallAt, Answers, TypeOK, Task, Steps, Waiting, SaveSteps
<1>4. CallMatches(t)'
  <2>1. io \in CallAt[task[t].step] \cup Answers
    BY <1>2, <1>3 DEF CallAt, SaveSteps, Answers
  <2> QED BY <1>1, <1>2, <2>1 DEF Continues, CallsMatch, CallMatches
<1> QED BY <1>1, <1>4, CallsMatchFrom

(***************************************************************************)
(* The kinds of steps.                                                     *)
(***************************************************************************)

\* A persist begins.
Enrols(t, v) ==
    /\ v \notin issued
    /\ issued' = issued \cup {v}
    /\ UNCHANGED <<records, loaded, epoch, disk, unsaved, artifacts>>
    /\ OthersWait(t)
    /\ Begins(t, "persist", "exists", "exists", v, task'[t].prev, task'[t].rec)
    /\ task'[t].prev = None => task'[t].rec.subject \in Subjects
    /\ task'[t].snap = None

\* An operation goes on to its next await without a write.
GoesOn(t, step, io) ==
    \/ At(t, "exists", "no") /\ step = "save" /\ io = "write"
    \/ At(t, "save", "yes") /\ step = "regExists" /\ io = "exists"
    \/ task[t].step \in {"save", "regExists"} /\ step = "delExists" /\ io = "exists"
    \/ At(t, "eraseSave", "yes") /\ step = "delExists" /\ io = "exists"
    \/ At(t, "delExists", "yes") /\ step = "delUnlink" /\ io = "unlink"
    \/ /\ "timeout" \in Disturbances
       /\ task[t].op = "persist"
       /\ step = "abandoned"
       /\ io \in Waiting
       /\ io = task[t].io

\* The steps at which an operation ends, when it is not cancelled.
MayEnd(t) ==
    /\ task[t].io \in Answers
    /\ task[t].step \notin {"regExists", "eraseSave"}
    /\ task[t].step \in {"save", "delExists"} => task[t].io = "no"
    /\ task[t].step = "swapSave" => ~CanWriteReplacement(t)

\* A step of an operation that writes nothing.
Passes(t) ==
    /\ UNCHANGED <<records, loaded, epoch, disk, unsaved, artifacts, issued>>
    /\ OthersWait(t)
    /\ \/ task'[t] = Idle /\ (MayEnd(t) \/ "timeout" \in Disturbances)
       \/ /\ \E step, io : GoesOn(t, step, io) /\ Continues(t, step, io)
          /\ task'[t].snap = task[t].snap

\* The writes: register_record's of a new record ...
Enters(t, x, rec) ==
    /\ ~Present(records, x)
    /\ rec.state = "pending"
    /\ rec.next = None
    /\ Fits(records, x, rec)
    /\ rec.parent = None => rec.subject \in Subjects
    /\ task[t].step = "regExists"
    /\ task[t].vid = x
    /\ Live(t)
    /\ task'[t].step = "regSave"
    /\ task'[t].op = "persist"
    /\ task'[t].vid = x

\* ... an activation, by activate_record or the second half of supersede_record ...
Promotes(t, x, rec) ==
    /\ records[x].state = "pending"
    /\ rec = WithState(records[x], "active")
    /\ \A w \in Vids : Active(records, w) => records[w].root # records[x].root
    /\ task[t].step \in {"regSave", "swapSave"}
    /\ task[t].vid = x
    /\ task'[t].step = "lastSave"
    /\ task'[t].op \in {"persist", "supersede"}
    /\ task'[t].vid = x

\* ... the first half ...
HandsOver(t, x, rec) ==
    /\ Active(records, x)
    /\ task'[t].vid \in Vids
    /\ Present(records, task'[t].vid)
    /\ records[task'[t].vid].parent = x
    /\ rec = SupersededBy(records[x], task'[t].vid)
    /\ task[t].step \in {"idle", "regSave"}
    /\ task'[t].step = "swapSave"
    /\ task'[t].op \in {"persist", "supersede"}
    /\ task'[t].prev = x

\* ... and a deletion.
Retires(t, x, rec) ==
    /\ records[x].state \in {"active", "superseded"}
    /\ rec = WithState(records[x], "deleted")
    /\ task[t].step = "idle"
    /\ \/ task'[t].step = "lastSave" /\ task'[t].op = "move"
       \/ task'[t].step = "eraseSave" /\ task'[t].op = "erase"
    /\ task'[t].vid = x

Writes(t, x, rec) ==
    /\ loaded
    /\ Saves(t, x, rec)
    /\ UNCHANGED <<loaded, epoch, disk, artifacts, issued>>
    /\ task'[t].epoch = epoch
    /\ Enters(t, x, rec) \/ Promotes(t, x, rec) \/ HandsOver(t, x, rec) \/ Retires(t, x, rec)

\* An operation in flight saves a record and goes on.
LEMMA SavesOn ==
    ASSUME TypeOK, NEW t \in Tasks, NEW v \in Vids, NEW rec \in Record,
           NEW step \in SaveSteps, Commit(t, v, rec, AtSave(t, step)), UNCHANGED disk
    PROVE  /\ Saves(t, v, rec)
           /\ task'[t].step = step
           /\ task'[t].op = task[t].op
           /\ task'[t].vid = task[t].vid
           /\ task'[t].epoch = task[t].epoch
<1>1. AtSave(t, step) \in Task /\ AtSave(t, step).op = task[t].op
  BY AtSaveFields DEF AtSave, TypeOK, Task
<1>2. /\ AtSave(t, step).step = step
      /\ AtSave(t, step).vid = task[t].vid
      /\ AtSave(t, step).epoch = task[t].epoch
  BY AtSaveFields
<1> QED BY <1>1, <1>2, CommitSaves

\* Each writing action is one of the four writes.
LEMMA RegisterWrites ==
    ASSUME IInv, CallsMatch, NEW t \in Tasks, Register(t)
    PROVE  \E x \in Vids, rec \in Record : Writes(t, x, rec)
<1>1. task[t].step = "regExists" /\ Live(t) /\ task[t].op = "persist" /\ TypeOK
  BY DEF Register, At, CallsMatch, OperationsAt, IInv
<1>2. PICK v \in Vids, rec \in Record : v = task[t].vid /\ rec = task[t].rec
  BY <1>1, BusyTask
<1>3. /\ Saves(t, v, rec)
      /\ task'[t].step = "regSave"
      /\ task'[t].op = "persist"
      /\ task'[t].vid = v
      /\ task'[t].epoch = epoch
  BY <1>1, <1>2, SavesOn DEF Register, Live, SaveSteps
<1>4. /\ ~Present(records, v)
      /\ rec.state = "pending"
      /\ rec.next = None
      /\ rec.parent = task[t].prev
      /\ Fits(records, v, rec)
      /\ task[t].prev = None => rec.subject \in Subjects
  BY <1>1, <1>2 DEF IInv, BeforeRegister, PreSteps, Unregistered, Registries, CallsMatch
<1>5. Enters(t, v, rec)
  BY <1>1, <1>2, <1>3, <1>4 DEF Enters
<1>6. Writes(t, v, rec)
  BY <1>1, <1>3, <1>5 DEF Register, Live, Writes
<1> QED BY <1>6

LEMMA ActivateNewWrites ==
    ASSUME IInv, CallsMatch, NEW t \in Tasks, ActivateNew(t)
    PROVE  \E x \in Vids, rec \in Record : Writes(t, x, rec)
<1>1. task[t].step = "regSave" /\ Live(t) /\ task[t].op = "persist" /\ TypeOK
  BY DEF ActivateNew, CanFinishPersist, At, CallsMatch, OperationsAt, IInv
<1>2. PICK v \in Vids : v = task[t].vid
  BY <1>1, BusyTask
<1>3. PICK rec \in Record : rec = WithState(records[v], "active")
  BY <1>1, ChangedRecordType DEF TypeOK, Registry, LifecycleStates
<1>4. /\ Saves(t, v, rec)
      /\ task'[t].step = "lastSave"
      /\ task'[t].op = "persist"
      /\ task'[t].vid = v
      /\ task'[t].epoch = epoch
  BY <1>1, <1>2, <1>3, SavesOn DEF ActivateNew, Live, SaveSteps
<1>5. records[v].state = "pending" /\ ~ActiveConflict(records, v, {})
  <2>1. CanActivate(records, v)
    BY <1>2 DEF ActivateNew, CanFinishPersist
  <2>2. records[v].state \in ServiceStates
    BY DEF IInv, GoodRegistries, GoodRegistry, OnlyServiceStates, Everywhere, Registries
  <2> QED BY <2>1, <2>2 DEF CanActivate, CanMove, AllowedTransitions, ServiceStates
<1>6. \A w \in Vids : Active(records, w) => records[w].root # records[v].root
  BY <1>5 DEF ActiveConflict, Active
<1>7. Promotes(t, v, rec)
  BY <1>1, <1>2, <1>3, <1>4, <1>5, <1>6 DEF Promotes
<1>8. Writes(t, v, rec)
  BY <1>1, <1>4, <1>7 DEF ActivateNew, Live, Writes
<1> QED BY <1>8

\* supersede_record up to its first write, in either operation.
LEMMA HandOverWrites ==
    ASSUME IInv, CallsMatch, NEW t \in Tasks, NEW p \in Vids, NEW v \in Vids,
           \/ SupersedeNew(t) /\ p = task[t].prev /\ v = task[t].vid
           \/ StartSupersede(t, p, v)
    PROVE  \E x \in Vids, rec \in Record : Writes(t, x, rec)
<1>1. TypeOK
  BY DEF IInv
<1>2. PICK rec \in Record : rec = SupersededBy(records[p], v)
  BY <1>1, ChangedRecordType DEF TypeOK, Registry, LifecycleStates
<1>3. PICK second \in Record : second = WithState(records[v], "active")
  BY <1>1, ChangedRecordType DEF TypeOK, Registry, LifecycleStates
<1>4. /\ loaded
      /\ CanCoordinate(records, p, v)
      /\ task'[t].step = "swapSave"
      /\ task'[t].vid = v
      /\ task'[t].prev = p
      /\ task'[t].epoch = epoch
  BY <1>1, SupersedeWrites
<1>5. /\ Saves(t, p, rec)
      /\ UNCHANGED <<loaded, epoch, disk, artifacts, issued>>
      /\ task'[t].op \in {"persist", "supersede"}
      /\ task[t].step \in {"idle", "regSave"}
  <2>1. CASE StartSupersede(t, p, v)
    <3> DEFINE self == Operation("supersede", "swapSave", "lock", v, p, TRUE, second)
    <3>1. self \in Task /\ self.op = "supersede"
      BY <1>1, StartType DEF Operation, Begun, Operations, Steps, Waiting
    <3>2. Commit(t, p, rec, self) /\ UNCHANGED disk
      BY <1>2, <1>3, <2>1 DEF StartSupersede
    <3> HIDE DEF self
    <3>3. Saves(t, p, rec) /\ task'[t].op = "supersede"
      BY <1>1, <3>1, <3>2, CommitSaves
    <3> QED BY <2>1, <3>3 DEF StartSupersede, CanStart, Idle
  <2>2. CASE SupersedeNew(t) /\ p = task[t].prev /\ v = task[t].vid
    <3> DEFINE self == [AtSave(t, "swapSave") EXCEPT !.rec = second]
    <3>1. task[t].step = "regSave" /\ task[t].op = "persist"
      BY <2>2 DEF SupersedeNew, At, CallsMatch, OperationsAt
    <3>2. self \in Task /\ self.op = "persist"
      <4>1. AtSave(t, "swapSave") \in Task
        BY <1>1, AtSaveFields DEF SaveSteps
      <4>2. AtSave(t, "swapSave").op = "persist"
        BY <1>1, <3>1 DEF AtSave, TypeOK, Task
      <4> HIDE DEF AtSave
      <4> QED BY <4>1, <4>2 DEF Task
    <3>3. Commit(t, p, rec, self) /\ UNCHANGED disk
      BY <1>2, <1>3, <2>2 DEF SupersedeNew
    <3> HIDE DEF self
    <3>4. Saves(t, p, rec) /\ task'[t].op = "persist"
      BY <1>1, <3>2, <3>3, CommitSaves
    <3> QED BY <2>2, <3>1, <3>4 DEF SupersedeNew
  <2> QED BY <2>1, <2>2
<1>6. Active(records, p)
  <2>1. records[p].state \in ServiceStates
    BY DEF IInv, GoodRegistries, GoodRegistry, OnlyServiceStates, Everywhere, Registries
  <2> QED BY <1>4, <2>1 DEF CanCoordinate, CanSupersede, CanMove, AllowedTransitions,
                            ServiceStates, Active
<1>7. HandsOver(t, p, rec)
  BY <1>2, <1>4, <1>5, <1>6 DEF HandsOver, CanCoordinate
<1>8. Writes(t, p, rec)
  BY <1>4, <1>5, <1>7 DEF Writes
<1> QED BY <1>8

LEMMA WriteReplacementWrites ==
    ASSUME IInv, CallsMatch, NEW t \in Tasks, WriteReplacement(t)
    PROVE  \E x \in Vids, rec \in Record : Writes(t, x, rec)
<1>1. /\ task[t].step = "swapSave" /\ Live(t) /\ task[t].op \in {"persist", "supersede"}
      /\ TypeOK
  BY DEF WriteReplacement, CanWriteReplacement, At, CallsMatch, OperationsAt, IInv
<1>2. PICK v \in Vids, rec \in Record : v = task[t].vid /\ rec = task[t].rec
  BY <1>1, BusyTask
<1>3. /\ Saves(t, v, rec)
      /\ task'[t].step = "lastSave"
      /\ task'[t].op = task[t].op
      /\ task'[t].vid = v
      /\ task'[t].epoch = epoch
  BY <1>1, <1>2, SavesOn DEF WriteReplacement, Live, SaveSteps
<1>4. /\ records[v].state = "pending"
      /\ rec = WithState(records[v], "active")
      /\ \A w \in Vids : Active(records, w) => records[w].root # records[v].root
  BY <1>1, <1>2 DEF IInv, Window, InWindow
<1>5. Promotes(t, v, rec)
  BY <1>1, <1>2, <1>3, <1>4 DEF Promotes
<1>6. Writes(t, v, rec)
  BY <1>1, <1>3, <1>5 DEF WriteReplacement, Live, Writes
<1> QED BY <1>6

LEMMA RetireWrites ==
    ASSUME IInv, NEW t \in Tasks, NEW v \in Vids, StartDelete(t, v) \/ StartErase(t, v)
    PROVE  \E x \in Vids, rec \in Record : Writes(t, x, rec)
<1>1. PICK op \in Operations, step \in SaveSteps :
        /\ <<step, op>> \in {<<"lastSave", "move">>, <<"eraseSave", "erase">>}
        /\ Move(t, op, step, v, "deleted")
  BY DEF StartDelete, StartErase, Operations, SaveSteps
<1>2. TypeOK
  BY DEF IInv
<1>3. PICK rec \in Record : rec = WithState(records[v], "deleted")
  BY <1>2, ChangedRecordType DEF TypeOK, Registry, LifecycleStates
<1> DEFINE self == Operation(op, step, "lock", v, None, FALSE, Absent)
<1>4. self \in Task
  BY <1>2, StartType, AbsentType DEF Begun, SaveSteps, Steps, Waiting
<1>5. self.step = step /\ self.op = op /\ self.vid = v /\ self.epoch = epoch
  BY DEF Operation
<1>6. Commit(t, v, rec, self) /\ UNCHANGED disk
  BY <1>1, <1>3 DEF Move
<1> HIDE DEF self
<1>7. /\ Saves(t, v, rec)
      /\ task'[t].step = step /\ task'[t].op = op /\ task'[t].vid = v
      /\ task'[t].epoch = epoch
  BY <1>2, <1>4, <1>5, <1>6, CommitSaves
<1>8. records[v].state \in {"active", "superseded"}
  <2>1. records[v].state \in ServiceStates
    BY DEF IInv, GoodRegistries, GoodRegistry, OnlyServiceStates, Everywhere, Registries
  <2> QED BY <1>1, <2>1 DEF Move, CanMove, AllowedTransitions, ServiceStates
<1>9. Retires(t, v, rec)
  BY <1>1, <1>3, <1>7, <1>8 DEF Move, CanStart, Retires, Idle
<1>10. Writes(t, v, rec)
  BY <1>1, <1>7, <1>9 DEF Move, CanStart, Writes
<1> QED BY <1>10

\* A persist begins with an id that was never given.
LEMMA PersistBegins ==
    ASSUME TypeOK, ReuseIds = FALSE, NEW t \in Tasks,
           \/ \E v \in Vids, s \in Subjects, a \in BOOLEAN : StartEnrol(t, v, s, a)
           \/ \E v, p \in Vids, a \in BOOLEAN : StartReenrol(t, v, p, a)
    PROVE  \E v \in Vids : Enrols(t, v)
<1>1. ASSUME NEW v \in Vids, NEW s \in Subjects, NEW a \in BOOLEAN, StartEnrol(t, v, s, a)
      PROVE  Enrols(t, v)
  <2>1. InitialRecord(v, s).subject \in Subjects
    BY DEF InitialRecord
  <2> HIDE DEF InitialRecord
  <2>2. /\ Begins(t, "persist", "exists", "exists", v, None, InitialRecord(v, s))
        /\ task'[t].snap = None
        /\ OthersWait(t)
    BY <1>1, OperationBegins DEF StartEnrol
  <2> QED BY <1>1, <2>1, <2>2 DEF StartEnrol, FreshIds, Enrols, Begins
<1>2. ASSUME NEW v \in Vids, NEW p \in Vids, NEW a \in BOOLEAN, StartReenrol(t, v, p, a)
      PROVE  Enrols(t, v)
  <2>1. /\ Begins(t, "persist", "exists", "exists", v, p, NextRecord(records, p))
        /\ task'[t].snap = None
        /\ OthersWait(t)
    BY <1>2, OperationBegins DEF StartReenrol
  <2> QED BY <1>2, <2>1, NoneAssumption DEF StartReenrol, FreshIds, Enrols, Begins
<1> QED BY <1>1, <1>2

LEMMA RequestKinds ==
    ASSUME IInv, CallsMatch, ReuseIds = FALSE, ManagerMoves = {}, NEW t \in Tasks, Request(t)
    PROVE  \/ \E v \in Vids : Enrols(t, v)
           \/ \E x \in Vids, rec \in Record : Writes(t, x, rec)
<1>1. ~ \E v \in Vids : ActivateRecord(t, v) \/ DeactivateRecord(t, v) \/ MarkFailed(t, v)
  BY DEF ActivateRecord, DeactivateRecord, MarkFailed
<1> QED BY <1>1, PersistBegins, RetireWrites, HandOverWrites DEF Request, IInv

\* The steps between two awaits that write nothing, and the cancellations.
LEMMA QuietPasses ==
    ASSUME TypeOK, NEW t \in Tasks,
           \/ RefuseExisting(t) \/ SaveArtifact(t) \/ SaveFailed(t) \/ StartRegister(t)
           \/ CleanUp(t) \/ FinishInactive(t) \/ RefuseActivation(t)
           \/ RefuseReplacement(t) \/ FinishCall(t) \/ EraseBytes(t) \/ UnlinkBytes(t)
           \/ FinishUnlink(t) \/ AbandonedEnds(t) \/ Timeout(t) \/ TimeoutRunning(t)
    PROVE  Passes(t)
<1>1. CASE RefuseExisting(t) \/ SaveFailed(t) \/ FinishInactive(t) \/ RefuseActivation(t)
           \/ RefuseReplacement(t) \/ FinishCall(t) \/ FinishUnlink(t) \/ AbandonedEnds(t)
           \/ Timeout(t)
  <2>1. Finish(t) /\ UNCHANGED <<records, loaded, epoch, disk, unsaved, artifacts, issued>>
    BY <1>1 DEF RefuseExisting, SaveFailed, FinishInactive, RefuseActivation,
                RefuseReplacement, FinishCall, FinishUnlink, AbandonedEnds, Timeout
  <2>2. MayEnd(t) \/ "timeout" \in Disturbances
    BY <1>1 DEF RefuseExisting, SaveFailed, FinishInactive, RefuseActivation,
                RefuseReplacement, FinishCall, FinishUnlink, AbandonedEnds, Timeout,
                Cancellable, At, MayEnd, Answers
  <2> QED BY <2>1, <2>2, FinishEnds DEF Passes
<1>2. ASSUME NEW step, NEW io, Await(t, step, io), GoesOn(t, step, io),
             UNCHANGED <<records, loaded, epoch, disk, unsaved, artifacts, issued>>
      PROVE  Passes(t)
  <2>1. task'[t].snap = task[t].snap
    BY <1>2 DEF Await, TypeOK, Task
  <2> QED BY <1>2, <2>1, AwaitContinues DEF Passes
<1>3. CASE SaveArtifact(t)
  BY <1>2, <1>3 DEF SaveArtifact, GoesOn
<1>4. CASE StartRegister(t)
  BY <1>2, <1>4 DEF StartRegister, GoesOn
<1>5. CASE CleanUp(t)
  <2>1. task[t].step \in {"save", "regExists"}
    BY <1>5 DEF CleanUp, At
  <2> QED BY <1>2, <1>5, <2>1 DEF CleanUp, GoesOn
<1>6. CASE EraseBytes(t)
  BY <1>2, <1>6 DEF EraseBytes, GoesOn
<1>7. CASE UnlinkBytes(t)
  BY <1>2, <1>7 DEF UnlinkBytes, GoesOn
<1>8. CASE TimeoutRunning(t)
  BY <1>2, <1>8 DEF TimeoutRunning, Cancellable, GoesOn
<1> QED BY <1>1, <1>3, <1>4, <1>5, <1>6, <1>7, <1>8

LEMMA ResumeKinds ==
    ASSUME IInv, CallsMatch, NEW t \in Tasks, Resume(t)
    PROVE  Passes(t) \/ \E x \in Vids, rec \in Record : Writes(t, x, rec)
<1>1. CASE SupersedeNew(t)
  <2>1. task[t].step = "regSave" /\ TypeOK
    BY <1>1 DEF SupersedeNew, At, IInv
  <2>2. PICK v \in Vids, p \in Vids : v = task[t].vid /\ p = task[t].prev
    BY <1>1, <2>1, BusyTask DEF SupersedeNew, TypeOK, Task
  <2> QED BY <1>1, <2>2, HandOverWrites
<1> QED BY <1>1, QuietPasses, RegisterWrites, ActivateNewWrites, WriteReplacementWrites
        DEF Resume, IInv

\* Every step is of one of these kinds.
LEMMA StepKinds ==
    ASSUME IInv, CallsMatch, ReuseIds = FALSE, ManagerMoves = {}, [Next]_vars
    PROVE  \/ \E t \in Tasks, v \in Vids : Enrols(t, v)
           \/ \E t \in Tasks : Passes(t)
           \/ \E t \in Tasks, x \in Vids, rec \in Record : Writes(t, x, rec)
           \/ \E t \in Tasks : Executor(t)
           \/ Load \/ Unload \/ Crash
           \/ UNCHANGED vars
<1>1. TypeOK
  BY DEF IInv
<1> QED BY <1>1, RequestKinds, ResumeKinds, QuietPasses DEF Next

--------------------------------------------------------------------------------

\* The operations' steps and calls go together.
LEMMA CallsMatchStep ==
    ASSUME IInv, TypeOK', CallsMatch, ReuseIds = FALSE, ManagerMoves = {}, [Next]_vars
    PROVE  CallsMatch'
<1>1. ASSUME NEW t \in Tasks, NEW v \in Vids, Enrols(t, v)
      PROVE  CallsMatch'
  <2>1. CallMatches(t)'
    BY <1>1 DEF Enrols, Begins, CallMatches, CallAt, OperationsAt
  <2> QED BY <1>1, <2>1, CallsMatchFrom DEF Enrols
<1>2. ASSUME NEW t \in Tasks, Passes(t)
      PROVE  CallsMatch'
  <2>1. OthersWait(t)
    BY <1>2 DEF Passes
  <2>2. CASE task'[t] = Idle
    BY <2>1, <2>2, IdleMatches, CallsMatchFrom
  <2>3. ASSUME NEW step, NEW io, GoesOn(t, step, io), Continues(t, step, io)
        PROVE  CallsMatch'
    <3>1. CallMatches(t)
      BY DEF CallsMatch, CallMatches
    <3>2. CallMatches(t)'
      BY <2>3, <3>1
         DEF GoesOn, At, Continues, CallMatches, CallAt, OperationsAt, PreSteps
    <3> QED BY <2>1, <3>2, CallsMatchFrom
  <2> QED BY <1>2, <2>2, <2>3 DEF Passes
<1>3. ASSUME NEW t \in Tasks, NEW x \in Vids, NEW rec \in Record, Writes(t, x, rec)
      PROVE  CallsMatch'
  <2>1. OthersWait(t) /\ task'[t].io \in {"store", "lock"}
    BY <1>3 DEF Writes, Saves
  <2>2. CallMatches(t)'
    BY <1>3, <2>1 DEF Writes, Enters, Promotes, HandsOver, Retires, CallMatches, CallAt,
                      OperationsAt, PreSteps
  <2> QED BY <2>1, <2>2, CallsMatchFrom
<1>4. ASSUME NEW t \in Tasks, Executor(t)
      PROVE  CallsMatch'
  BY <1>4, CallsMatchExecutor DEF IInv
<1>5. CASE Load \/ Unload \/ UNCHANGED vars
  BY <1>5 DEF Load, Unload, vars, CallsMatch
<1>6. CASE Crash
  <2>1. \A t \in Tasks : task'[t] = Idle
    BY <1>6 DEF Crash
  <2>2. \A t \in Tasks : CallMatches(t)'
    BY <2>1, IdleMatches
  <2> QED BY <2>2 DEF CallsMatch, CallMatches
<1> QED BY <1>1, <1>2, <1>3, <1>4, <1>5, <1>6, StepKinds

(***************************************************************************)
(* Whose the bytes are.                                                    *)
(***************************************************************************)

\* What a write makes of the record it writes, and of the others.
LEMMA WriteEffect ==
    ASSUME TypeOK, NEW t \in Tasks, NEW x \in Vids, NEW rec \in Record, Writes(t, x, rec)
    PROVE  /\ records'[x] = rec
           /\ \A w \in Vids : w # x => records'[w] = records[w]
           /\ Registries' \subseteq Snapshots \cup {records'}
           /\ OthersWait(t)
BY DEF Writes, Saves, TypeOK, Registry, Registries

\* Only a new record is registered, and only by the operation that owns the id.
LEMMA OthersUnregistered ==
    ASSUME TypeOK, NEW t \in Tasks, NEW x \in Vids, NEW rec \in Record, Writes(t, x, rec),
           NEW w \in Vids, w # x, Unregistered(w)
    PROVE  Unregistered(w)'
<1>1. records'[w] = records[w] /\ Registries' \subseteq Snapshots \cup {records'}
  BY WriteEffect
<1>2. \A reg \in Snapshots \cup {records} : ~Present(reg, w)
  BY DEF Unregistered, Registries
<1>3. \A reg \in Snapshots \cup {records'} : ~Present(reg, w)
  BY <1>1, <1>2 DEF Present
<1> QED BY <1>1, <1>3 DEF Unregistered

\* Neither a step without a write nor the life of the integration registers an id.
LEMMA UnregisteredStays ==
    ASSUME Registries' \subseteq Registries \cup {EmptyRegistry}, NEW w \in Vids, Unregistered(w)
    PROVE  Unregistered(w)'
BY EmptyIsGood DEF Unregistered

LEMMA QuietRegistries ==
    ASSUME TypeOK, NEW t \in Tasks,
           (\E v \in Vids : Enrols(t, v)) \/ Passes(t) \/ Executor(t)
    PROVE  Registries' \subseteq Registries
<1>1. CASE Executor(t)
  <2>1. QuietStep(t)
    BY <1>1, QuietExecutor
  <2> QED BY <2>1 DEF QuietStep, Registries
<1>2. CASE (\E v \in Vids : Enrols(t, v)) \/ Passes(t)
  <2>1. UNCHANGED <<records, disk, unsaved>> /\ OthersWait(t)
    BY <1>2 DEF Enrols, Passes
  <2>2. task'[t].snap \in {None, task[t].snap}
    BY <1>2 DEF Enrols, Passes, Idle
  <2>3. Snapshots' \subseteq Snapshots
    BY <2>1, <2>2, SnapshotMembers, SnapshotsWithin DEF OthersWait
  <2> QED BY <2>1, <2>3 DEF Registries
<1> QED BY <1>1, <1>2

\* The operation comes neither to the bytes nor to an id.
KeepsBytes(u) ==
    \/ task'[u] = Idle
    \/ /\ task'[u].vid = task[u].vid
       /\ task'[u].op = task[u].op
       /\ task'[u].step \in PreSteps => task[u].step \in PreSteps
       /\ Unlinking(u)' => Unlinking(u) \/ Erasing(u)

LEMMA StillOwned ==
    ASSUME TypeOK, BytesOwned, issued \subseteq issued',
           \A u \in Tasks : KeepsBytes(u),
           \A w \in Vids : Unregistered(w) => Unregistered(w)'
    PROVE  BytesOwned'
<1> SUFFICES ASSUME NEW t \in Tasks, Unlinking(t)' \/ Erasing(t)'
             PROVE  OwnsBytes(t)'
  BY DEF BytesOwned
<1>1. task'[t] # Idle
  BY DEF Unlinking, Erasing, Idle
<1>2. /\ task'[t].vid = task[t].vid
      /\ Erasing(t)' <=> Erasing(t)
      /\ OwnsBytes(t)
  BY <1>1 DEF KeepsBytes, Erasing, BytesOwned
<1>3. \A u \in Tasks : task'[u].step \in PreSteps =>
          task'[u].vid = task[u].vid /\ task[u].step \in PreSteps
  BY DEF KeepsBytes, Idle, PreSteps
<1>4. task[t].vid \in Vids
  BY <1>2 DEF OwnsBytes, TypeOK
<1> QED BY <1>2, <1>3, <1>4 DEF OwnsBytes

\* An operation that is not touched keeps what it owns.
LEMMA OthersKeepBytes ==
    ASSUME NEW t \in Tasks, OthersWait(t), NEW u \in Tasks \ {t}
    PROVE  KeepsBytes(u)
BY DEF OthersWait, KeepsBytes, Unlinking

LEMMA BytesOwnedPasses ==
    ASSUME OwnInv, NEW t \in Tasks, Passes(t)
    PROVE  BytesOwned'
<1>1. /\ OthersWait(t)
      /\ UNCHANGED <<records, loaded, epoch, disk, unsaved, artifacts, issued>>
      /\ TypeOK /\ BytesOwned /\ IInv
  BY DEF Passes, OwnInv, IInv
<1>2. \A w \in Vids : Unregistered(w) => Unregistered(w)'
  BY <1>1, QuietRegistries, UnregisteredStays
<1>3. CASE KeepsBytes(t)
  BY <1>1, <1>2, <1>3, OthersKeepBytes, StillOwned
<1>4. CASE ~KeepsBytes(t)
  <2>1. /\ task[t].step \in PreSteps
        /\ task'[t].step \notin PreSteps
        /\ task'[t].vid = task[t].vid
    BY <1>1, <1>4 DEF Passes, KeepsBytes, GoesOn, Continues, At, PreSteps, Unlinking,
                      Erasing, OwnInv, CallsMatch, OperationsAt, Idle
  <2>2. /\ task[t].vid \in issued
        /\ Unregistered(task[t].vid)
        /\ \A u \in Tasks \ {t} : task[u].step \in PreSteps => task[u].vid # task[t].vid
    BY <1>1, <2>1 DEF IInv, BeforeRegister
  <2>3. OwnsBytes(t)'
    BY <1>1, <1>2, <2>1, <2>2 DEF OwnsBytes, OthersWait, TypeOK
  <2>4. ASSUME NEW u \in Tasks \ {t}, Unlinking(u)' \/ Erasing(u)'
        PROVE  OwnsBytes(u)'
    <3>1. task'[u] = task[u] /\ OwnsBytes(u)
      BY <1>1, <2>4 DEF OthersWait, BytesOwned, Unlinking, Erasing
    <3>2. task[u].vid \in Vids
      BY <1>1, <3>1 DEF OwnsBytes, TypeOK
    <3> QED BY <1>1, <1>2, <2>1, <3>1, <3>2 DEF OwnsBytes, OthersWait, Erasing
  <2> QED BY <2>3, <2>4 DEF BytesOwned
<1> QED BY <1>3, <1>4

LEMMA BytesOwnedWrites ==
    ASSUME OwnInv, NEW t \in Tasks, NEW x \in Vids, NEW rec \in Record, Writes(t, x, rec)
    PROVE  BytesOwned'
<1>1. OthersWait(t) /\ issued' = issued /\ TypeOK /\ BytesOwned /\ IInv
  BY DEF Writes, Saves, OwnInv, IInv
<1>2. task'[t].step \notin PreSteps /\ task'[t].io \in {"store", "lock"}
  BY DEF Writes, Saves, Enters, Promotes, HandsOver, Retires, PreSteps
<1>3. ASSUME NEW u \in Tasks \ {t}, Unlinking(u)' \/ Erasing(u)'
      PROVE  OwnsBytes(u)'
  <2>1. task'[u] = task[u] /\ OwnsBytes(u)
    BY <1>1, <1>3 DEF OthersWait, BytesOwned, Unlinking, Erasing
  <2>2. task[u].vid \in Vids
    BY <1>1, <2>1 DEF OwnsBytes, TypeOK
  <2>3. Unregistered(task[u].vid) => task[u].vid # x
    BY <2>1 DEF Writes, Enters, Promotes, HandsOver, Retires, Active, OwnsBytes,
                PreSteps, Unregistered, Registries, Present
  <2>4. \A w \in Vids : (w # x /\ Unregistered(w)) => Unregistered(w)'
    BY <1>1, OthersUnregistered
  <2> QED BY <1>1, <1>2, <2>1, <2>2, <2>3, <2>4 DEF OwnsBytes, OthersWait, Erasing
<1>4. ASSUME Unlinking(t)' \/ Erasing(t)' PROVE OwnsBytes(t)'
  <2>1. Retires(t, x, rec) /\ Erasing(t)' /\ task'[t].vid = x
    BY <1>2, <1>4 DEF Writes, Enters, Promotes, HandsOver, Retires, Unlinking, Erasing
  <2>2. /\ x \in issued
        /\ \A u \in Tasks : task[u].step \in PreSteps => task[u].vid # x
    BY <1>1, <2>1, RegisteredIsTaken DEF Retires, Present
  <2> QED BY <1>1, <1>2, <2>1, <2>2 DEF OwnsBytes, OthersWait
<1> QED BY <1>3, <1>4 DEF BytesOwned

LEMMA BytesOwnedEnrols ==
    ASSUME OwnInv, NEW t \in Tasks, NEW v \in Vids, Enrols(t, v)
    PROVE  BytesOwned'
<1>1. /\ OthersWait(t)
      /\ UNCHANGED <<records, disk, unsaved>>
      /\ v \notin issued
      /\ issued' = issued \cup {v}
      /\ task'[t].vid = v
      /\ ~Unlinking(t)' /\ ~Erasing(t)'
  BY DEF Enrols, Begins, Unlinking, Erasing
<1>2. ASSUME NEW u \in Tasks \ {t}, Unlinking(u)' \/ Erasing(u)'
      PROVE  OwnsBytes(u)'
  <2>1. task'[u] = task[u] /\ OwnsBytes(u)
    BY <1>1, <1>2 DEF OthersWait, OwnInv, BytesOwned, Unlinking, Erasing
  <2>2. task[u].vid \in Vids
    BY <2>1 DEF OwnsBytes, OwnInv, IInv, TypeOK
  <2>3. \A w \in Vids : Unregistered(w) => Unregistered(w)'
    <3>1. Registries' \subseteq Registries \cup {EmptyRegistry}
      BY QuietRegistries DEF OwnInv, IInv
    <3> QED BY <3>1, UnregisteredStays
  <2> QED BY <1>1, <2>1, <2>2, <2>3 DEF OwnsBytes, OthersWait, Erasing
<1> QED BY <1>1, <1>2 DEF BytesOwned

\* Who deletes an artifact owns it.
LEMMA BytesOwnedStep ==
    ASSUME OwnInv, ReuseIds = FALSE, ManagerMoves = {}, [Next]_vars
    PROVE  BytesOwned'
<1>1. TypeOK /\ IInv /\ CallsMatch /\ BytesOwned
  BY DEF OwnInv, IInv
<1>2. ASSUME NEW t \in Tasks, Executor(t)
      PROVE  BytesOwned'
  <2>1. issued' = issued /\ OthersWait(t) /\ Replies(t)
    BY <1>1, <1>2, ExecutorReplies
  <2>2. KeepsBytes(t)
    BY <2>1 DEF Replies, Continues, KeepsBytes, Unlinking, Answers
  <2>3. \A u \in Tasks : KeepsBytes(u)
    BY <2>1, <2>2, OthersKeepBytes
  <2>4. \A w \in Vids : Unregistered(w) => Unregistered(w)'
    BY <1>1, <1>2, QuietRegistries, UnregisteredStays
  <2> QED BY <1>1, <2>1, <2>3, <2>4, StillOwned
<1>3. CASE Load \/ Unload \/ Crash
  <2>1. issued' = issued /\ \A u \in Tasks : task'[u] = task[u] \/ task'[u] = Idle
    BY <1>3 DEF Load, Unload, Crash
  <2>2. \A u \in Tasks : KeepsBytes(u)
    BY <2>1 DEF KeepsBytes, Unlinking
  <2>3. \A w \in Vids : Unregistered(w) => Unregistered(w)'
    BY <1>1, <1>3, LifeRegistries, UnregisteredStays
  <2> QED BY <1>1, <2>1, <2>2, <2>3, StillOwned
<1>4. CASE UNCHANGED vars
  BY <1>1, <1>4
     DEF vars, BytesOwned, OwnsBytes, Unlinking, Erasing, Unregistered, Registries, Snapshots
<1> QED BY <1>1, <1>2, <1>3, <1>4, StepKinds, BytesOwnedPasses, BytesOwnedWrites,
           BytesOwnedEnrols

\* Nobody deletes the bytes of a persist that has still to register them.
LEMMA BytesSavedStep ==
    ASSUME OwnInv, ReuseIds = FALSE, ManagerMoves = {}, [Next]_vars
    PROVE  BytesSaved'
<1>1. TypeOK /\ IInv /\ CallsMatch /\ BytesOwned /\ BytesSaved
  BY DEF OwnInv, IInv
<1>2. ASSUME NEW t \in Tasks, Executor(t)
      PROVE  BytesSaved'
  <2>1. PICK io : Continues(t, task[t].step, io)
    BY <1>1, <1>2, ExecutorReplies DEF Replies
  <2>2. OthersWait(t)
    BY <1>1, <1>2, ExecutorReplies
  <2>3. CASE RunUnlink(t)
    <3>1. \A u \in Tasks : task[u].step \in PreSteps => task[u].vid # task[t].vid
      BY <1>1, <2>3 DEF RunUnlink, BytesOwned, Unlinking, OwnsBytes
    <3>2. task[t].step \notin PreSteps
      BY <3>1
    <3> QED BY <1>1, <2>1, <2>2, <2>3, <3>1, <3>2
            DEF RunUnlink, BytesSaved, At, Continues, OthersWait, PreSteps
  <2>4. CASE ~RunUnlink(t)
    <3>1. artifacts \subseteq artifacts'
      BY <1>2, <2>4 DEF Executor, RunExists, RunWrite, StorageFails, TakeSnapshot, RunStore,
                        StoreFails
    <3>2. At(t, "save", "yes")' => task'[t].vid \in artifacts'
      <4>1. task[t].step = "save" => task[t].io \in {"write", "yes", "no"}
        BY <1>1 DEF CallsMatch, CallAt, Answers
      <4>2. CASE RunWrite(t)
        BY <2>1, <4>2 DEF RunWrite, Continues
      <4>3. CASE StorageFails(t)
        <5>1. task'[t].io = "no"
          BY <1>1, <4>3, ReplyContinues DEF StorageFails, Answer, Continues
        <5> QED BY <5>1 DEF At
      <4>4. CASE task[t].io \notin {"write", "yes", "no"}
        BY <2>1, <4>1, <4>4 DEF Continues, At
      <4> QED BY <1>2, <2>4, <4>2, <4>3, <4>4
              DEF Executor, RunExists, TakeSnapshot, RunStore, StoreFails
    <3> QED BY <1>1, <2>1, <2>2, <3>1, <3>2 DEF BytesSaved, At, Continues, OthersWait
  <2> QED BY <2>3, <2>4
<1>3. ASSUME NEW t \in Tasks, Passes(t)
      PROVE  BytesSaved'
  <2>1. OthersWait(t) /\ artifacts' = artifacts
    BY <1>3 DEF Passes
  <2>2. At(t, "save", "yes")' \/ task'[t].step = "regExists" => task'[t].vid \in artifacts'
    BY <1>1, <1>3, <2>1 DEF Passes, GoesOn, Continues, At, BytesSaved, Idle
  <2> QED BY <1>1, <2>1, <2>2 DEF BytesSaved, At, OthersWait
<1>4. ASSUME NEW t \in Tasks, NEW x \in Vids, NEW rec \in Record, Writes(t, x, rec)
      PROVE  BytesSaved'
  <2>1. task'[t].step \notin {"save", "regExists"}
    BY <1>4 DEF Writes, Enters, Promotes, HandsOver, Retires
  <2> QED BY <1>1, <1>4, <2>1 DEF Writes, Saves, BytesSaved, At, OthersWait
<1>5. ASSUME NEW t \in Tasks, NEW v \in Vids, Enrols(t, v)
      PROVE  BytesSaved'
  BY <1>1, <1>5 DEF Enrols, Begins, BytesSaved, At, OthersWait
<1>6. CASE Load \/ Unload \/ Crash \/ UNCHANGED vars
  <2>1. artifacts' = artifacts /\ \A u \in Tasks : task'[u] = task[u] \/ task'[u] = Idle
    BY <1>6 DEF Load, Unload, Crash, vars
  <2> QED BY <1>1, <2>1 DEF BytesSaved, At, Idle
<1> QED BY <1>1, <1>2, <1>3, <1>4, <1>5, <1>6, StepKinds

--------------------------------------------------------------------------------

LEMMA OwnStep ==
    ASSUME OwnInv, ReuseIds = FALSE, ManagerMoves = {}, [Next]_vars
    PROVE  OwnInv'
<1>1. IInv /\ TypeOK
  BY DEF OwnInv, IInv
<1> QED BY <1>1, InvariantStep, TypeStep, CallsMatchStep, BytesOwnedStep, BytesSavedStep
        DEF OwnInv

LEMMA OwnInit == ASSUME Init PROVE OwnInv
<1>1. \A t \in Tasks : task[t] = Idle
  BY DEF Init
<1>2. CallsMatch
  BY <1>1 DEF CallsMatch, Idle, OperationsAt, CallAt, PreSteps
<1>3. BytesOwned /\ BytesSaved
  BY <1>1 DEF BytesOwned, BytesSaved, Unlinking, Erasing, At, Idle
<1> QED BY <1>2, <1>3, InvariantInit DEF OwnInv

\* Under every disturbance the bytes of an id are deleted only by the operation
\* that owns them: a clean-up deletes what nobody has registered, and no persist
\* loses the bytes it is about to register.
THEOREM BytesHaveOneOwner ==
    (ReuseIds = FALSE /\ ManagerMoves = {}) => (Spec => []OwnInv)
<1> SUFFICES ASSUME ReuseIds = FALSE, ManagerMoves = {}
             PROVE  Spec => []OwnInv
  OBVIOUS
<1>1. Init => OwnInv
  BY OwnInit
<1>2. OwnInv /\ [Next]_vars => OwnInv'
  BY OwnStep
<1> QED BY <1>1, <1>2, PTL DEF Spec

(***************************************************************************)
(* Without reloads the operations, the Store and the disk are in step.     *)
(***************************************************************************)

\* A record as it is, is a record as it was before.
LEMMA EarlierSelf ==
    ASSUME NEW reg \in Registry, GoodRegistry(reg), Blank(reg), NEW v \in Vids
    PROVE  Catalogue!Earlier(reg[v], reg[v])
<1>1. reg[v] \in Record
  BY DEF Registry
<1>2. reg[v].next # None => reg[v].state \in {"superseded", "deleted"}
  BY DEF GoodRegistry, SuccessorsPresent
<1>3. reg[v].state = "absent" => reg[v] = Catalogue!Absent
  BY DEF Blank, Present, Absent, Catalogue!Absent
<1>4. reg[v].state \in Catalogue!Later(reg[v].state)
  BY <1>1 DEF Record, Catalogue!Later, LifecycleStates, Catalogue!LifecycleStates
<1> QED BY <1>2, <1>3, <1>4 DEF Catalogue!Earlier, Catalogue!SameIdentity

\* A write takes a record on: what was earlier still is.
LEMMA EarlierWrites ==
    ASSUME OwnInv, InStep, NEW t \in Tasks, NEW x \in Vids, NEW rec \in Record,
           Writes(t, x, rec), NEW reg \in Snapshots
    PROVE  Catalogue!Earlier(reg[x], rec)
<1>1. TypeOK /\ IInv /\ loaded /\ reg \in Registry /\ reg \in Registries
  BY SnapshotMembers DEF OwnInv, IInv, Writes, Registries
<1>2. Blank(reg) /\ Catalogue!Earlier(reg[x], records[x])
  BY <1>1 DEF InStep, Behind, Everywhere
<1>3. records[x] \in Record /\ reg[x] \in Record
  BY <1>1 DEF TypeOK, Registry
<1>4. CASE reg[x].state = "absent"
  BY <1>2, <1>4 DEF Blank, Present, Absent, Catalogue!Absent, Catalogue!Earlier
<1>5. ASSUME reg[x].state # "absent" PROVE Catalogue!Earlier(reg[x], rec)
  <2>1. /\ reg[x].rev = records[x].rev /\ reg[x].root = records[x].root
        /\ reg[x].parent = records[x].parent /\ reg[x].subject = records[x].subject
        /\ records[x].state \in Later(reg[x].state)
        /\ reg[x].next = IF reg[x].state \in {"superseded", "deleted"}
                         THEN records[x].next ELSE None
    BY <1>2, <1>5 DEF Catalogue!Earlier, Catalogue!SameIdentity, Catalogue!Absent,
                      Catalogue!Later, Later, Catalogue!LifecycleStates, LifecycleStates
  <2>2. ASSUME rec.rev = records[x].rev, rec.root = records[x].root,
               rec.parent = records[x].parent, rec.subject = records[x].subject,
               rec.state \in Later(reg[x].state),
               reg[x].state \in {"superseded", "deleted"} => rec.next = records[x].next
        PROVE  Catalogue!Earlier(reg[x], rec)
    <3>1. rec.state \in Catalogue!Later(reg[x].state)
      BY <2>2 DEF Catalogue!Later, Later, Catalogue!LifecycleStates, LifecycleStates
    <3>2. reg[x].next = IF reg[x].state \in {"superseded", "deleted"}
                        THEN rec.next ELSE None
      BY <2>1, <2>2
    <3> QED BY <2>1, <2>2, <3>1, <3>2 DEF Catalogue!Earlier, Catalogue!SameIdentity
  <2>3. ~Enters(t, x, rec)
    <3>1. ASSUME Enters(t, x, rec) PROVE FALSE
      <4>1. Unregistered(x)
        BY <1>1, <3>1 DEF Enters, IInv, BeforeRegister, PreSteps
      <4> QED BY <1>1, <1>5, <4>1 DEF Unregistered, Present
    <3> QED BY <3>1
  <2>4. CASE Promotes(t, x, rec)
    <3>1. /\ rec.rev = records[x].rev /\ rec.root = records[x].root
          /\ rec.parent = records[x].parent /\ rec.subject = records[x].subject
          /\ rec.state = "active" /\ records[x].state = "pending"
      BY <1>3, <2>4 DEF Promotes, WithState, Record
    <3>2. reg[x].state = "pending"
      BY <1>3, <1>5, <2>1, <3>1 DEF Later, Record, LifecycleStates
    <3> QED BY <2>2, <3>1, <3>2 DEF Later, LifecycleStates
  <2>5. CASE HandsOver(t, x, rec)
    <3>1. /\ rec.rev = records[x].rev /\ rec.root = records[x].root
          /\ rec.parent = records[x].parent /\ rec.subject = records[x].subject
          /\ rec.state = "superseded" /\ records[x].state = "active"
      BY <1>3, <2>5 DEF HandsOver, SupersededBy, Active, Record
    <3>2. reg[x].state \in {"pending", "active", "inactive"}
      BY <1>3, <1>5, <2>1, <3>1 DEF Later, Record, LifecycleStates
    <3> QED BY <2>2, <3>1, <3>2 DEF Later, LifecycleStates
  <2>6. CASE Retires(t, x, rec)
    <3>1. /\ rec.rev = records[x].rev /\ rec.root = records[x].root
          /\ rec.parent = records[x].parent /\ rec.subject = records[x].subject
          /\ rec.state = "deleted" /\ rec.next = records[x].next
      BY <1>3, <2>6 DEF Retires, WithState, Record
    <3>2. rec.state \in Later(reg[x].state)
      BY <1>3, <1>5, <3>1 DEF Later, Record, LifecycleStates
    <3> QED BY <2>2, <3>1, <3>2
  <2> QED BY <2>3, <2>4, <2>5, <2>6 DEF Writes
<1> QED BY <1>4, <1>5

LEMMA InStepWrites ==
    ASSUME OwnInv, OwnInv', InStep, NEW t \in Tasks, NEW x \in Vids, NEW rec \in Record,
           Writes(t, x, rec)
    PROVE  InStep'
<1>1. /\ TypeOK /\ TypeOK' /\ loaded /\ loaded' /\ epoch' = epoch /\ epoch \in Epochs
      /\ OthersWait(t) /\ task'[t].epoch = epoch
  BY DEF OwnInv, IInv, TypeOK, Writes, Saves
<1>2. /\ records'[x] = rec
      /\ \A w \in Vids : w # x => records'[w] = records[w]
      /\ Registries' \subseteq Snapshots \cup {records'}
  BY <1>1, WriteEffect
<1>3. \A e \in Epochs : unsaved'[e] # None => loaded' /\ e = epoch' /\ unsaved'[e] = records'
  BY <1>1 DEF InStep, Writes, Saves, TypeOK
<1>4. \A u \in Tasks : task'[u].step # "idle" => Live(u)'
  BY <1>1 DEF InStep, Live, OthersWait
<1>5. rec.state # "absent"
  <2>1. records[x] \in Record
    BY <1>1 DEF TypeOK, Registry
  <2> QED BY <2>1 DEF Writes, Enters, Promotes, HandsOver, Retires, WithState, SupersededBy, Record
<1>6. Blank(records')
  BY <1>2, <1>5 DEF InStep, Everywhere, Registries, Blank, Present
<1>7. \A reg \in Snapshots : Blank(reg)
  BY DEF InStep, Everywhere, Registries
<1>8. Everywhere(Blank)'
  BY <1>2, <1>6, <1>7 DEF Everywhere
<1>9. \A reg \in Snapshots, v \in Vids : Catalogue!Earlier(reg[v], records'[v])
  BY <1>1, <1>2, EarlierWrites DEF InStep, Behind
<1>10. \A v \in Vids : Catalogue!Earlier(records'[v], records'[v])
  <2>1. records' \in Registry /\ GoodRegistry(records')
    BY <1>1 DEF TypeOK, OwnInv, IInv, GoodRegistries, Everywhere, Registries
  <2> QED BY <1>6, <2>1, EarlierSelf
<1>11. \A reg \in Snapshots' : Behind(reg)'
  BY <1>2, <1>9, <1>10 DEF Registries, Behind
<1> QED BY <1>3, <1>4, <1>8, <1>11 DEF InStep

\* Steps that write no record.
LEMMA InStepQuiet ==
    ASSUME OwnInv, InStep, NEW t \in Tasks,
           (\E v \in Vids : Enrols(t, v)) \/ Passes(t) \/ Executor(t)
    PROVE  InStep'
<1>1. TypeOK /\ CallsMatch
  BY DEF OwnInv, IInv
<1>2. /\ UNCHANGED <<records, loaded, epoch>> /\ OthersWait(t)
      /\ \A e \in Epochs : unsaved'[e] \in {unsaved[e], None}
  <2>1. CASE Executor(t)
    BY <1>1, <2>1, ExecutorReplies
       DEF Executor, RunExists, RunWrite, RunUnlink, StorageFails, TakeSnapshot, RunStore,
           StoreFails, TypeOK
  <2> QED BY <2>1 DEF Enrols, Passes
<1>3. task'[t].step # "idle" => Live(t)'
  <2>1. CASE \E v \in Vids : Enrols(t, v)
    BY <1>2, <2>1 DEF Enrols, Begins, Live
  <2>2. CASE Executor(t)
    BY <1>1, <1>2, <2>2, ExecutorReplies DEF Replies, Continues, InStep, Live
  <2>3. ASSUME NEW step, NEW io, GoesOn(t, step, io), Continues(t, step, io)
        PROVE  Live(t)'
    <3>1. task[t].step # "idle"
      BY <1>1, <2>3 DEF GoesOn, At, CallsMatch, OperationsAt
    <3> QED BY <1>2, <2>3, <3>1 DEF InStep, Live, Continues
  <2> QED BY <2>1, <2>2, <2>3 DEF Passes, Idle
<1>4. \A u \in Tasks : task'[u].step # "idle" => Live(u)'
  BY <1>2, <1>3 DEF InStep, Live, OthersWait
<1>5. Registries' \subseteq Registries
  BY <1>1, QuietRegistries
<1>6. Everywhere(Blank)'
  BY <1>5 DEF InStep, Everywhere
<1>7. loaded => \A reg \in Registries : Behind(reg)
  <2>1. records \in Registry /\ GoodRegistry(records) /\ Blank(records)
    BY <1>1 DEF TypeOK, OwnInv, IInv, GoodRegistries, InStep, Everywhere, Registries
  <2>2. Behind(records)
    BY <2>1, EarlierSelf DEF Behind
  <2> QED BY <2>2 DEF InStep, Registries
<1>8. loaded' => \A reg \in Snapshots' : Behind(reg)'
  BY <1>2, <1>5, <1>7 DEF Registries, Behind
<1>9. \A e \in Epochs : unsaved'[e] # None => loaded' /\ e = epoch' /\ unsaved'[e] = records'
  BY <1>2 DEF InStep
<1> QED BY <1>4, <1>6, <1>8, <1>9 DEF InStep

\* Before set-up nothing is in flight.
LEMMA QuietBefore ==
    ASSUME TypeOK, InStep, ~loaded
    PROVE  /\ \A t \in Tasks : task[t] = Idle
           /\ \A e \in Epochs : unsaved[e] = None
           /\ Snapshots = {disk}
<1>1. /\ \A t \in Tasks : task[t] = Idle
      /\ \A e \in Epochs : unsaved[e] = None
  BY DEF InStep, Live, TypeOK
<1>2. \A t \in Tasks : task[t].snap = None
  BY <1>1 DEF Idle
<1>3. disk # None
  BY SnapshotAssumption DEF TypeOK
<1> QED BY <1>1, <1>2, <1>3 DEF Snapshots

\* Without reloads, what is in flight, what the Store has to write and what is on
\* disk belong to the loaded instance.
LEMMA InStepStep ==
    ASSUME OwnInv, InStep, "reload" \notin Disturbances, ReuseIds = FALSE, ManagerMoves = {},
           [Next]_vars
    PROVE  InStep'
<1>1. TypeOK /\ IInv /\ CallsMatch /\ OwnInv'
  BY OwnStep DEF OwnInv, IInv
<1>2. CASE Load
  <2>1. /\ \A u \in Tasks : task[u] = Idle
        /\ \A e \in Epochs : unsaved[e] = None
        /\ Snapshots = {disk}
    BY <1>1, <1>2, QuietBefore DEF Load
  <2>2. records' = disk /\ UNCHANGED <<disk, unsaved, task>>
    BY <1>2 DEF Load
  <2>3. Snapshots' = {disk}
    BY <2>1, <2>2 DEF Snapshots
  <2>4. disk \in Registry /\ GoodRegistry(disk) /\ Blank(disk)
    BY <1>1, <2>1 DEF TypeOK, IInv, GoodRegistries, InStep, Everywhere, Registries
  <2>5. Everywhere(Blank)'
    BY <2>2, <2>3, <2>4 DEF Everywhere, Registries
  <2>6. \A reg \in Snapshots' : Behind(reg)'
    BY <2>2, <2>3, <2>4, EarlierSelf DEF Behind
  <2>7. \A u \in Tasks : task'[u].step = "idle"
    BY <2>1, <2>2 DEF Idle
  <2> QED BY <2>1, <2>2, <2>5, <2>6, <2>7 DEF InStep
<1>3. CASE Crash
  <2>1. Registries' \subseteq Registries \cup {EmptyRegistry}
    BY <1>1, <1>3, LifeRegistries
  <2>2. Blank(EmptyRegistry)
    BY DEF Blank, EmptyRegistry
  <2>3. Everywhere(Blank)'
    BY <2>1, <2>2 DEF InStep, Everywhere
  <2> QED BY <1>3, <2>3 DEF Crash, InStep, Idle
<1>4. ~Unload
  BY DEF Unload
<1>5. CASE UNCHANGED vars
  BY <1>5 DEF vars, InStep, Live, Everywhere, Registries, Snapshots, Behind, Blank, Present
<1> QED BY <1>1, <1>2, <1>3, <1>4, <1>5, StepKinds, InStepWrites, InStepQuiet

LEMMA InStepInit == ASSUME Init PROVE InStep
<1>1. \A t \in Tasks : task[t].step = "idle" /\ task[t].snap = None
  BY DEF Init, Idle
<1>2. Registries = {EmptyRegistry} \/ Registries = {EmptyRegistry} \ {None}
  BY <1>1 DEF Init, Registries, Snapshots
<1>3. Everywhere(Blank)
  BY <1>2 DEF Everywhere, Blank, EmptyRegistry
<1> QED BY <1>1, <1>3 DEF Init, InStep

LEMMA InStepHolds ==
    ASSUME ReuseIds = FALSE, ManagerMoves = {}, "reload" \notin Disturbances
    PROVE  Spec => [](OwnInv /\ InStep)
<1>1. Init => OwnInv /\ InStep
  BY OwnInit, InStepInit
<1>2. (OwnInv /\ InStep) /\ [Next]_vars => (OwnInv /\ InStep)'
  BY OwnStep, InStepStep
<1> QED BY <1>1, <1>2, PTL DEF Spec

(***************************************************************************)
(* The operations implement the catalogue.                                 *)
(***************************************************************************)

\* Each write is one of the catalogue's.
LEMMA WritesRefine ==
    ASSUME OwnInv, NEW t \in Tasks, NEW x \in Vids, NEW rec \in Record, Writes(t, x, rec)
    PROVE  Catalogue!CatalogueNext
<1>1. TypeOK /\ IInv /\ loaded /\ loaded'
  BY DEF OwnInv, IInv, Writes
<1>2. /\ records' = [records EXCEPT ![x] = rec] /\ records[x] \in Record
      /\ UNCHANGED loaded
  BY <1>1 DEF Writes, Saves, TypeOK, Registry
<1>3. CASE Enters(t, x, rec)
  <2>1. /\ rec.state = "pending"
        /\ rec.next = None
        /\ ~Present(records, x)
    BY <1>3 DEF Enters
  <2>2. CASE rec.parent = None
    <3>1. rec.subject \in Subjects /\ rec.root = x /\ rec.rev = 1
      BY <1>3, <2>2 DEF Enters, Fits
    <3>2. rec = Catalogue!InitialRecord(x, rec.subject)
      BY <2>1, <2>2, <3>1 DEF Catalogue!InitialRecord, Record
    <3>3. Catalogue!Enter(x)
      BY <1>1, <1>2, <2>1, <3>1, <3>2 DEF Catalogue!Enter, Catalogue!Present, Present
    <3> QED BY <1>2, <3>3 DEF Catalogue!CatalogueNext, Catalogue!Write
  <2>3. CASE rec.parent # None
    <3>1. /\ rec.parent \in Vids
          /\ Present(records, rec.parent)
          /\ records[rec.parent].root = rec.root
          /\ records[rec.parent].subject = rec.subject
          /\ rec.rev = records[rec.parent].rev + 1
      BY <1>3, <2>3 DEF Enters, Fits, Record
    <3>2. rec = Catalogue!NextRecord(records, rec.parent)
      BY <2>1, <3>1 DEF Catalogue!NextRecord, Record
    <3>3. Catalogue!Enter(x)
      BY <1>1, <1>2, <2>1, <3>1, <3>2 DEF Catalogue!Enter, Catalogue!Present, Present
    <3> QED BY <1>2, <3>3 DEF Catalogue!CatalogueNext, Catalogue!Write
  <2> QED BY <2>2, <2>3
<1>4. CASE Promotes(t, x, rec)
  <2>1. Catalogue!Promote(x)
    BY <1>1, <1>2, <1>4
       DEF Promotes, Catalogue!Promote, Catalogue!CanMove, Catalogue!AllowedTransitions,
           Catalogue!LineageConflict, Catalogue!Active, Active, Catalogue!WithState, WithState
  <2> QED BY <1>2, <2>1 DEF Catalogue!CatalogueNext, Catalogue!Write
<1>5. CASE HandsOver(t, x, rec)
  <2>1. Catalogue!HandOver(x, task'[t].vid)
    BY <1>1, <1>2, <1>5
       DEF HandsOver, Catalogue!HandOver, Catalogue!Active, Active, Catalogue!Present,
           Present, Catalogue!SupersededBy, SupersededBy
  <2>2. task'[t].vid \in Vids
    BY <1>5 DEF HandsOver
  <2> QED BY <1>2, <2>1, <2>2 DEF Catalogue!CatalogueNext, Catalogue!Write
<1>6. CASE Retires(t, x, rec)
  <2>1. Catalogue!Withdraw(x, "deleted")
    BY <1>1, <1>2, <1>6
       DEF Retires, Catalogue!Withdraw, Catalogue!CanMove, Catalogue!AllowedTransitions,
           Catalogue!WithState, WithState
  <2> QED BY <1>2, <2>1 DEF Catalogue!CatalogueNext, Catalogue!Write, Catalogue!AllWithdrawals
<1> QED BY <1>3, <1>4, <1>5, <1>6 DEF Writes

\* A record that is earlier than another is one of its pasts.
LEMMA EarlierIsPast ==
    ASSUME NEW before \in Record, NEW now \in Record, Catalogue!Earlier(before, now),
           before.state \in ServiceStates, before.state = "absent" => before = Absent
    PROVE  before \in Catalogue!Past(now, Catalogue!AllWithdrawals)
<1>1. CASE before.state = "absent"
  <2>1. before = Catalogue!Absent
    BY <1>1 DEF Catalogue!Absent, Absent
  <2> QED BY <2>1 DEF Catalogue!Past
<1>2. CASE before.state # "absent"
  <2>1. /\ before.rev = now.rev /\ before.root = now.root /\ before.parent = now.parent
        /\ before.subject = now.subject
        /\ before.next \in {None, now.next}
    BY <1>2 DEF Catalogue!Earlier, Catalogue!SameIdentity, Catalogue!Absent
  <2>2. before.state \in {"pending", "active", "superseded"} \cup Catalogue!AllWithdrawals
    BY <1>2 DEF ServiceStates, Catalogue!AllWithdrawals
  <2>3. before \in [state   : {"pending", "active", "superseded"} \cup Catalogue!AllWithdrawals,
                    subject : {now.subject},
                    root    : {now.root},
                    parent  : {now.parent},
                    rev     : {now.rev},
                    next    : {None, now.next}]
    BY <2>1, <2>2 DEF Record
  <2> QED BY <2>3 DEF Catalogue!Past
<1> QED BY <1>1, <1>2

\* The process dies: what is left is what was on disk.
LEMMA CrashRefines ==
    ASSUME OwnInv, InStep, Crash
    PROVE  Catalogue!CatalogueNext \/ UNCHANGED <<IF loaded THEN records ELSE disk, loaded>>
<1>1. CASE ~loaded
  <2>1. loaded' = loaded /\ disk' = disk
    BY <1>1 DEF Crash, OwnInv, IInv, TypeOK
  <2> QED BY <1>1, <2>1
<1>2. CASE loaded
  <2>1. TypeOK /\ disk \in Snapshots /\ disk \in Registries
    BY SnapshotMembers DEF OwnInv, IInv, Registries
  <2>2. ~loaded' /\ disk' = disk
    BY <1>2 DEF Crash
  <2>3. GoodRegistry(disk) /\ Blank(disk) /\ disk \in Registry
    BY <2>1 DEF OwnInv, IInv, TypeOK, GoodRegistries, InStep, Everywhere
  <2>4. \A v \in Vids : disk[v] \in Catalogue!Past(records[v], Catalogue!AllWithdrawals)
    <3>1. \A v \in Vids : Catalogue!Earlier(disk[v], records[v])
      BY <1>2, <2>1 DEF InStep, Behind
    <3>2. \A v \in Vids : disk[v] \in Record /\ records[v] \in Record
      BY <2>1 DEF TypeOK, Registry
    <3>3. \A v \in Vids : disk[v].state \in ServiceStates
      BY <2>3 DEF GoodRegistry, OnlyServiceStates
    <3>4. \A v \in Vids : disk[v].state = "absent" => disk[v] = Absent
      BY <2>3 DEF Blank, Present
    <3> QED BY <3>1, <3>2, <3>3, <3>4, EarlierIsPast
  <2>5. /\ Catalogue!ParentsPresent(disk)
        /\ Catalogue!SuccessorsPresent(disk)
        /\ Catalogue!OneActivePerLineage(disk)
    BY <2>3 DEF GoodRegistry, ParentsPresent, SuccessorsPresent, OneActivePerLineage, Active,
                Present, Catalogue!ParentsPresent, Catalogue!SuccessorsPresent,
                Catalogue!OneActivePerLineage, Catalogue!Active, Catalogue!Present
  <2>6. Catalogue!Stop(Catalogue!AllWithdrawals)
    <3> DEFINE past == [v \in Vids |-> Catalogue!Past(records[v], Catalogue!AllWithdrawals)]
    <3>1. \A v \in Vids : disk[v] \in past[v]
      BY <2>4
    <3>2. disk \in [Vids -> UNION {past[v] : v \in Vids}]
      <4>1. \A v \in Vids : disk[v] \in UNION {past[w] : w \in Vids}
        BY <3>1
      <4>2. disk = [v \in Vids |-> disk[v]]
        BY <2>3 DEF Registry
      <4> QED BY <4>1, <4>2
    <3> HIDE DEF past
    <3>3. disk \in {reg \in [Vids -> UNION {past[v] : v \in Vids}] :
                      /\ \A v \in Vids : reg[v] \in past[v]
                      /\ Catalogue!ParentsPresent(reg)
                      /\ Catalogue!SuccessorsPresent(reg)
                      /\ Catalogue!OneActivePerLineage(reg)}
      BY <2>5, <3>1, <3>2
    <3> QED BY <1>2, <2>2, <3>3 DEF Catalogue!Stop, past
  <2> QED BY <2>6 DEF Catalogue!CatalogueNext
<1> QED BY <1>1, <1>2

LEMMA StepRefines ==
    ASSUME OwnInv, InStep, "reload" \notin Disturbances, ReuseIds = FALSE, ManagerMoves = {},
           [Next]_vars
    PROVE  Catalogue!CatalogueNext \/ UNCHANGED <<IF loaded THEN records ELSE disk, loaded>>
<1>1. TypeOK /\ IInv /\ CallsMatch
  BY DEF OwnInv, IInv
<1>2. ASSUME NEW t \in Tasks, (\E v \in Vids : Enrols(t, v)) \/ Passes(t)
      PROVE  UNCHANGED <<IF loaded THEN records ELSE disk, loaded>>
  BY <1>2 DEF Enrols, Passes
<1>3. ASSUME NEW t \in Tasks, Executor(t)
      PROVE  UNCHANGED <<IF loaded THEN records ELSE disk, loaded>>
  <2>1. UNCHANGED <<records, loaded>> /\ task[t].step # "idle"
    BY <1>1, <1>3, ExecutorReplies
  <2>2. loaded
    BY <2>1 DEF InStep, Live
  <2> QED BY <2>1, <2>2
<1>4. CASE Load
  <2>1. Catalogue!SetUp
    BY <1>4 DEF Load, Catalogue!SetUp
  <2> QED BY <2>1 DEF Catalogue!CatalogueNext
<1>5. ~Unload
  BY DEF Unload
<1>6. CASE UNCHANGED vars
  BY <1>6 DEF vars
<1> QED BY <1>1, <1>2, <1>3, <1>4, <1>5, <1>6, StepKinds, WritesRefine, CrashRefines

\* For a reader of list_records the operations are the catalogue, for every set of
\* ids and tasks and under timeouts, crashes and I/O faults: as long as the
\* integration is up it changes one record at a time along the lifecycle and never
\* has two active records in a lineage; only when the process dies can changes be
\* lost, and then every record is as it was or as it was before.
THEOREM OperationsImplementCatalogue ==
    (ReuseIds = FALSE /\ ManagerMoves = {} /\ "reload" \notin Disturbances)
        => (Spec => ImplementsCatalogue)
<1> SUFFICES ASSUME ReuseIds = FALSE, ManagerMoves = {}, "reload" \notin Disturbances
             PROVE  Spec => ImplementsCatalogue
  OBVIOUS
<1>1. Init => Catalogue!CatalogueInit
  BY DEF Init, Catalogue!CatalogueInit, EmptyRegistry, Catalogue!EmptyRegistry, Absent,
         Catalogue!Absent
<1>2. (OwnInv /\ InStep) /\ [Next]_vars
        => [Catalogue!CatalogueNext]_(Catalogue!catalogueVars)
  BY StepRefines DEF Catalogue!catalogueVars
<1> QED BY <1>1, <1>2, InStepHolds, PTL
        DEF Spec, ImplementsCatalogue, Catalogue!CatalogueSpec

(***************************************************************************)
(* Without timeouts either, the Store's lock keeps the snapshots in order. *)
(***************************************************************************)

\* Later is a preorder.
LEMMA LaterOfLater ==
    ASSUME NEW a \in LifecycleStates \cup {"absent"}, NEW b, NEW c,
           b \in Later(a), c \in Later(b)
    PROVE  c \in Later(a)
BY DEF Later, LifecycleStates

LEMMA LaterThanItself ==
    ASSUME NEW a \in LifecycleStates \cup {"absent"}
    PROVE  a \in Later(a)
BY DEF Later, LifecycleStates

\* A write takes every record to a later state.
LEMMA WritesAdvance ==
    ASSUME OwnInv, NEW t \in Tasks, NEW x \in Vids, NEW rec \in Record, Writes(t, x, rec),
           NEW w \in Vids
    PROVE  records'[w].state \in Later(records[w].state)
<1>1. TypeOK
  BY DEF OwnInv, IInv
<1>2. records[w] \in Record /\ records[x] \in Record
  BY <1>1 DEF TypeOK, Registry
<1>3. records'[x] = rec /\ (w # x => records'[w] = records[w])
  BY <1>1, WriteEffect
<1>4. CASE w # x
  BY <1>2, <1>3, <1>4, LaterThanItself DEF Record
<1>5. rec.state \in Later(records[x].state)
  <2>1. CASE Enters(t, x, rec)
    BY <2>1 DEF Enters, Present, Later, LifecycleStates
  <2>2. CASE Promotes(t, x, rec)
    BY <1>2, <2>2 DEF Promotes, WithState, Record, Later, LifecycleStates
  <2>3. CASE HandsOver(t, x, rec)
    BY <1>2, <2>3 DEF HandsOver, Active, SupersededBy, Record, Later, LifecycleStates
  <2>4. CASE Retires(t, x, rec)
    BY <1>2, <2>4 DEF Retires, WithState, Record, Later, LifecycleStates
  <2> QED BY <2>1, <2>2, <2>3, <2>4 DEF Writes
<1> QED BY <1>3, <1>4, <1>5

\* The registry in memory is not behind any snapshot.
LEMMA RegistryIsLater ==
    ASSUME OwnInv, InStep, loaded, NEW reg \in Snapshots, NEW v \in Vids
    PROVE  records[v].state \in Later(reg[v].state)
<1>1. records[v].state \in LifecycleStates \cup {"absent"}
  BY DEF OwnInv, IInv, TypeOK, Registry, Record
<1>2. Catalogue!Earlier(reg[v], records[v])
  BY DEF InStep, Behind
<1>3. CASE reg[v] = Catalogue!Absent
  BY <1>1, <1>3 DEF Catalogue!Absent, Later, LifecycleStates
<1>4. CASE reg[v] # Catalogue!Absent
  BY <1>2, <1>4
     DEF Catalogue!Earlier, Catalogue!Later, Later, Catalogue!LifecycleStates, LifecycleStates
<1> QED BY <1>3, <1>4

\* Without reloads an operation that waits for a snapshot to be written, or for the
\* lock, is at a save.
LEMMA AtASave ==
    ASSUME OwnInv, NoneAbandoned, NEW t \in Tasks,
           task[t].snap # None \/ task[t].io \in {"store", "lock"}
    PROVE  task[t].step \in SaveSteps
BY DEF OwnInv, IInv, TypeOK, Task, Steps, CallsMatch, CallAt, Answers, Waiting, SaveSteps,
       NoneAbandoned

\* What the executor does beside taking a snapshot and writing one.
LEMMA OtherCalls ==
    ASSUME TypeOK, NEW t \in Tasks, Executor(t), ~TakeSnapshot(t), ~RunStore(t)
    PROVE  /\ UNCHANGED <<disk, unsaved>>
           /\ task[t].io \in Waiting
           /\ "writeFault" \notin Disturbances => task[t].io # "store"
           /\ task'[t].snap = None
           /\ task'[t].io \in Answers
<1>1. \E answer \in Answers : Answer(t, answer)
  BY DEF Executor, RunExists, RunWrite, RunUnlink, StorageFails, StoreFails, Answers
<1>2. task'[t].snap = None /\ task'[t].io \in Answers
  BY <1>1, ReplyContinues DEF Answer, Continues
<1> QED BY <1>2 DEF Executor, RunExists, RunWrite, RunUnlink, StorageFails, StoreFails, Waiting

LEMMA Stores ==
    ASSUME TypeOK, NEW t \in Tasks, RunStore(t)
    PROVE  /\ disk' = task[t].snap
           /\ unsaved' = unsaved
           /\ task[t].snap # None
           /\ task'[t].snap = None
           /\ task'[t].io = "yes"
<1>1. task[t].snap # None
  BY DEF RunStore, TypeOK
<1> QED BY <1>1, ReplyContinues DEF RunStore, Answer, Continues

LEMMA Takes ==
    ASSUME OwnInv, InStep, NoneAbandoned, NEW t \in Tasks, TakeSnapshot(t)
    PROVE  /\ loaded /\ disk' = disk
           /\ task[t].io = "lock" /\ task[t].snap = None
           /\ \A u \in Tasks \ {t} : task[u].step \in SaveSteps => task[u].io = "lock"
           /\ \A u \in Tasks : task[u].snap = None
           /\ unsaved'[epoch] = None
           /\ task'[t].snap = unsaved[epoch]
           /\ task'[t].io = IF unsaved[epoch] = None THEN "yes" ELSE "store"
           /\ unsaved[epoch] # None => unsaved[epoch] = records
<1>1. TypeOK /\ task[t].io = "lock" /\ task[t].snap = None
  BY DEF TakeSnapshot, OwnInv, IInv, TypeOK
<1>2. Live(t) /\ epoch \in Epochs
  BY <1>1, WaitingTask DEF InStep, TypeOK
<1>3. \A u \in Tasks \ {t} : task[u].step \in SaveSteps => task[u].io = "lock"
  BY <1>2 DEF TakeSnapshot, InStep, Live, SaveSteps
<1>4. \A u \in Tasks : task[u].snap = None
  BY <1>1, <1>3, AtASave DEF TypeOK
<1>5. /\ task'[t].snap = unsaved[epoch]
      /\ task'[t].io = IF unsaved[epoch] = None THEN "yes" ELSE "store"
  BY <1>1, <1>2, ReplyContinues DEF TakeSnapshot, Continues, Live
<1>6. unsaved'[epoch] = None /\ disk' = disk
  BY <1>1, <1>2 DEF TakeSnapshot, Live, TypeOK
<1> QED BY <1>1, <1>2, <1>3, <1>4, <1>5, <1>6 DEF InStep, Live

\* An operation that writes no record keeps its snapshot, which is none if it ends.
LEMMA PassesKeep ==
    ASSUME OwnInv, "timeout" \notin Disturbances, NEW t \in Tasks,
           (\E v \in Vids : Enrols(t, v)) \/ Passes(t)
    PROVE  /\ UNCHANGED <<records, loaded, epoch, disk, unsaved>>
           /\ OthersWait(t)
           /\ task'[t].snap = task[t].snap
           /\ task'[t].step \notin SaveSteps \cup {"abandoned"}
<1>1. CASE \E v \in Vids : Enrols(t, v)
  BY <1>1 DEF Enrols, Begins, Idle, SaveSteps
<1>2. CASE Passes(t)
  <2>1. CASE task'[t] = Idle
    <3>1. task[t].snap = None
      BY <1>2, <2>1 DEF Passes, MayEnd, GoesOn, Continues, Idle, Answers, OwnInv, IInv, TypeOK
    <3> QED BY <1>2, <2>1, <3>1 DEF Passes, Idle, SaveSteps
  <2>2. CASE task'[t] # Idle
    BY <1>2, <2>2 DEF Passes, GoesOn, Continues, SaveSteps
  <2> QED BY <2>1, <2>2
<1> QED BY <1>1, <1>2

\* A timeout is the only way to abandon a call.
LEMMA AbandonedStep ==
    ASSUME OwnInv, NoneAbandoned, "timeout" \notin Disturbances,
           ReuseIds = FALSE, ManagerMoves = {}, [Next]_vars
    PROVE  NoneAbandoned'
<1>1. TypeOK /\ IInv /\ CallsMatch
  BY DEF OwnInv, IInv
<1>2. ASSUME NEW t \in Tasks, task'[t].step # "abandoned", OthersWait(t)
      PROVE  NoneAbandoned'
  BY <1>2 DEF NoneAbandoned, OthersWait
<1>3. ASSUME NEW t \in Tasks, Executor(t)
      PROVE  NoneAbandoned'
  BY <1>1, <1>2, <1>3, ExecutorReplies DEF Replies, Continues, NoneAbandoned
<1>4. ASSUME NEW t \in Tasks, (\E v \in Vids : Enrols(t, v)) \/ Passes(t)
      PROVE  NoneAbandoned'
  BY <1>2, <1>4, PassesKeep
<1>5. ASSUME NEW t \in Tasks, NEW x \in Vids, NEW rec \in Record, Writes(t, x, rec)
      PROVE  NoneAbandoned'
  BY <1>2, <1>5 DEF Writes, Saves, Enters, Promotes, HandsOver, Retires
<1>6. CASE Load \/ Unload \/ Crash \/ UNCHANGED vars
  BY <1>6 DEF NoneAbandoned, Load, Unload, Crash, vars, Idle
<1> QED BY <1>1, <1>3, <1>4, <1>5, <1>6, StepKinds

\* Who writes finds the lock free, or waits for it.
LEMMA SaversWait ==
    ASSUME OwnInv, InStep, NEW t \in Tasks, NEW x \in Vids, NEW rec \in Record,
           Writes(t, x, rec)
    PROVE  /\ task'[t].io = IF StoreFree(t) THEN "store" ELSE "lock"
           /\ StoreFree(t) => \A u \in Tasks \ {t} : task[u].step \notin SaveSteps
<1>1. \A u \in Tasks : task[u].step \in SaveSteps => task[u].epoch = epoch
  BY DEF InStep, Live, SaveSteps
<1> QED BY <1>1 DEF Writes, Saves, StoreFree

LEMMA HolderStep ==
    ASSUME OwnInv, InStep, LockInv, "timeout" \notin Disturbances,
           "reload" \notin Disturbances, ReuseIds = FALSE, ManagerMoves = {}, [Next]_vars
    PROVE  OneHolder'
<1>1. TypeOK /\ IInv /\ CallsMatch /\ OneHolder /\ NoneAbandoned
  BY DEF OwnInv, IInv, LockInv
<1>2. ASSUME NEW t \in Tasks, OthersWait(t),
             (task'[t].step \in SaveSteps /\ task'[t].io # "lock") =>
                \/ task[t].step \in SaveSteps /\ task[t].io # "lock"
                \/ \A u \in Tasks \ {t} : task[u].step \in SaveSteps => task[u].io = "lock"
      PROVE  OneHolder'
  BY <1>1, <1>2 DEF OneHolder, OthersWait
<1>3. ASSUME NEW t \in Tasks, (\E v \in Vids : Enrols(t, v)) \/ Passes(t)
      PROVE  OneHolder'
  BY <1>2, <1>3, PassesKeep
<1>4. ASSUME NEW t \in Tasks, NEW x \in Vids, NEW rec \in Record, Writes(t, x, rec)
      PROVE  OneHolder'
  BY <1>1, <1>2, <1>4, SaversWait, WriteEffect
<1>5. ASSUME NEW t \in Tasks, Executor(t)
      PROVE  OneHolder'
  <2>1. OthersWait(t) /\ task'[t].step = task[t].step
    BY <1>1, <1>5, ExecutorReplies DEF Replies, Continues
  <2>2. task[t].io # "lock" \/ TakeSnapshot(t)
    BY <1>5 DEF Executor, RunExists, RunWrite, RunUnlink, StorageFails, RunStore, StoreFails
  <2>3. TakeSnapshot(t) =>
            \A u \in Tasks \ {t} : task[u].step \in SaveSteps => task[u].io = "lock"
    BY <1>1, Takes
  <2> QED BY <1>2, <2>1, <2>2, <2>3
<1>6. CASE Load \/ Crash \/ UNCHANGED vars
  BY <1>1, <1>6 DEF Load, Crash, vars, Idle, OneHolder, SaveSteps
<1>7. ~Unload
  BY DEF Unload
<1> QED BY <1>1, <1>3, <1>4, <1>5, <1>6, <1>7, StepKinds

\* No snapshot is being written beside the one that is.
LEMMA OneWriter ==
    ASSUME OwnInv, LockInv, NEW t \in Tasks, task[t].snap # None, NEW u \in Tasks \ {t}
    PROVE  /\ task[u].snap = None
           /\ task[u].step \in SaveSteps => task[u].io = "lock"
<1>1. /\ task[t].step \in SaveSteps /\ task[t].io = "store"
      /\ task[u].snap # None => task[u].step \in SaveSteps /\ task[u].io = "store"
  BY AtASave DEF LockInv, OwnInv, IInv, TypeOK
<1> QED BY <1>1 DEF LockInv, OneHolder

LEMMA ForwardStep ==
    ASSUME OwnInv, InStep, LockInv, "timeout" \notin Disturbances,
           "reload" \notin Disturbances, ReuseIds = FALSE, ManagerMoves = {}, [Next]_vars
    PROVE  Forward'
<1>1. TypeOK /\ IInv /\ CallsMatch /\ Forward /\ NoneAbandoned /\ disk \in Snapshots
  BY SnapshotMembers DEF OwnInv, IInv, LockInv
<1>2. ASSUME NEW t \in Tasks, OthersWait(t), disk' = disk,
             task'[t].snap # None =>
                \A v \in Vids : task'[t].snap[v].state \in Later(disk[v].state)
      PROVE  Forward'
  BY <1>1, <1>2 DEF Forward, OthersWait
<1>3. ASSUME NEW t \in Tasks, (\E v \in Vids : Enrols(t, v)) \/ Passes(t)
      PROVE  Forward'
  <2>1. OthersWait(t) /\ disk' = disk /\ task'[t].snap = task[t].snap
    BY <1>3, PassesKeep
  <2> QED BY <1>1, <1>2, <2>1 DEF Forward
<1>4. ASSUME NEW t \in Tasks, NEW x \in Vids, NEW rec \in Record, Writes(t, x, rec)
      PROVE  Forward'
  <2>1. \A v \in Vids : /\ records[v].state \in Later(disk[v].state)
                        /\ records'[v].state \in Later(records[v].state)
    BY <1>1, <1>4, RegistryIsLater, WritesAdvance DEF Writes
  <2>2. \A v \in Vids : disk[v].state \in LifecycleStates \cup {"absent"}
    BY <1>1 DEF TypeOK, Registry, Record
  <2>3. \A v \in Vids : records'[v].state \in Later(disk[v].state)
    BY <2>1, <2>2, LaterOfLater
  <2>4. OthersWait(t) /\ disk' = disk /\ task'[t].snap \in {None, records'}
    BY <1>4 DEF Writes, Saves
  <2> QED BY <1>2, <2>3, <2>4
<1>5. ASSUME NEW t \in Tasks, Executor(t)
      PROVE  Forward'
  <2>1. OthersWait(t)
    BY <1>1, <1>5, ExecutorReplies
  <2>2. CASE TakeSnapshot(t)
    <3>1. /\ loaded /\ disk' = disk
          /\ task'[t].snap # None => task'[t].snap = records
      BY <1>1, <2>2, Takes
    <3> QED BY <1>1, <1>2, <2>1, <3>1, RegistryIsLater
  <2>3. CASE RunStore(t)
    <3>1. task[t].snap # None /\ task'[t].snap = None
      BY <1>1, <2>3, Stores
    <3>2. \A u \in Tasks \ {t} : task'[u].snap = None
      BY <2>1, <3>1, OneWriter DEF OthersWait
    <3> QED BY <3>1, <3>2 DEF Forward
  <2>4. CASE ~TakeSnapshot(t) /\ ~RunStore(t)
    <3>1. disk' = disk /\ task'[t].snap = None
      BY <1>1, <1>5, <2>4, OtherCalls
    <3> QED BY <1>2, <2>1, <3>1
  <2> QED BY <2>2, <2>3, <2>4
<1>6. CASE Load \/ Crash \/ UNCHANGED vars
  BY <1>1, <1>6 DEF Load, Crash, vars, Idle, Forward
<1>7. ~Unload
  BY DEF Unload
<1> QED BY <1>1, <1>3, <1>4, <1>5, <1>6, <1>7, StepKinds

LEMMA LockInit == ASSUME Init PROVE LockInv
BY DEF Init, Idle, LockInv, NoneAbandoned, OneHolder, Forward, SaveSteps

LEMMA LockHolds ==
    ASSUME ReuseIds = FALSE, ManagerMoves = {}, "reload" \notin Disturbances,
           "timeout" \notin Disturbances
    PROVE  Spec => [](OwnInv /\ InStep /\ LockInv)
<1>1. Init => OwnInv /\ InStep /\ LockInv
  BY OwnInit, InStepInit, LockInit
<1>2. (OwnInv /\ InStep /\ LockInv) /\ [Next]_vars => (OwnInv /\ InStep /\ LockInv)'
  BY OwnStep, InStepStep, AbandonedStep, HolderStep, ForwardStep DEF LockInv
<1> QED BY <1>1, <1>2, PTL DEF Spec

\* Without reloads and timeouts the snapshot on disk never goes back: no write
\* takes away a record or a lifecycle move that an earlier write had made durable,
\* whatever the crashes and I/O faults.  Each of the two can take one away: an
\* operation that a reload leaves behind writes the snapshot of the cleared
\* instance, and the thread of a cancelled one the snapshot it had taken.
THEOREM DiskOnlyAdvances ==
    (/\ ReuseIds = FALSE
     /\ ManagerMoves = {}
     /\ "reload" \notin Disturbances
     /\ "timeout" \notin Disturbances) => (Spec => DiskNeverRegresses)
<1> SUFFICES ASSUME ReuseIds = FALSE, ManagerMoves = {}, "reload" \notin Disturbances,
                    "timeout" \notin Disturbances
             PROVE  Spec => DiskNeverRegresses
  OBVIOUS
<1>1. ASSUME OwnInv, InStep, LockInv, [Next]_vars
      PROVE  \A v \in Vids : disk'[v].state \in Later(disk[v].state)
  <2>1. TypeOK /\ IInv /\ CallsMatch
    BY <1>1 DEF OwnInv, IInv
  <2>2. CASE disk' = disk
    BY <2>1, <2>2, LaterThanItself DEF TypeOK, Registry, Record
  <2>3. ASSUME NEW t \in Tasks, Executor(t), disk' # disk
        PROVE  \A v \in Vids : disk'[v].state \in Later(disk[v].state)
    <3>1. ~TakeSnapshot(t)
      BY <2>3 DEF TakeSnapshot
    <3>2. RunStore(t)
      BY <2>1, <2>3, <3>1, OtherCalls
    <3>3. disk' = task[t].snap /\ task[t].snap # None
      BY <2>1, <3>2, Stores
    <3> QED BY <1>1, <3>3 DEF LockInv, Forward
  <2>4. disk' = disk \/ \E t \in Tasks : Executor(t)
    BY <1>1, <2>1, StepKinds DEF Enrols, Passes, Writes, Load, Unload, Crash, vars
  <2> QED BY <2>2, <2>3, <2>4
<1>2. (OwnInv /\ InStep /\ LockInv) /\ [Next]_vars
        => [\A v \in Vids : disk'[v].state \in Later(disk[v].state)]_vars
  BY <1>1
<1> QED BY <1>2, LockHolds, PTL DEF Spec, DiskNeverRegresses

(***************************************************************************)
(* Without write faults either, an acknowledged write is on disk, and a    *)
(* record has its artifact.                                                *)
(***************************************************************************)

\* The ids that Reached speaks of are ids.
LEMMA ReachedIds ==
    ASSUME OwnInv, InStep, NEW t \in Tasks, task[t].step # "idle"
    PROVE  task[t].vid \in Vids /\ (task[t].step = "swapSave" => task[t].prev \in Vids)
<1>1. task[t].vid \in Vids
  BY BusyTask DEF OwnInv, IInv
<1>2. task[t].step = "swapSave" => InWindow(t)
  BY DEF InStep, InWindow
<1> QED BY <1>1, <1>2 DEF OwnInv, IInv, Window

\* What a record has reached it has reached in a later registry.
LEMMA ReachedLater ==
    ASSUME OwnInv, InStep, NEW t \in Tasks, NEW reg, Reached(records, t),
           \A v \in Vids : reg[v].state \in Later(records[v].state)
    PROVE  Reached(reg, t)
<1>1. task[t].step # "idle" =>
          task[t].vid \in Vids /\ (task[t].step = "swapSave" => task[t].prev \in Vids)
  BY ReachedIds
<1>2. \A v \in Vids : records[v].state \in LifecycleStates \cup {"absent"}
  BY DEF OwnInv, IInv, TypeOK, Registry, Record
<1>3. task[t].step = "eraseSave" => reg[task[t].vid].state = "deleted"
  BY <1>1 DEF Reached, Later
<1>4. \A a \in {"pending", "superseded", "active"}, v \in Vids :
          records[v].state \in Later(a) => reg[v].state \in Later(a)
  BY LaterOfLater DEF LifecycleStates
<1> QED BY <1>1, <1>3, <1>4 DEF Reached

\* Nothing is promised at a step that awaits no save.
LEMMA NothingReached ==
    ASSUME NEW t \in Tasks, NEW reg, task[t].step \notin SaveSteps
    PROVE  Reached(reg, t)
BY DEF Reached, SaveSteps

\* The promise is about the operation's step and ids.
LEMMA ReachedKept ==
    ASSUME NEW t \in Tasks, NEW reg, Reached(reg, t), task'[t].step = task[t].step,
           task'[t].op = task[t].op, task'[t].vid = task[t].vid, task'[t].prev = task[t].prev
    PROVE  /\ reg = records' => Reached(records, t)'
           /\ reg = disk' => Reached(disk, t)'
           /\ reg = task'[t].snap => Reached(task[t].snap, t)'
BY DEF Reached

\* The newest snapshot is on disk when nobody writes one and none waits.
LEMMA SettledStep ==
    ASSUME OwnInv, InStep, LockInv, Settled, ReuseIds = FALSE, ManagerMoves = {},
           "reload" \notin Disturbances, "timeout" \notin Disturbances,
           "writeFault" \notin Disturbances, [Next]_vars
    PROVE  Settled'
<1>1. TypeOK /\ IInv /\ CallsMatch /\ TypeOK' /\ NoneAbandoned /\ epoch \in Epochs
  BY TypeStep DEF OwnInv, IInv, LockInv, TypeOK
<1>2. ASSUME NEW t \in Tasks, NEW x \in Vids, NEW rec \in Record, Writes(t, x, rec)
      PROVE  Settled'
  <2>1. /\ unsaved'[epoch'] = IF StoreFree(t) THEN None ELSE records'
        /\ task'[t].snap = IF StoreFree(t) THEN records' ELSE None
        /\ OthersWait(t)
    BY <1>1, <1>2 DEF TypeOK, Writes, Saves
  <2>2. records' # None
    BY <1>1, SnapshotAssumption DEF TypeOK
  <2>3. StoreFree(t) => \A u \in Tasks \ {t} : task'[u].snap = None
    BY <1>1, <1>2, <2>1, SaversWait, AtASave DEF OthersWait
  <2> QED BY <2>1, <2>2, <2>3 DEF Settled
<1>3. ASSUME NEW t \in Tasks, Executor(t)
      PROVE  Settled'
  <2>1. UNCHANGED <<records, loaded, epoch>> /\ OthersWait(t)
    BY <1>1, <1>3, ExecutorReplies
  <2>2. CASE TakeSnapshot(t)
    <3>1. /\ disk' = disk /\ task'[t].snap = unsaved[epoch]
          /\ \A u \in Tasks : task[u].snap = None
          /\ unsaved[epoch] # None => unsaved[epoch] = records
      BY <1>1, <2>2, Takes
    <3>2. \A u \in Tasks \ {t} : task'[u].snap = None
      BY <2>1, <3>1 DEF OthersWait
    <3> QED BY <2>1, <3>1, <3>2 DEF Settled
  <2>3. CASE RunStore(t)
    <3>1. /\ disk' = task[t].snap /\ unsaved' = unsaved
          /\ task[t].snap # None /\ task'[t].snap = None
      BY <1>1, <2>3, Stores
    <3>2. \A u \in Tasks \ {t} : task'[u].snap = None
      BY <2>1, <3>1, OneWriter DEF OthersWait
    <3> QED BY <2>1, <3>1, <3>2 DEF Settled
  <2>4. CASE ~TakeSnapshot(t) /\ ~RunStore(t)
    <3>1. UNCHANGED <<disk, unsaved>> /\ task[t].io # "store" /\ task'[t].snap = None
      BY <1>1, <1>3, <2>4, OtherCalls
    <3>2. \A u \in Tasks : task'[u].snap = task[u].snap
      BY <1>1, <2>1, <3>1 DEF OthersWait, TypeOK
    <3> QED BY <2>1, <3>1, <3>2 DEF Settled
  <2> QED BY <2>2, <2>3, <2>4
<1>4. ASSUME NEW t \in Tasks, (\E v \in Vids : Enrols(t, v)) \/ Passes(t)
      PROVE  Settled'
  <2>1. /\ UNCHANGED <<records, loaded, epoch, disk, unsaved>>
        /\ \A u \in Tasks : task'[u].snap = task[u].snap
    BY <1>4, PassesKeep DEF OthersWait
  <2> QED BY <2>1 DEF Settled
<1>5. CASE Load
  <2>1. \A u \in Tasks : task[u] = Idle
    BY <1>1, <1>5, QuietBefore DEF Load
  <2> QED BY <1>5, <2>1 DEF Load, Settled, Idle
<1>6. CASE Crash \/ UNCHANGED vars
  BY <1>6 DEF Crash, vars, Settled
<1>7. ~Unload
  BY DEF Unload
<1> QED BY <1>1, <1>2, <1>3, <1>4, <1>5, <1>6, <1>7, StepKinds

\* An acknowledged write is on disk, and stays there.
LEMMA AckStep ==
    ASSUME OwnInv, InStep, LockInv, Settled, AckInv, ReuseIds = FALSE, ManagerMoves = {},
           "reload" \notin Disturbances, "timeout" \notin Disturbances,
           "writeFault" \notin Disturbances, [Next]_vars
    PROVE  AckInv'
<1>1. TypeOK /\ IInv /\ CallsMatch /\ NoneAbandoned
  BY DEF OwnInv, IInv, LockInv
<1>2. ASSUME NEW t \in Tasks, (\E v \in Vids : Enrols(t, v)) \/ Passes(t)
      PROVE  AckInv'
  <2>1. UNCHANGED <<records, disk>> /\ OthersWait(t) /\ task'[t].step \notin SaveSteps
    BY <1>2, PassesKeep
  <2> QED BY <2>1 DEF AckInv, Reached, OthersWait, SaveSteps
<1>3. ASSUME NEW t \in Tasks, NEW x \in Vids, NEW rec \in Record, Writes(t, x, rec)
      PROVE  AckInv'
  <2>1. /\ OthersWait(t) /\ disk' = disk /\ task'[t].io \in {"store", "lock"}
        /\ task'[t].snap \in {records', None}
    BY <1>3 DEF Writes, Saves
  <2>2. \A w \in Vids : records'[w].state \in Later(records[w].state)
    BY <1>3, WritesAdvance
  <2>3. \A u \in Tasks : Reached(records', u)
    BY <2>2, ReachedLater DEF AckInv
  <2>4. Reached(records, t)'
    <3>1. /\ records'[x] = rec
          /\ records[x] \in Record
      BY <1>1, <1>3, WriteEffect DEF TypeOK, Registry
    <3>2. CASE Enters(t, x, rec)
      BY <3>1, <3>2 DEF Enters, Reached, Later, LifecycleStates
    <3>3. CASE Promotes(t, x, rec)
      BY <3>1, <3>3 DEF Promotes, WithState, Record, Reached, Later
    <3>4. CASE HandsOver(t, x, rec)
      <4>1. records'[x].state = "superseded"
        BY <3>1, <3>4 DEF HandsOver, SupersededBy, Record
      <4>2. task'[t].step = "swapSave" /\ task'[t].prev = x
        BY <3>4 DEF HandsOver
      <4> QED BY <4>1, <4>2 DEF Reached, Later
    <3>5. CASE Retires(t, x, rec)
      BY <3>1, <3>5 DEF Retires, WithState, Record, Reached
    <3> QED BY <1>3, <3>2, <3>3, <3>4, <3>5 DEF Writes
  <2>5. \A u \in Tasks \ {t} :
            /\ Reached(records, u)'
            /\ task'[u].snap # None => Reached(task[u].snap, u)'
            /\ task'[u].io = "yes" => Reached(disk, u)'
    BY <2>1, <2>3 DEF AckInv, Reached, OthersWait
  <2>6. task'[t].snap # None => Reached(task[t].snap, t)'
    BY <2>1, <2>4 DEF Reached
  <2> QED BY <2>1, <2>4, <2>5, <2>6 DEF AckInv
<1>4. ASSUME NEW t \in Tasks, Executor(t)
      PROVE  AckInv'
  <2>1. records' = records /\ OthersWait(t) /\ \E io : Continues(t, task[t].step, io)
    BY <1>1, <1>4, ExecutorReplies DEF Replies
  <2>2. \A u \in Tasks : /\ task'[u].step = task[u].step /\ task'[u].op = task[u].op
                         /\ task'[u].vid = task[u].vid /\ task'[u].prev = task[u].prev
    BY <2>1 DEF Continues, OthersWait
  <2>3. \A u \in Tasks : Reached(records, u)'
    BY <2>1, <2>2, ReachedKept DEF AckInv
  <2>4. \A u \in Tasks \ {t} : task'[u].snap # None => Reached(task[u].snap, u)'
    BY <2>1, <2>2, ReachedKept DEF AckInv, OthersWait
  <2>5. disk' = disk => \A u \in Tasks \ {t} : task'[u].io = "yes" => Reached(disk, u)'
    BY <2>1, <2>2, ReachedKept DEF AckInv, OthersWait
  <2>6. CASE TakeSnapshot(t)
    <3>1. /\ loaded /\ disk' = disk /\ task'[t].snap = unsaved[epoch]
          /\ \A u \in Tasks : task[u].snap = None
          /\ task'[t].io = IF unsaved[epoch] = None THEN "yes" ELSE "store"
          /\ unsaved[epoch] # None => unsaved[epoch] = records
      BY <1>1, <2>6, Takes
    <3>2. task'[t].io = "yes" => disk = records
      BY <3>1 DEF Settled
    <3>3. task'[t].io = "yes" => Reached(disk, t)'
      BY <2>2, <3>1, <3>2, ReachedKept DEF AckInv
    <3>4. task'[t].snap # None => Reached(task[t].snap, t)'
      BY <2>2, <3>1, ReachedKept DEF AckInv
    <3> QED BY <2>3, <2>4, <2>5, <3>1, <3>3, <3>4 DEF AckInv
  <2>7. CASE RunStore(t)
    <3>1. disk' = task[t].snap /\ task[t].snap # None /\ task'[t].snap = None
      BY <1>1, <2>7, Stores
    <3>2. Reached(disk, t)'
      BY <2>2, <3>1, ReachedKept DEF AckInv
    <3>3. \A u \in Tasks \ {t} : task'[u].io = "yes" => task'[u].step \notin SaveSteps
      BY <2>1, <3>1, OneWriter DEF OthersWait
    <3>4. \A u \in Tasks \ {t} : task'[u].io = "yes" => Reached(disk, u)'
      BY <3>3 DEF Reached, SaveSteps
    <3> QED BY <2>3, <2>4, <3>1, <3>2, <3>4 DEF AckInv
  <2>8. CASE ~TakeSnapshot(t) /\ ~RunStore(t)
    <3>1. /\ disk' = disk /\ task[t].io \in Waiting /\ task[t].io # "store"
          /\ task'[t].snap = None
      BY <1>1, <1>4, <2>8, OtherCalls
    <3>2. task'[t].step \notin SaveSteps
      BY <1>1, <2>2, <3>1 DEF CallsMatch, CallAt, SaveSteps, Waiting, Answers
    <3>3. Reached(disk, t)'
      BY <3>2 DEF Reached, SaveSteps
    <3> QED BY <2>3, <2>4, <2>5, <3>1, <3>3 DEF AckInv
  <2> QED BY <2>6, <2>7, <2>8
<1>5. CASE Load
  <2>1. \A u \in Tasks : task'[u] = Idle
    BY <1>1, <1>5, QuietBefore DEF Load
  <2> QED BY <2>1 DEF AckInv, Reached, Idle
<1>6. CASE Crash
  <2>1. \A u \in Tasks : task'[u] = Idle
    BY <1>6 DEF Crash
  <2> QED BY <2>1 DEF AckInv, Reached, Idle
<1>7. ~Unload
  BY DEF Unload
<1>8. CASE UNCHANGED vars
  BY <1>8 DEF vars, AckInv, Reached
<1> QED BY <1>1, <1>2, <1>3, <1>4, <1>5, <1>6, <1>7, <1>8, StepKinds

\* An erasure that goes on to the bytes holds the Store's lock: no snapshot is left
\* in which the record is not retired.
LEMMA AllErased ==
    ASSUME OwnInv, InStep, LockInv, AckInv, NEW t \in Tasks, At(t, "eraseSave", "yes"),
           NEW reg \in Registries
    PROVE  reg[task[t].vid].state = "deleted"
<1>1. TypeOK /\ task[t].snap = None /\ task[t].step \in SaveSteps /\ task[t].io # "lock"
  BY DEF OwnInv, IInv, TypeOK, At, SaveSteps
<1>2. \A u \in Tasks : task[u].snap = None
  BY <1>1, OneWriter
<1>3. reg = records \/ reg = disk
  BY <1>2 DEF Registries, Snapshots, InStep
<1> QED BY <1>3 DEF AckInv, Reached, At

\* An erasure has retired its record, in memory and in every snapshot, before it
\* comes to the bytes; nothing brings the record back.
LEMMA ErasedStep ==
    ASSUME OwnInv, InStep, LockInv, AckInv, ErasedEverywhere, ReuseIds = FALSE,
           ManagerMoves = {}, "reload" \notin Disturbances, "timeout" \notin Disturbances,
           [Next]_vars
    PROVE  ErasedEverywhere'
<1>1. TypeOK /\ IInv /\ CallsMatch
  BY DEF OwnInv, IInv
<1>2. ASSUME NEW t \in Tasks, (\E v \in Vids : Enrols(t, v)) \/ Passes(t)
      PROVE  ErasedEverywhere'
  <2>1. Registries' \subseteq Registries /\ OthersWait(t)
    BY <1>1, <1>2, QuietRegistries DEF Enrols, Passes
  <2>2. ASSUME Unlinking(t)', Erasing(t)'
        PROVE  \A reg \in Registries : reg[task'[t].vid].state = "deleted"
    <3>1. PICK step, io : GoesOn(t, step, io) /\ Continues(t, step, io)
      BY <1>2, <2>2 DEF Enrols, Begins, Passes, Erasing, Idle
    <3>2. task[t].op = "erase" /\ task'[t].vid = task[t].vid
      BY <2>2, <3>1 DEF Erasing, Continues
    <3>3. task[t].step \in {"eraseSave", "delExists", "delUnlink"}
      BY <1>1, <3>2 DEF CallsMatch, OperationsAt, TypeOK, Task, Steps
    <3>4. CASE task[t].step = "eraseSave"
      <4>1. At(t, "eraseSave", "yes")
        BY <3>1, <3>2, <3>4 DEF GoesOn, At
      <4> QED BY <3>2, <4>1, AllErased
    <3>5. CASE task[t].step \in {"delExists", "delUnlink"}
      BY <3>2, <3>5 DEF ErasedEverywhere, Unlinking, Erasing
    <3> QED BY <3>3, <3>4, <3>5
  <2> QED BY <2>1, <2>2 DEF ErasedEverywhere, OthersWait, Unlinking, Erasing
<1>3. ASSUME NEW t \in Tasks, NEW x \in Vids, NEW rec \in Record, Writes(t, x, rec)
      PROVE  ErasedEverywhere'
  <2>1. OthersWait(t) /\ Registries' \subseteq Snapshots \cup {records'}
    BY <1>1, <1>3, WriteEffect
  <2>2. ~Unlinking(t)'
    BY <1>3 DEF Writes, Saves, Enters, Promotes, HandsOver, Retires, Unlinking
  <2>3. \A w \in Vids : records[w].state = "deleted" => records'[w].state = "deleted"
    BY <1>3, WritesAdvance DEF Later
  <2>4. \A u \in Tasks : Unlinking(u) => task[u].vid \in Vids
    BY <1>1, BusyTask, WaitingTask DEF Unlinking
  <2>5. \A u \in Tasks, reg \in Registries' :
            (Unlinking(u) /\ Erasing(u)) => reg[task[u].vid].state = "deleted"
    BY <2>1, <2>3, <2>4 DEF ErasedEverywhere, Registries
  <2> QED BY <2>1, <2>2, <2>5 DEF ErasedEverywhere, OthersWait, Unlinking, Erasing
<1>4. ASSUME NEW t \in Tasks, Executor(t)
      PROVE  ErasedEverywhere'
  <2>1. Registries' \subseteq Registries
    BY <1>1, <1>4, QuietRegistries
  <2>2. OthersWait(t) /\ \E io \in Answers \cup {"store"} : Continues(t, task[t].step, io)
    BY <1>1, <1>4, ExecutorReplies DEF Replies
  <2> QED BY <2>1, <2>2
          DEF ErasedEverywhere, OthersWait, Continues, Unlinking, Erasing, Answers
<1>5. CASE Load
  <2>1. \A u \in Tasks : task'[u] = Idle
    BY <1>1, <1>5, QuietBefore DEF Load
  <2> QED BY <2>1 DEF ErasedEverywhere, Unlinking, Idle
<1>6. CASE Crash
  BY <1>6 DEF Crash, Idle, ErasedEverywhere, Unlinking
<1>7. ~Unload
  BY DEF Unload
<1>8. CASE UNCHANGED vars
  BY <1>8 DEF vars, ErasedEverywhere, Unlinking, Erasing, Registries, Snapshots
<1> QED BY <1>1, <1>2, <1>3, <1>4, <1>5, <1>6, <1>7, <1>8, StepKinds

\* The bytes of a record that is not deleted stay, and a record is registered when
\* its bytes are there.
LEMMA ArtifactsStep ==
    ASSUME OwnInv, InStep, ErasedEverywhere, Everywhere(HasArtifacts),
           ReuseIds = FALSE, ManagerMoves = {}, "reload" \notin Disturbances,
           "timeout" \notin Disturbances, [Next]_vars
    PROVE  Everywhere(HasArtifacts)'
<1>1. TypeOK /\ IInv /\ CallsMatch
  BY DEF OwnInv, IInv
<1>2. ASSUME artifacts \subseteq artifacts', Registries' \subseteq Registries \cup {EmptyRegistry}
      PROVE  Everywhere(HasArtifacts)'
  BY <1>2 DEF Everywhere, HasArtifacts, EmptyRegistry, Absent
<1>3. ASSUME NEW t \in Tasks, (\E v \in Vids : Enrols(t, v)) \/ Passes(t)
      PROVE  Everywhere(HasArtifacts)'
  <2>1. Registries' \subseteq Registries /\ artifacts' = artifacts
    BY <1>1, <1>3, QuietRegistries DEF Enrols, Passes
  <2> QED BY <1>2, <2>1
<1>4. ASSUME NEW t \in Tasks, NEW x \in Vids, NEW rec \in Record, Writes(t, x, rec)
      PROVE  Everywhere(HasArtifacts)'
  <2>1. /\ records'[x] = rec
        /\ \A w \in Vids : w # x => records'[w] = records[w]
        /\ Registries' \subseteq Snapshots \cup {records'}
        /\ artifacts' = artifacts
    BY <1>1, <1>4, WriteEffect DEF Writes
  <2>2. HasArtifacts(records)
    BY DEF Everywhere, Registries
  <2>3. rec.state # "deleted" => x \in artifacts
    <3>1. records[x] \in Record
      BY <1>1 DEF TypeOK, Registry
    <3>2. CASE Enters(t, x, rec)
      BY <3>2 DEF Enters, OwnInv, BytesSaved
    <3>3. CASE Promotes(t, x, rec)
      BY <2>2, <3>3 DEF Promotes, HasArtifacts
    <3>4. CASE HandsOver(t, x, rec)
      BY <2>2, <3>4 DEF HandsOver, Active, HasArtifacts
    <3>5. CASE Retires(t, x, rec)
      BY <3>1, <3>5 DEF Retires, WithState, Record
    <3> QED BY <1>4, <3>2, <3>3, <3>4, <3>5 DEF Writes
  <2>4. HasArtifacts(records)'
    BY <2>1, <2>2, <2>3 DEF HasArtifacts
  <2>5. \A reg \in Snapshots : HasArtifacts(reg)'
    BY <2>1 DEF Everywhere, Registries, HasArtifacts
  <2> QED BY <2>1, <2>4, <2>5 DEF Everywhere, HasArtifacts
<1>5. ASSUME NEW t \in Tasks, Executor(t)
      PROVE  Everywhere(HasArtifacts)'
  <2>1. Registries' \subseteq Registries
    BY <1>1, <1>5, QuietRegistries
  <2>2. CASE RunUnlink(t)
    <3>1. /\ artifacts' = artifacts \ {task[t].vid}
          /\ Unlinking(t)
      BY <2>2 DEF RunUnlink, Unlinking
    <3>2. \A reg \in Registries : reg[task[t].vid].state \in {"absent", "deleted"}
      <4>1. CASE Erasing(t)
        BY <3>1, <4>1 DEF ErasedEverywhere
      <4>2. CASE ~Erasing(t)
        BY <3>1, <4>2 DEF OwnInv, BytesOwned, OwnsBytes, Unregistered, Present
      <4> QED BY <4>1, <4>2
    <3> QED BY <2>1, <3>1, <3>2 DEF Everywhere, HasArtifacts
  <2>3. CASE ~RunUnlink(t)
    <3>1. artifacts \subseteq artifacts'
      BY <1>5, <2>3 DEF Executor, RunExists, RunWrite, StorageFails, TakeSnapshot, RunStore,
                        StoreFails
    <3> QED BY <1>2, <2>1, <3>1
  <2> QED BY <2>2, <2>3
<1>6. CASE Load \/ Crash
  <2>1. Registries' \subseteq Registries \cup {EmptyRegistry}
    BY <1>1, <1>6, LifeRegistries
  <2> QED BY <1>2, <1>6, <2>1 DEF Load, Crash
<1>7. CASE UNCHANGED vars
  BY <1>7 DEF vars, Everywhere, Registries, Snapshots, HasArtifacts
<1>8. ~Unload
  BY DEF Unload
<1> QED BY <1>1, <1>3, <1>4, <1>5, <1>6, <1>7, <1>8, StepKinds

LEMMA DurableInit == ASSUME Init PROVE DurableInv
<1>1. \A t \in Tasks : task[t] = Idle
  BY DEF Init
<1>2. Settled
  BY DEF Init, Settled
<1>3. AckInv /\ ErasedEverywhere
  BY <1>1 DEF AckInv, Reached, ErasedEverywhere, Unlinking, Idle
<1>4. Everywhere(HasArtifacts)
  <2>1. Registries \subseteq {EmptyRegistry}
    BY <1>1 DEF Init, Idle, Registries, Snapshots
  <2> QED BY <2>1 DEF Everywhere, HasArtifacts, EmptyRegistry, Absent
<1> QED BY <1>2, <1>3, <1>4, OwnInit, InStepInit, LockInit DEF DurableInv

\* The durability invariant, under crashes and storage faults.
LEMMA DurableHolds ==
    ASSUME ReuseIds = FALSE, ManagerMoves = {}, "reload" \notin Disturbances,
           "timeout" \notin Disturbances, "writeFault" \notin Disturbances
    PROVE  Spec => []DurableInv
<1>1. Init => DurableInv
  BY DurableInit
<1>2. DurableInv /\ [Next]_vars => DurableInv'
  BY OwnStep, InStepStep, AbandonedStep, HolderStep, ForwardStep, SettledStep, AckStep,
     ErasedStep, ArtifactsStep DEF DurableInv, LockInv
<1> QED BY <1>1, <1>2, PTL DEF Spec

\* What the caller of an operation has been told is saved is on disk at that moment,
\* in the state it was given or in a later one, although other operations write
\* snapshots of their own: for every number of operations, under crashes and storage
\* faults.  A write error that the Store keeps to itself, a reload under an
\* operation, or the late thread of a cancelled one, can break it.
THEOREM AcknowledgedIsDurable ==
    (/\ ReuseIds = FALSE
     /\ ManagerMoves = {}
     /\ Disturbances \subseteq {"crash", "storageFault"}) => (Spec => []AckIsDurable)
<1> SUFFICES ASSUME ReuseIds = FALSE, ManagerMoves = {},
                    Disturbances \subseteq {"crash", "storageFault"}
             PROVE  Spec => []AckIsDurable
  OBVIOUS
<1>1. DurableInv => AckIsDurable
  BY DEF DurableInv, AckInv, Reached, AckIsDurable, At
<1>2. Spec => []DurableInv
  <2>1. /\ "reload" \notin Disturbances /\ "timeout" \notin Disturbances
        /\ "writeFault" \notin Disturbances
    OBVIOUS
  <2> QED BY <2>1, DurableHolds
<1> QED BY <1>1, <1>2, PTL

\* A record that is not DELETED has its artifact, in memory and in the snapshot on
\* disk, although clean-ups and erasures of other operations delete bytes meanwhile:
\* under crashes and storage faults.  The late thread of a cancelled operation can
\* bring a record back on disk whose bytes are gone.
THEOREM RegisteredHaveArtifacts ==
    (/\ ReuseIds = FALSE
     /\ ManagerMoves = {}
     /\ Disturbances \subseteq {"crash", "storageFault"}) => (Spec => []RecordsHaveArtifacts)
<1> SUFFICES ASSUME ReuseIds = FALSE, ManagerMoves = {},
                    Disturbances \subseteq {"crash", "storageFault"}
             PROVE  Spec => []RecordsHaveArtifacts
  OBVIOUS
<1>1. DurableInv => RecordsHaveArtifacts
  <2>1. ASSUME DurableInv PROVE RecordsHaveArtifacts
    <3>1. TypeOK
      BY <2>1 DEF DurableInv, OwnInv, IInv
    <3>2. records \in Registries /\ disk \in Registries
      BY <3>1, SnapshotMembers DEF Registries
    <3> QED BY <2>1, <3>2 DEF DurableInv, Everywhere, HasArtifacts, RecordsHaveArtifacts
  <2> QED BY <2>1
<1>2. Spec => []DurableInv
  <2>1. /\ "reload" \notin Disturbances /\ "timeout" \notin Disturbances
        /\ "writeFault" \notin Disturbances
    OBVIOUS
  <2> QED BY <2>1, DurableHolds
<1> QED BY <1>1, <1>2, PTL

(***************************************************************************)
(* Without timeouts, crashes and reloads no supersession is left halfway.  *)
(***************************************************************************)

\* Somebody is about to activate p's successor.
Awaited(p, t) ==
    /\ Live(t)
    /\ task[t].step = "swapSave"
    /\ task[t].prev = p
    /\ task[t].vid = records[p].next

\* An operation between the two writes can make the second one.
LEMMA WindowCanWrite ==
    ASSUME OwnInv, InStep, NEW t \in Tasks, task[t].step = "swapSave"
    PROVE  CanWriteReplacement(t)
<1>1. Live(t) /\ InWindow(t) /\ task[t].vid \in Vids
  BY BusyTask DEF InStep, InWindow, OwnInv, IInv
<1>2. records[task[t].vid] \in Record
  BY <1>1 DEF OwnInv, IInv, TypeOK, Registry
<1>3. /\ records[task[t].vid].state = "pending"
      /\ task[t].rec = WithState(records[task[t].vid], "active")
  BY <1>1 DEF OwnInv, IInv, Window
<1> QED BY <1>1, <1>2, <1>3
        DEF CanWriteReplacement, CanUpdate, Present, SameIdentity, WithState, Record

\* A service that never stops is set up once, on an empty Store.
FirstStart == ~loaded => disk = EmptyRegistry

\* A supersession that has made its first write makes the second.
LEMMA StrandedStep ==
    ASSUME OwnInv, InStep, FirstStart, NoStrandedSuccessor,
           ReuseIds = FALSE, ManagerMoves = {},
           Disturbances \subseteq {"writeFault", "storageFault"}, [Next]_vars
    PROVE  NoStrandedSuccessor'
<1>1. TypeOK /\ IInv /\ CallsMatch
  BY DEF OwnInv, IInv
<1>2. \A p \in Vids : records[p] \in Record
  BY <1>1 DEF TypeOK, Registry
<1>3. \A p \in Vids : records[p].state = "superseded" =>
          /\ records[p].next \in Vids
          /\ Present(records, records[p].next)
  BY <1>1, <1>2, NoneAssumption
     DEF IInv, GoodRegistries, GoodRegistry, SuccessorsPresent, Record,
         Everywhere, Registries
<1>4. \A p \in Vids :
          (records[p].state = "superseded" /\ records[records[p].next].state = "pending")
              => \E t \in Tasks : Awaited(p, t)
  BY DEF NoStrandedSuccessor, Awaited
<1> SUFFICES ASSUME NEW p \in Vids,
                    records'[p].state = "superseded",
                    records'[records'[p].next].state = "pending"
             PROVE  \E t \in Tasks : Awaited(p, t)'
  BY DEF NoStrandedSuccessor, Awaited
<1>5. ASSUME NEW t \in Tasks, NEW x \in Vids, NEW rec \in Record, Writes(t, x, rec)
      PROVE  \E u \in Tasks : Awaited(p, u)'
  <2>1. /\ records'[x] = rec
        /\ \A w \in Vids : w # x => records'[w] = records[w]
        /\ UNCHANGED <<loaded, epoch>> /\ OthersWait(t)
        /\ loaded /\ task'[t].epoch = epoch
    BY <1>1, <1>5, WriteEffect DEF Writes
  <2>2. CASE p = x
    <3>1. HandsOver(t, x, rec)
      BY <1>2, <1>5, <2>1, <2>2
         DEF Writes, Enters, Promotes, HandsOver, Retires, WithState, Record
    <3>2. rec.next = task'[t].vid
      BY <1>2, <3>1 DEF HandsOver, SupersededBy, Record
    <3>3. Awaited(p, t)'
      BY <2>1, <2>2, <3>1, <3>2 DEF HandsOver, Awaited, Live
    <3> QED BY <3>3
  <2>3. CASE p # x
    <3>1. records'[p] = records[p] /\ records[p].next \in Vids
      BY <1>3, <2>1, <2>3
    <3>2. records[p].next # x /\ records[records[p].next].state = "pending"
      <4>1. CASE records[p].next = x
        <5>1. Present(records, x)
          BY <1>3, <3>1, <4>1
        <5> QED BY <1>2, <1>5, <2>1, <3>1, <4>1, <5>1
                DEF Writes, Enters, Promotes, HandsOver, Retires, WithState, SupersededBy,
                    Record
      <4> QED BY <2>1, <3>1, <4>1
    <3>3. PICK u \in Tasks : Awaited(p, u)
      BY <1>4, <3>1, <3>2
    <3>4. u # t
      BY <1>5, <3>2, <3>3 DEF Writes, Enters, Promotes, HandsOver, Retires, Awaited
    <3>5. Awaited(p, u)'
      BY <2>1, <3>1, <3>3, <3>4 DEF Awaited, Live, OthersWait
    <3> QED BY <3>5
  <2> QED BY <2>2, <2>3
<1>6. ASSUME UNCHANGED <<records, loaded, epoch>>,
             \A u \in Tasks : task[u].step = "swapSave" =>
                /\ task'[u].step = "swapSave"
                /\ task'[u].vid = task[u].vid
                /\ task'[u].prev = task[u].prev
                /\ task'[u].epoch = task[u].epoch
      PROVE  \E u \in Tasks : Awaited(p, u)'
  <2>1. PICK u \in Tasks : Awaited(p, u)
    BY <1>4, <1>6
  <2>2. Awaited(p, u)'
    BY <1>6, <2>1 DEF Awaited, Live
  <2> QED BY <2>2
<1>7. ASSUME NEW t \in Tasks, Passes(t)
      PROVE  \E u \in Tasks : Awaited(p, u)'
  <2>1. task[t].step # "swapSave"
    BY <1>7, WindowCanWrite DEF Passes, MayEnd, GoesOn, At
  <2> QED BY <1>6, <1>7, <2>1 DEF Passes, OthersWait
<1>8. ASSUME NEW t \in Tasks, NEW v \in Vids, Enrols(t, v)
      PROVE  \E u \in Tasks : Awaited(p, u)'
  BY <1>6, <1>8 DEF Enrols, Begins, Idle, OthersWait
<1>9. ASSUME NEW t \in Tasks, Executor(t)
      PROVE  \E u \in Tasks : Awaited(p, u)'
  <2>1. UNCHANGED <<records, loaded, epoch>> /\ OthersWait(t)
    BY <1>1, <1>9, ExecutorReplies
  <2>2. \E io : Continues(t, task[t].step, io)
    BY <1>1, <1>9, ExecutorReplies DEF Replies
  <2> QED BY <1>6, <2>1, <2>2 DEF Continues, OthersWait
<1>10. ~Load
  BY DEF Load, FirstStart, EmptyRegistry, Absent
<1>11. ~Unload /\ ~Crash
  BY DEF Unload, Crash
<1>12. CASE UNCHANGED vars
  BY <1>6, <1>12 DEF vars
<1> QED BY <1>1, <1>5, <1>7, <1>8, <1>9, <1>10, <1>11, <1>12, StepKinds

LEMMA FirstStartStep ==
    ASSUME OwnInv, InStep, FirstStart, ReuseIds = FALSE, ManagerMoves = {},
           Disturbances \subseteq {"writeFault", "storageFault"}, [Next]_vars
    PROVE  FirstStart'
<1>1. TypeOK /\ IInv /\ CallsMatch
  BY DEF OwnInv, IInv
<1>2. ASSUME NEW t \in Tasks, Executor(t)
      PROVE  FirstStart'
  <2>1. loaded /\ loaded' = loaded
    BY <1>1, <1>2, ExecutorReplies DEF InStep, Live
  <2> QED BY <2>1 DEF FirstStart
<1>3. ~Unload /\ ~Crash
  BY DEF Unload, Crash
<1> QED BY <1>1, <1>2, <1>3, StepKinds
        DEF FirstStart, Enrols, Passes, Writes, Load, vars

\* Without timeouts, crashes and reloads, every superseded voiceprint whose
\* replacement is still PENDING has an operation in flight that is about to activate
\* it, whatever else runs beside it and whether or not the writes reach the disk.
\* Each of the three can strand one.
THEOREM SuccessorsAreAwaited ==
    (/\ ReuseIds = FALSE
     /\ ManagerMoves = {}
     /\ Disturbances \subseteq {"writeFault", "storageFault"})
        => (Spec => []NoStrandedSuccessor)
<1> SUFFICES ASSUME ReuseIds = FALSE, ManagerMoves = {},
                    Disturbances \subseteq {"writeFault", "storageFault"}
             PROVE  Spec => []NoStrandedSuccessor
  OBVIOUS
<1>1. Init => FirstStart /\ NoStrandedSuccessor
  BY DEF Init, FirstStart, NoStrandedSuccessor, EmptyRegistry, Absent
<1>2. (OwnInv /\ InStep) /\ (FirstStart /\ NoStrandedSuccessor) /\ [Next]_vars
        => (FirstStart /\ NoStrandedSuccessor)'
  BY FirstStartStep, StrandedStep
<1>3. Spec => [](OwnInv /\ InStep)
  <2>1. "reload" \notin Disturbances
    OBVIOUS
  <2> QED BY <2>1, InStepHolds
<1> QED BY <1>1, <1>2, <1>3, PTL DEF Spec

(***************************************************************************)
(* Without cancellations, crashes and storage faults a clean-up works.     *)
(***************************************************************************)

LEMMA CleanUpStep ==
    ASSUME CleanInv, ReuseIds = FALSE, ManagerMoves = {},
           Disturbances \subseteq {"reload", "writeFault"}, [Next]_vars
    PROVE  CleanUpDone' /\ NoStorageFailure'
<1>1. TypeOK /\ IInv /\ CallsMatch
  BY DEF CleanInv, OwnInv, IInv
<1>2. ASSUME NEW t \in Tasks, OthersWait(t), artifacts' = artifacts, ~At(t, "save", "no")',
             task'[t].step = "delExists" => task'[t].io # "no",
             task'[t].step = "delUnlink" => task'[t].io \notin Answers
      PROVE  CleanUpDone' /\ NoStorageFailure'
  BY <1>2 DEF CleanInv, CleanUpDone, NoStorageFailure, At, OthersWait
<1>3. ASSUME NEW t \in Tasks, Passes(t)
      PROVE  CleanUpDone' /\ NoStorageFailure'
  <2>1. task'[t].step # "abandoned"
    BY <1>1, <1>3 DEF Passes, GoesOn, Continues, Idle
  <2>2. /\ task'[t].step = "delExists" => task'[t].io # "no"
        /\ task'[t].step = "delUnlink" => task'[t].io \notin Answers
        /\ ~At(t, "save", "no")'
    BY <1>3, <2>1 DEF Passes, GoesOn, Continues, Idle, Answers, At
  <2> QED BY <1>2, <1>3, <2>2 DEF Passes
<1>4. ASSUME NEW t \in Tasks, NEW v \in Vids, Enrols(t, v)
      PROVE  CleanUpDone' /\ NoStorageFailure'
  BY <1>2, <1>4 DEF Enrols, Begins, At
<1>5. ASSUME NEW t \in Tasks, NEW x \in Vids, NEW rec \in Record, Writes(t, x, rec)
      PROVE  CleanUpDone' /\ NoStorageFailure'
  <2>1. task'[t].step \notin {"save", "delExists", "delUnlink"}
    BY <1>5 DEF Writes, Enters, Promotes, HandsOver, Retires
  <2> QED BY <1>2, <1>5, <2>1 DEF Writes, Saves, At
<1>6. ASSUME NEW t \in Tasks, Executor(t)
      PROVE  CleanUpDone' /\ NoStorageFailure'
  <2>1. PICK io : Continues(t, task[t].step, io)
    BY <1>1, <1>6, ExecutorReplies DEF Replies
  <2>2. OthersWait(t) /\ Continues(t, task[t].step, io)
    BY <1>1, <1>6, <2>1, ExecutorReplies
  <2>3. ~StorageFails(t)
    BY DEF StorageFails
  <2>4. /\ task[t].step = "save" => task[t].io \in {"write", "yes", "no"}
        /\ task[t].step = "delExists" => task[t].io \in {"exists", "yes", "no"}
        /\ task[t].step = "delUnlink" => task[t].io \in {"unlink", "yes", "no"}
        /\ task[t].io = "write" => task[t].step \in {"save", "abandoned"}
    BY <1>1 DEF CallsMatch, CallAt, Answers, TypeOK, Task, Steps
  <2>5. CASE RunExists(t)
    <3>1. Answer(t, IF task[t].vid \in artifacts THEN "yes" ELSE "no")
      BY <2>5 DEF RunExists
    <3>2. Continues(t, task[t].step, IF task[t].vid \in artifacts THEN "yes" ELSE "no")
      BY <1>1, <3>1, ReplyContinues DEF Answer
    <3> QED BY <2>2, <2>4, <2>5, <3>2
            DEF RunExists, CleanInv, CleanUpDone, NoStorageFailure, At, Continues, OthersWait
  <2>6. CASE RunWrite(t)
    <3>1. task[t].step = "save" /\ artifacts' = artifacts \cup {task[t].vid}
      BY <2>4, <2>6 DEF RunWrite, CleanInv, NoneAbandoned
    <3>2. task'[t].step = "save" /\ task'[t].io = "yes"
      <4>1. Answer(t, "yes")
        BY <2>6 DEF RunWrite
      <4> QED BY <1>1, <3>1, <4>1, ReplyContinues DEF Answer, Continues
    <3>3. \A u \in Tasks \ {t} :
              task[u].step \in {"delExists", "delUnlink"} => task[u].vid # task[t].vid
      BY <3>1 DEF CleanInv, OwnInv, BytesOwned, OwnsBytes, Unlinking, PreSteps
    <3>4. CleanUpDone'
      BY <2>2, <3>1, <3>2, <3>3 DEF CleanInv, CleanUpDone, At, OthersWait
    <3> QED BY <2>2, <3>2, <3>4 DEF CleanInv, NoStorageFailure, At, OthersWait
  <2>7. CASE RunUnlink(t)
    <3> QED BY <2>2, <2>4, <2>7
            DEF RunUnlink, CleanInv, CleanUpDone, NoStorageFailure, At, Continues, OthersWait
  <2>8. CASE TakeSnapshot(t) \/ RunStore(t) \/ StoreFails(t)
    <3>1. /\ task[t].step \notin {"save", "delExists", "delUnlink"}
          /\ artifacts' = artifacts
      BY <2>4, <2>8 DEF TakeSnapshot, RunStore, StoreFails
    <3> QED BY <1>2, <2>2, <3>1 DEF Continues, At
  <2> QED BY <1>6, <2>3, <2>5, <2>6, <2>7, <2>8 DEF Executor
<1>7. CASE Load \/ Unload
  BY <1>7 DEF Load, Unload, CleanInv, CleanUpDone, NoStorageFailure, At
<1>8. ~Crash
  BY DEF Crash
<1>9. CASE UNCHANGED vars
  BY <1>9 DEF vars, CleanInv, CleanUpDone, NoStorageFailure, At
<1> QED BY <1>1, <1>3, <1>4, <1>5, <1>6, <1>7, <1>8, <1>9, StepKinds

\* An ended persist has left no bytes.
LEMMA FailedPersist ==
    ASSUME CleanInv, ReuseIds = FALSE, ManagerMoves = {},
           Disturbances \subseteq {"reload", "writeFault"}, [Next]_vars, NEW t \in Tasks,
           task[t].op = "persist",
           task[t].step \in {"save", "regExists", "delExists", "delUnlink"},
           task'[t] = Idle
    PROVE  task[t].vid \notin artifacts'
<1>1. TypeOK /\ IInv /\ CallsMatch
  BY DEF CleanInv, OwnInv, IInv
<1>2. ASSUME NEW u \in Tasks, u # t \/ task'[t].step # "idle", OthersWait(u)
      PROVE  FALSE
  BY <1>2 DEF OthersWait, Idle
<1>3. ASSUME NEW u \in Tasks, Passes(u)
      PROVE  task[t].vid \notin artifacts'
  <2>1. u = t
    BY <1>2, <1>3 DEF Passes
  <2>2. MayEnd(t)
    BY <1>2, <1>3, <2>1 DEF Passes, GoesOn, Continues, Idle
  <2> QED BY <1>3, <2>2 DEF Passes, MayEnd, CleanInv, NoStorageFailure, CleanUpDone, At
<1>4. ASSUME NEW u \in Tasks, Executor(u)
      PROVE  FALSE
  <2>1. task[u].step # "idle" /\ OthersWait(u) /\ task'[u].step = task[u].step
    BY <1>1, <1>4, ExecutorReplies DEF Replies, Continues
  <2> QED BY <1>2, <2>1
<1>5. ASSUME NEW u \in Tasks, (\E v \in Vids : Enrols(u, v))
                           \/ (\E x \in Vids, rec \in Record : Writes(u, x, rec))
      PROVE  FALSE
  <2>1. task'[u].step # "idle" /\ OthersWait(u)
    BY <1>5 DEF Enrols, Begins, Writes, Saves, Enters, Promotes, HandsOver, Retires
  <2> QED BY <1>2, <2>1
<1>6. ~Load /\ ~Unload /\ ~Crash /\ ~(UNCHANGED vars)
  BY DEF Load, Unload, Crash, vars, Idle
<1> QED BY <1>1, <1>3, <1>4, <1>5, <1>6, StepKinds

\* A persist that ends before it has registered its record leaves no bytes behind,
\* whatever other operations do and also when the integration is reloaded under it.
\* A cancellation, a crash or a storage fault does leave them.
THEOREM FailedPersistIsClean ==
    (/\ ReuseIds = FALSE
     /\ ManagerMoves = {}
     /\ Disturbances \subseteq {"reload", "writeFault"})
        => (Spec => FailedPersistLeavesNothing)
<1> SUFFICES ASSUME ReuseIds = FALSE, ManagerMoves = {},
                    Disturbances \subseteq {"reload", "writeFault"}
             PROVE  Spec => FailedPersistLeavesNothing
  OBVIOUS
<1> DEFINE Clean ==
        \A t \in Tasks :
            (/\ task[t].op = "persist"
             /\ task[t].step \in {"save", "regExists", "delExists", "delUnlink"}
             /\ task'[t] = Idle)
                => task[t].vid \notin artifacts'
<1>1. Init => CleanInv
  <2>1. ASSUME Init PROVE \A t \in Tasks : task[t] = Idle
    BY <2>1 DEF Init
  <2> QED BY <2>1, OwnInit
          DEF CleanInv, CleanUpDone, NoStorageFailure, NoneAbandoned, At, Idle
<1>2. CleanInv /\ [Next]_vars => CleanInv'
  <2>1. "timeout" \notin Disturbances
    OBVIOUS
  <2> QED BY <2>1, OwnStep, CleanUpStep, AbandonedStep DEF CleanInv
<1>3. CleanInv /\ [Next]_vars => [Clean]_vars
  BY FailedPersist
<1> QED BY <1>1, <1>2, <1>3, PTL DEF Spec, FailedPersistLeavesNothing

================================================================================
