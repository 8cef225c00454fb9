-------------------------- MODULE VoiceprintTypeProofs --------------------------
(***************************************************************************)
(* Type correctness of VoiceprintService, for every set of ids, subjects   *)
(* and tasks, every bound, and every choice of disturbances.               *)
(***************************************************************************)
EXTENDS VoiceprintSafety, TLAPS

(***************************************************************************)
(* The values the operations build are records.                            *)
(***************************************************************************)

\* A lifecycle change of a record gives a record (replace_voiceprint_record).
LEMMA ChangedRecordType ==
    ASSUME NEW rec \in Record, NEW state \in LifecycleStates, NEW v \in Vids
    PROVE  /\ WithState(rec, state) \in Record
           /\ SupersededBy(rec, v) \in Record
BY DEF Record, WithState, SupersededBy, LifecycleStates

\* The records that the revision manager prepares are records.
LEMMA PreparedRecordType ==
    ASSUME NEW reg \in Registry, NEW v \in Vids, NEW s \in Subjects, NEW p \in Vids
    PROVE  /\ InitialRecord(v, s) \in Record
           /\ NextRecord(reg, p) \in Record
BY DEF Registry, Record, InitialRecord, NextRecord, LifecycleStates

\* An id that is not a key, and the dict of a cleared instance, are well formed.
LEMMA AbsentType == Absent \in Record /\ EmptyRegistry \in Registry
BY DEF Absent, Record, EmptyRegistry, Registry

\* A lifecycle move is made from and to a lifecycle state.
LEMMA MoveStates ==
    ASSUME NEW from \in LifecycleStates \cup {"absent"}, NEW to, CanMove(from, to)
    PROVE  from \in LifecycleStates /\ to \in LifecycleStates
BY DEF CanMove, AllowedTransitions, LifecycleStates

(***************************************************************************)
(* The steps the operations share keep the types.                          *)
(***************************************************************************)

\* The part of TypeOK that is about the operations.
TaskOK ==
    /\ task \in [Tasks -> Task]
    /\ \A t \in Tasks :
        /\ task[t] # Idle => task[t].step # "idle" /\ task[t].vid \in Vids
        /\ task[t].io = "store" <=> task[t].snap # None

\* An operation that has begun, and holds a snapshot just when its thread writes one.
Begun(op) ==
    /\ op \in Task
    /\ op.step # "idle"
    /\ op.vid \in Vids
    /\ op.io = "store" <=> op.snap # None

\* The record that stands for no operation is a task.
LEMMA IdleType == MaxEpoch \in Nat => Idle \in Task
BY AbsentType DEF Idle, Task, Steps, Operations, Epochs

\* An operation begins, goes on or ends.
LEMMA ReplacedTask ==
    ASSUME TaskOK, NEW t \in Tasks, NEW op, op = Idle \/ Begun(op),
           task' = [task EXCEPT ![t] = op]
    PROVE  TaskOK'
<1>1. op \in Task
  BY IdleType, MaxEpochAssumption DEF Begun
<1>2. /\ op # Idle => op.step # "idle" /\ op.vid \in Vids
      /\ op.io = "store" <=> op.snap # None
  BY DEF Begun, Idle
<1>3. task' \in [Tasks -> Task] /\ task'[t] = op
  BY <1>1 DEF TaskOK
<1>4. \A u \in Tasks : task'[u] = op \/ task'[u] = task[u]
  BY DEF TaskOK
<1> QED BY <1>2, <1>3, <1>4 DEF TaskOK

\* An operation that has begun waits for another call.
LEMMA CallType ==
    ASSUME NEW self \in Task, self.step # "idle", self.vid \in Vids,
           NEW io \in Waiting \cup Answers \cup {"lock", "none"},
           NEW snap \in Registry \cup {None}, io = "store" <=> snap # None
    PROVE  Begun([self EXCEPT !.io = io, !.snap = snap])
<1> DEFINE op == [self EXCEPT !.io = io, !.snap = snap]
<1>1. op.step = self.step /\ op.vid = self.vid /\ op.io = io /\ op.snap = snap
  BY DEF Task
<1>2. op \in Task
  BY DEF Task
<1> QED BY <1>1, <1>2 DEF Begun

\* Ending an operation.
LEMMA FinishType ==
    ASSUME TaskOK, NEW t \in Tasks, Finish(t)
    PROVE  TaskOK'
BY ReplacedTask DEF Finish

\* Going on to the next await, with a snapshot if that is a write.
LEMMA AwaitType ==
    ASSUME TaskOK, NEW t \in Tasks, task[t].step # "idle",
           NEW step \in Steps \ {"idle"}, NEW io \in Waiting \cup Answers,
           io = "store" <=> task[t].snap # None, Await(t, step, io)
    PROVE  TaskOK'
<1>1. task[t] \in Task /\ task[t].vid \in Vids
  BY DEF TaskOK, Idle
<1> DEFINE op == [task[t] EXCEPT !.step = step, !.io = io]
<1>2. Begun(op)
  BY <1>1 DEF Task, Begun
<1>3. task' = [task EXCEPT ![t] = op]
  BY DEF Await, TaskOK
<1> HIDE DEF op
<1> QED BY <1>2, <1>3, ReplacedTask

\* Beginning an operation that writes nothing yet.
LEMMA StartType ==
    ASSUME TypeOK, NEW op \in Operations, NEW step \in Steps \ {"idle"},
           NEW io \in (Waiting \cup {"lock"}) \ {"store"}, NEW v \in Vids,
           NEW p \in Vids \cup {None}, NEW activate \in BOOLEAN, NEW rec \in Record
    PROVE  Begun(Operation(op, step, io, v, p, activate, rec))
BY DEF TypeOK, Begun, Operation, Task

\* The snapshot that a write of a record makes.
LEMMA WrittenType ==
    ASSUME TypeOK, NEW v \in Vids, NEW rec \in Record
    PROVE  [records EXCEPT ![v] = rec] \in Registry
BY DEF TypeOK, Registry

\* Writing a record and handing the snapshot to the Store.
LEMMA CommitType ==
    ASSUME TypeOK, NEW t \in Tasks, NEW v \in Vids, NEW rec \in Record,
           NEW self \in Task, self.step # "idle", self.vid \in Vids,
           Commit(t, v, rec, self)
    PROVE  /\ records' \in Registry
           /\ unsaved' \in [Epochs -> Registry \cup {None}]
           /\ TaskOK'
<1> DEFINE new == [records EXCEPT ![v] = rec]
           op == [self EXCEPT !.io = IF StoreFree(t) THEN "store" ELSE "lock",
                              !.snap = IF StoreFree(t) THEN new ELSE None]
<1>1. new \in Registry /\ new # None
  BY WrittenType, SnapshotAssumption
<1>2. /\ records' = new
      /\ unsaved' = [unsaved EXCEPT ![epoch] = IF StoreFree(t) THEN None ELSE new]
      /\ task' = [task EXCEPT ![t] = op]
  BY DEF Commit
<1> HIDE DEF new
<1>3. Begun(op)
  <2>1. CASE StoreFree(t)
    <3>1. Begun([self EXCEPT !.io = "store", !.snap = new])
      BY <1>1, CallType DEF Waiting
    <3> QED BY <2>1, <3>1
  <2>2. CASE ~StoreFree(t)
    <3>1. Begun([self EXCEPT !.io = "lock", !.snap = None])
      BY CallType
    <3> QED BY <2>2, <3>1
  <2> QED BY <2>1, <2>2
<1>4. TaskOK
  BY DEF TypeOK, TaskOK
<1>5. TaskOK'
  <2> HIDE DEF op
  <2> QED BY <1>2, <1>3, <1>4, ReplacedTask
<1> QED BY <1>1, <1>2, <1>5 DEF TypeOK

\* The parts of TypeOK that an operation's step leaves as they are.
RestOK ==
    /\ records \in Registry
    /\ loaded \in BOOLEAN
    /\ epoch \in Epochs
    /\ disk \in Registry
    /\ unsaved \in [Epochs -> Registry \cup {None}]
    /\ artifacts \subseteq Vids
    /\ issued \subseteq Vids

\* TypeOK is the operations' part and the rest.
LEMMA TypeParts == TypeOK <=> RestOK /\ TaskOK
BY DEF TypeOK, RestOK, TaskOK

\* A task that has begun has an id and a record.
LEMMA BusyTask ==
    ASSUME TypeOK, NEW t \in Tasks, task[t].step # "idle"
    PROVE  task[t].vid \in Vids /\ task[t].rec \in Record /\ task[t].epoch \in Epochs
BY DEF TypeOK, Idle, Task

\* An operation that waits, or has its answer, has begun.
LEMMA WaitingTask ==
    ASSUME TypeOK, NEW t \in Tasks, task[t].io # "none"
    PROVE  task[t].step # "idle"
BY DEF TypeOK, Idle

(***************************************************************************)
(* One lemma per part of Next.                                             *)
(***************************************************************************)

\* The executor's answers.
LEMMA ExecutorType ==
    ASSUME TypeOK, NEW t \in Tasks, Executor(t)
    PROVE  TypeOK'
<1>1. task[t].io \in Waiting \cup {"lock"}
  BY DEF Executor, RunExists, RunWrite, RunUnlink, StorageFails, TakeSnapshot, RunStore,
         StoreFails, Waiting
<1>2. task[t].step # "idle" /\ task[t].vid \in Vids /\ task[t].epoch \in Epochs
  BY <1>1, WaitingTask, BusyTask DEF Waiting
<1>3. \E io \in Answers \cup {"store"}, snap \in Registry \cup {None} :
        /\ io = "store" <=> snap # None
        /\ Reply(t, io, snap)
  <2>1. CASE TakeSnapshot(t)
    <3>1. unsaved[task[t].epoch] \in Registry \cup {None}
      BY <1>2 DEF TypeOK
    <3> QED BY <2>1, <3>1 DEF TakeSnapshot, Answers
  <2>2. CASE \E a \in Answers : Answer(t, a)
    BY <2>2 DEF Answer, Answers
  <2> QED BY <2>1, <2>2 DEF Executor, RunExists, RunWrite, RunUnlink, StorageFails, RunStore,
                            StoreFails, Answers
<1>4. TaskOK'
  <2>1. PICK io \in Answers \cup {"store"}, snap \in Registry \cup {None} :
            /\ io = "store" <=> snap # None
            /\ Reply(t, io, snap)
    BY <1>3
  <2> DEFINE op == [task[t] EXCEPT !.io = io, !.snap = snap]
  <2>2. Begun(op)
    BY <1>2, <2>1, CallType DEF TypeOK, Waiting
  <2>3. task' = [task EXCEPT ![t] = op]
    BY <2>1 DEF Reply, TypeOK
  <2>4. TaskOK
    BY TypeParts
  <2> HIDE DEF op
  <2> QED BY <2>2, <2>3, <2>4, ReplacedTask
<1>5. RestOK'
  <2>1. task[t].io = "store" => task[t].snap \in Registry
    BY DEF TypeOK, Task
  <2>2. RestOK
    BY TypeParts
  <2>3. CASE RunStore(t)
    BY <2>1, <2>2, <2>3 DEF RestOK, RunStore
  <2>4. CASE RunWrite(t) \/ RunUnlink(t)
    BY <1>2, <2>2, <2>4 DEF RestOK, RunWrite, RunUnlink
  <2>5. CASE TakeSnapshot(t)
    BY <1>2, <2>2, <2>5 DEF RestOK, TakeSnapshot
  <2>6. CASE RunExists(t) \/ StorageFails(t) \/ StoreFails(t)
    BY <2>2, <2>6 DEF RestOK, RunExists, StorageFails, StoreFails
  <2> QED BY <2>3, <2>4, <2>5, <2>6 DEF Executor
<1> QED BY <1>4, <1>5 DEF TypeOK, RestOK, TaskOK

\* The steps that end an operation, or make it wait for something else.
TaskOnly(t) ==
    /\ UNCHANGED <<records, loaded, epoch, disk, unsaved, artifacts, issued>>
    /\ \/ Finish(t)
       \/ /\ task[t].step # "idle"
          /\ \E step \in Steps \ {"idle"}, io \in Waiting :
                (io = "store" <=> task[t].snap # None) /\ Await(t, step, io)

\* A step that changes nothing but the operation itself keeps the types.
LEMMA TaskOnlyType ==
    ASSUME TypeOK, NEW t \in Tasks, TaskOnly(t)
    PROVE  TypeOK'
<1>1. TaskOK
  BY TypeParts
<1>2. TaskOK'
  BY <1>1, FinishType, AwaitType DEF TaskOnly, Answers
<1> QED BY <1>2 DEF TaskOnly, TypeOK, TaskOK

\* A step that writes a record keeps the types.
LEMMA CommitStepType ==
    ASSUME TypeOK, NEW t \in Tasks, NEW v \in Vids, NEW rec \in Record,
           NEW self \in Task, self.step # "idle", self.vid \in Vids,
           Commit(t, v, rec, self), UNCHANGED <<loaded, epoch, disk, artifacts, issued>>
    PROVE  TypeOK'
<1>1. /\ records' \in Registry
      /\ unsaved' \in [Epochs -> Registry \cup {None}]
      /\ TaskOK'
  BY CommitType
<1> QED BY <1>1 DEF TypeOK, TaskOK

\* A lifecycle move with its write (Move) keeps the types.
LEMMA MoveType ==
    ASSUME TypeOK, NEW t \in Tasks, NEW op \in Operations,
           NEW step \in Steps \ {"idle"}, NEW v \in Vids, NEW state,
           Move(t, op, step, v, state)
    PROVE  TypeOK'
<1>1. records[v] \in Record /\ state \in LifecycleStates
  BY MoveStates DEF Move, TypeOK, Registry, Record
<1>2. WithState(records[v], state) \in Record
  BY <1>1, ChangedRecordType
<1>3. Begun(Operation(op, step, "lock", v, None, FALSE, Absent))
  BY StartType, AbsentType DEF Waiting
<1> QED BY <1>2, <1>3, CommitStepType DEF Move, Begun

\* The steps of Resume, Timeout and TimeoutRunning that change nothing but the
\* operation itself.
LEMMA TaskOnlySteps ==
    ASSUME TypeOK, NEW t \in Tasks,
           \/ RefuseExisting(t) \/ SaveArtifact(t) \/ SaveFailed(t) \/ StartRegister(t)
           \/ CleanUp(t) \/ FinishInactive(t) \/ RefuseActivation(t)
           \/ RefuseReplacement(t) \/ FinishCall(t) \/ EraseBytes(t) \/ UnlinkBytes(t)
           \/ FinishUnlink(t) \/ AbandonedEnds(t) \/ Timeout(t) \/ TimeoutRunning(t)
    PROVE  TaskOnly(t)
<1>1. CASE RefuseExisting(t) \/ SaveFailed(t) \/ FinishInactive(t) \/ RefuseActivation(t)
           \/ RefuseReplacement(t) \/ FinishCall(t) \/ FinishUnlink(t) \/ AbandonedEnds(t)
           \/ Timeout(t)
  BY <1>1 DEF TaskOnly, RefuseExisting, SaveFailed, FinishInactive, RefuseActivation,
              RefuseReplacement, FinishCall, FinishUnlink, AbandonedEnds, Timeout
<1>2. CASE SaveArtifact(t)
  BY <1>2 DEF TaskOnly, SaveArtifact, At, Steps, Waiting, TypeOK
<1>3. CASE StartRegister(t)
  BY <1>3 DEF TaskOnly, StartRegister, At, Steps, Waiting, TypeOK
<1>4. CASE CleanUp(t)
  BY <1>4 DEF TaskOnly, CleanUp, At, Steps, Waiting, TypeOK
<1>5. CASE EraseBytes(t) \/ UnlinkBytes(t)
  BY <1>5 DEF TaskOnly, EraseBytes, UnlinkBytes, At, Steps, Waiting, TypeOK
<1>6. CASE TimeoutRunning(t)
  <2>1. task[t].step # "idle"
    BY <1>6, WaitingTask DEF TimeoutRunning, Waiting
  <2> QED BY <1>6, <2>1 DEF TaskOnly, TimeoutRunning, Steps, TypeOK
<1> QED BY <1>1, <1>2, <1>3, <1>4, <1>5, <1>6

\* The steps of Resume that write a record.
LEMMA WritingSteps ==
    ASSUME TypeOK, NEW t \in Tasks,
           Register(t) \/ ActivateNew(t) \/ SupersedeNew(t) \/ WriteReplacement(t)
    PROVE  TypeOK'
<1>1. task[t].step # "idle" /\ task[t].vid \in Vids /\ task[t].rec \in Record
  BY BusyTask DEF Register, ActivateNew, SupersedeNew, WriteReplacement, At
<1>2. \A v \in Vids : records[v] \in Record
  BY DEF TypeOK, Registry
<1>3. \A step \in SaveSteps :
        AtSave(t, step) \in Task /\ AtSave(t, step).step = step /\ AtSave(t, step).vid = task[t].vid
  BY DEF AtSave, TypeOK, Task, SaveSteps, Steps
<1>4. CASE Register(t) \/ WriteReplacement(t)
  BY <1>1, <1>3, <1>4, CommitStepType DEF Register, WriteReplacement, SaveSteps
<1>5. CASE ActivateNew(t)
  <2>1. WithState(records[task[t].vid], "active") \in Record
    BY <1>1, <1>2, ChangedRecordType DEF LifecycleStates
  <2> QED BY <1>1, <1>3, <1>5, <2>1, CommitStepType DEF ActivateNew, SaveSteps
<1>6. CASE SupersedeNew(t)
  <2> DEFINE rec == WithState(records[task[t].vid], "active")
             self == [AtSave(t, "swapSave") EXCEPT !.rec = rec]
  <2>1. task[t].prev \in Vids
    BY <1>6 DEF SupersedeNew, TypeOK, Task
  <2>2. SupersededBy(records[task[t].prev], task[t].vid) \in Record
    BY <1>1, <1>2, <2>1, ChangedRecordType DEF LifecycleStates
  <2>3. rec \in Record
    BY <1>1, <1>2, ChangedRecordType DEF LifecycleStates
  <2>4. self \in Task /\ self.step = "swapSave" /\ self.vid = task[t].vid
    <3> HIDE DEF rec
    <3> QED BY <1>3, <2>3 DEF Task, SaveSteps
  <2>5. /\ Commit(t, task[t].prev, SupersededBy(records[task[t].prev], task[t].vid), self)
        /\ UNCHANGED <<loaded, epoch, disk, artifacts, issued>>
    BY <1>6 DEF SupersedeNew
  <2> HIDE DEF self
  <2> QED BY <1>1, <2>1, <2>2, <2>4, <2>5, CommitStepType
<1> QED BY <1>4, <1>5, <1>6

\* The requests.
LEMMA RequestType ==
    ASSUME TypeOK, NEW t \in Tasks, Request(t)
    PROVE  TypeOK'
<1>1. CASE \E v \in Vids, s \in Subjects, activate \in BOOLEAN : StartEnrol(t, v, s, activate)
  <2>1. PICK v \in Vids, s \in Subjects, activate \in BOOLEAN : StartEnrol(t, v, s, activate)
    BY <1>1
  <2>2. InitialRecord(v, s) \in Record
    BY PreparedRecordType DEF InitialRecord, Record, LifecycleStates
  <2>3. Begun(Operation("persist", "exists", "exists", v, None, activate, InitialRecord(v, s)))
    BY <2>2, StartType DEF Operations, Steps, Waiting
  <2>4. TaskOK'
    BY <2>1, <2>3, ReplacedTask, TypeParts DEF StartEnrol
  <2> QED BY <2>1, <2>4 DEF StartEnrol, TypeOK, TaskOK
<1>2. CASE \E v, p \in Vids, activate \in BOOLEAN : StartReenrol(t, v, p, activate)
  <2>1. PICK v \in Vids, p \in Vids, activate \in BOOLEAN : StartReenrol(t, v, p, activate)
    BY <1>2
  <2>2. NextRecord(records, p) \in Record
    BY DEF TypeOK, Registry, NextRecord, Record, LifecycleStates
  <2>3. Begun(Operation("persist", "exists", "exists", v, p, activate, NextRecord(records, p)))
    BY <2>2, StartType DEF Operations, Steps, Waiting
  <2>4. TaskOK'
    BY <2>1, <2>3, ReplacedTask, TypeParts DEF StartReenrol
  <2> QED BY <2>1, <2>4 DEF StartReenrol, TypeOK, TaskOK
<1>3. CASE \E v, p \in Vids : StartSupersede(t, p, v)
  <2>1. PICK v \in Vids, p \in Vids : StartSupersede(t, p, v)
    BY <1>3
  <2>2. records[v] \in Record /\ records[p] \in Record
    BY DEF TypeOK, Registry
  <2>3. /\ WithState(records[v], "active") \in Record
        /\ SupersededBy(records[p], v) \in Record
    BY <2>2, ChangedRecordType DEF LifecycleStates
  <2>4. Begun(Operation("supersede", "swapSave", "lock", v, p, TRUE,
                        WithState(records[v], "active")))
    BY <2>3, StartType DEF Operations, Steps, Waiting
  <2> QED BY <2>1, <2>3, <2>4, CommitStepType DEF StartSupersede, Begun
<1>4. CASE \E v \in Vids : \/ StartDelete(t, v) \/ StartErase(t, v) \/ ActivateRecord(t, v)
                           \/ DeactivateRecord(t, v) \/ MarkFailed(t, v)
  BY <1>4, MoveType DEF StartDelete, StartErase, ActivateRecord, DeactivateRecord, MarkFailed,
                        Operations, Steps
<1> QED BY <1>1, <1>2, <1>3, <1>4 DEF Request

\* Setting up, unloading and losing the integration.
LEMMA LifeType ==
    ASSUME TypeOK, Load \/ Unload \/ Crash
    PROVE  TypeOK'
<1>1. CASE Load
  BY <1>1, MaxEpochAssumption DEF Load, TypeOK, Epochs
<1>2. CASE Unload
  BY <1>2, AbsentType DEF Unload, TypeOK
<1>3. CASE Crash
  <2>1. TaskOK'
    BY <1>3, IdleType, MaxEpochAssumption DEF Crash, TaskOK, Idle
  <2> QED BY <1>3, <2>1, AbsentType DEF Crash, TypeOK, TaskOK
<1> QED BY <1>1, <1>2, <1>3

--------------------------------------------------------------------------------

\* Every step of the service keeps the types.
LEMMA TypeStep ==
    ASSUME TypeOK, [Next]_vars
    PROVE  TypeOK'
<1>1. CASE \E t \in Tasks : Request(t)
  BY <1>1, RequestType
<1>2. CASE \E t \in Tasks : Resume(t)
  BY <1>2, TaskOnlySteps, TaskOnlyType, WritingSteps DEF Resume
<1>3. CASE \E t \in Tasks : Executor(t)
  BY <1>3, ExecutorType
<1>4. CASE \E t \in Tasks : Timeout(t) \/ TimeoutRunning(t)
  BY <1>4, TaskOnlySteps, TaskOnlyType
<1>5. CASE Load \/ Unload \/ Crash
  BY <1>5, LifeType
<1>6. CASE UNCHANGED vars
  BY <1>6 DEF vars, TypeOK
<1> QED BY <1>1, <1>2, <1>3, <1>4, <1>5, <1>6 DEF Next

\* The fresh state of the service has its types.
LEMMA TypeInit ==
    ASSUME Init
    PROVE  TypeOK
<1>1. 0 \in Epochs
  BY MaxEpochAssumption DEF Epochs
<1>2. TaskOK
  BY IdleType, MaxEpochAssumption DEF Init, TaskOK, Idle
<1> QED BY <1>1, <1>2, AbsentType DEF Init, TypeOK, TaskOK

--------------------------------------------------------------------------------

\* Whatever the operations, the executor and the disturbances do, every record,
\* snapshot and operation in flight has its type, and an operation that has begun
\* works on a voiceprint.
THEOREM TypeCorrect == Spec => []TypeOK
<1>1. Init => TypeOK
  BY TypeInit
<1>2. TypeOK /\ [Next]_vars => TypeOK'
  BY TypeStep
<1> QED BY <1>1, <1>2, PTL DEF Spec

================================================================================
