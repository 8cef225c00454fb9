------------------------- MODULE VoiceprintSafetyProofs -------------------------
(***************************************************************************)
(* The safety of the voiceprint registry, for every set of ids, subjects   *)
(* and tasks and every choice of disturbances.  When callers use fresh ids *)
(* and only the service operations move records, IInv is inductive, and    *)
(* LineageForest, SingleActivePerLineage and LifecycleIsFollowed follow.   *)
(* When operations run one at a time, SequentialInv is, and                *)
(* SingleActivePerSubject and RevisionsAreUnique follow.                   *)
(***************************************************************************)
EXTENDS VoiceprintInvariant, VoiceprintTypeProofs

(***************************************************************************)
(* What the writes of the operations do to a good registry.                *)
(***************************************************************************)

\* Registering a new record that fits.
LEMMA AddIsGood ==
    ASSUME NEW reg \in Registry, GoodRegistry(reg), NEW v \in Vids, ~Present(reg, v),
           NEW rec \in Record, rec.state = "pending", rec.next = None, Fits(reg, v, rec)
    PROVE  GoodRegistry([reg EXCEPT ![v] = rec])
<1> DEFINE new == [reg EXCEPT ![v] = rec]
<1>1. /\ new[v] = rec
      /\ \A w \in Vids : w # v => new[w] = reg[w]
  BY DEF Registry
<1>2. Present(new, v) /\ \A w \in Vids : Present(reg, w) => w # v /\ Present(new, w)
  BY <1>1 DEF Present
<1> HIDE DEF new
<1>3. \A w \in Vids : reg[w] \in Record
  BY DEF Registry
<1>4. ParentsPresent(new)
  BY <1>1, <1>2, <1>3 DEF ParentsPresent, GoodRegistry, Fits, Present, Record
<1>5. SuccessorsPresent(new)
  BY <1>1, <1>2, <1>3 DEF SuccessorsPresent, GoodRegistry, Present, Record
<1>6. RootsPresent(new)
  BY <1>1, <1>2, <1>3 DEF RootsPresent, GoodRegistry, Fits, Present, Record
<1>7. RootsMoveFirst(new)
  BY <1>1, <1>2, <1>3 DEF RootsMoveFirst, RootsPresent, GoodRegistry, Present, Record
<1>8. OneActivePerLineage(new)
  BY <1>1, <1>2 DEF OneActivePerLineage, GoodRegistry, Active
<1>9. OnlyServiceStates(new)
  BY <1>1, <1>2 DEF OnlyServiceStates, GoodRegistry, ServiceStates
<1> QED BY <1>4, <1>5, <1>6, <1>7, <1>8, <1>9 DEF GoodRegistry, new

\* Moving a record to ACTIVE or DELETED: the root moves first, and nothing else
\* of the lineage is active when it becomes active.
LEMMA MoveIsGood ==
    ASSUME NEW reg \in Registry, GoodRegistry(reg), NEW v \in Vids, Present(reg, v),
           NEW state \in {"active", "deleted"},
           state = "active" => reg[v].next = None,
           reg[v].root = v \/ reg[reg[v].root].state # "pending",
           state = "active" =>
               \A w \in Vids : Active(reg, w) /\ w # v => reg[w].root # reg[v].root
    PROVE  GoodRegistry([reg EXCEPT ![v] = WithState(reg[v], state)])
<1> DEFINE rec == WithState(reg[v], state)
           new == [reg EXCEPT ![v] = rec]
<1>1. /\ new[v] = rec
      /\ \A w \in Vids : w # v => new[w] = reg[w]
  BY DEF Registry
<1>2. /\ rec.state = state
      /\ rec.root = reg[v].root
      /\ rec.parent = reg[v].parent
      /\ rec.subject = reg[v].subject
      /\ rec.rev = reg[v].rev
      /\ rec.next = reg[v].next
  BY DEF WithState, Registry, Record
<1> HIDE DEF new, rec
<1>3. \A w \in Vids : Present(new, w) <=> Present(reg, w)
  BY <1>1, <1>2 DEF Present
<1>4. \A w \in Vids : reg[w] \in Record
  BY DEF Registry
<1>5. ParentsPresent(new)
  BY <1>1, <1>2, <1>3 DEF ParentsPresent, GoodRegistry
<1>6. SuccessorsPresent(new)
  BY <1>1, <1>2, <1>3, <1>4 DEF SuccessorsPresent, GoodRegistry, Record
<1>7. RootsPresent(new)
  BY <1>1, <1>2, <1>3 DEF RootsPresent, GoodRegistry
<1>8. RootsMoveFirst(new)
  BY <1>1, <1>2, <1>3 DEF RootsMoveFirst, RootsPresent, GoodRegistry
<1>9. OneActivePerLineage(new)
  BY <1>1, <1>2 DEF OneActivePerLineage, GoodRegistry, Active
<1>10. OnlyServiceStates(new)
  BY <1>1, <1>2 DEF OnlyServiceStates, GoodRegistry, ServiceStates
<1> QED BY <1>5, <1>6, <1>7, <1>8, <1>9, <1>10 DEF GoodRegistry, new, rec

\* Retiring the active record p in favour of its child v.
LEMMA SupersedeIsGood ==
    ASSUME NEW reg \in Registry, GoodRegistry(reg), NEW p \in Vids, Active(reg, p),
           NEW v \in Vids, Present(reg, v), reg[v].parent = p
    PROVE  GoodRegistry([reg EXCEPT ![p] = SupersededBy(reg[p], v)])
<1> DEFINE rec == SupersededBy(reg[p], v)
           new == [reg EXCEPT ![p] = rec]
<1>1. /\ new[p] = rec
      /\ \A w \in Vids : w # p => new[w] = reg[w]
  BY DEF Registry
<1>2. /\ rec.state = "superseded"
      /\ rec.root = reg[p].root
      /\ rec.parent = reg[p].parent
      /\ rec.subject = reg[p].subject
      /\ rec.rev = reg[p].rev
      /\ rec.next = v
  BY DEF SupersededBy, Registry, Record
<1> HIDE DEF new, rec
<1>3. \A w \in Vids : Present(new, w) <=> Present(reg, w)
  BY <1>1, <1>2 DEF Present, Active
<1>4. \A w \in Vids : reg[w] \in Record
  BY DEF Registry
<1>5. ParentsPresent(new)
  BY <1>1, <1>2, <1>3 DEF ParentsPresent, GoodRegistry
<1>6. SuccessorsPresent(new)
  <2>1. v # None
    BY NoneAssumption
  <2>2. new[v].parent = p
    BY <1>1, <1>2
  <2> QED BY <1>1, <1>2, <1>3, <1>4, <2>1, <2>2 DEF SuccessorsPresent, GoodRegistry, Record
<1>7. RootsPresent(new)
  BY <1>1, <1>2, <1>3 DEF RootsPresent, GoodRegistry
<1>8. RootsMoveFirst(new)
  BY <1>1, <1>2, <1>3 DEF RootsMoveFirst, RootsPresent, GoodRegistry, Active, Present
<1>9. OneActivePerLineage(new)
  BY <1>1, <1>2 DEF OneActivePerLineage, GoodRegistry, Active
<1>10. OnlyServiceStates(new)
  BY <1>1, <1>2 DEF OnlyServiceStates, GoodRegistry, ServiceStates
<1> QED BY <1>5, <1>6, <1>7, <1>8, <1>9, <1>10 DEF GoodRegistry, new, rec

\* The registry of a fresh or cleared instance (clear) is good.
LEMMA EmptyIsGood == GoodRegistry(EmptyRegistry) /\ \A v \in Vids : ~Present(EmptyRegistry, v)
BY DEF GoodRegistry, EmptyRegistry, Absent, ParentsPresent, SuccessorsPresent, RootsPresent,
       RootsMoveFirst, OneActivePerLineage, OnlyServiceStates, ServiceStates, Present, Active

\* What fits a registry still fits it when another record is added or moved.
LEMMA StillFits ==
    ASSUME NEW reg \in Registry, NEW v \in Vids, NEW rec \in Record, rec.state # "absent",
           Present(reg, v) => /\ SameIdentity(reg[v], rec)
                              /\ reg[v].subject = rec.subject,
           NEW w \in Vids, NEW r \in Record, Fits(reg, w, r)
    PROVE  Fits([reg EXCEPT ![v] = rec], w, r)
BY DEF Fits, SameIdentity, Present, Registry, Record

(***************************************************************************)
(* Steps that write no record: they may end the operation, take it on to   *)
(* an await that is no promise about the registry, and let a snapshot      *)
(* reach the disk.                                                         *)
(***************************************************************************)

Kept(t) ==
    /\ task'[t].vid = task[t].vid
    /\ task'[t].prev = task[t].prev
    /\ task'[t].rec = task[t].rec
    /\ task'[t].epoch = task[t].epoch
    /\ task'[t].step \in PreSteps => task[t].step \in PreSteps
    /\ task'[t].step \in {"regSave", "swapSave"} => task'[t].step = task[t].step

QuietStep(t) ==
    /\ UNCHANGED <<records, loaded, epoch, issued>>
    /\ Snapshots' \subseteq Snapshots
    /\ \A u \in Tasks : u # t => task'[u] = task[u]
    /\ task'[t] = Idle \/ Kept(t)

\* The snapshots there are.
LEMMA SnapshotMembers ==
    ASSUME TypeOK
    PROVE  /\ Snapshots \subseteq Registry
           /\ disk \in Snapshots
           /\ \A e \in Epochs : unsaved[e] \in Snapshots \cup {None}
           /\ \A t \in Tasks : task[t].snap \in Snapshots \cup {None}
BY SnapshotAssumption DEF Snapshots, TypeOK, Task

\* No step makes a snapshot out of nothing.
LEMMA SnapshotsWithin ==
    ASSUME NEW regs, disk' \in regs, \A e \in Epochs : unsaved'[e] \in regs \cup {None},
           \A t \in Tasks : task'[t].snap \in regs \cup {None}
    PROVE  Snapshots' \subseteq regs
BY DEF Snapshots

\* A quiet step keeps the invariant.
LEMMA QuietKeeps ==
    ASSUME IInv, TypeOK', NEW t \in Tasks, QuietStep(t)
    PROVE  IInv'
<1>1. \A u \in Tasks : Kept(u) \/ task'[u] = Idle
  BY DEF QuietStep, Kept
<1>2. \A u \in Tasks : task'[u].step # "idle" => Kept(u) /\ (Live(u)' <=> Live(u))
  BY <1>1 DEF Idle, Kept, Live, QuietStep
<1>3. Registries' \subseteq Registries
  BY DEF QuietStep, Registries
<1>10. GoodRegistries'
  BY <1>3 DEF IInv, GoodRegistries, Everywhere
<1>4. \A v \in Vids : Unregistered(v) => Unregistered(v)'
  BY <1>3 DEF Unregistered
<1>5. OnlyIssued'
  BY <1>4 DEF IInv, OnlyIssued, QuietStep
<1>6. BeforeRegister'
  <2>1. \A w \in Tasks : task'[w].step \in PreSteps =>
            Kept(w) /\ (Live(w)' <=> Live(w)) /\ task[w].step \in PreSteps
    BY <1>2 DEF PreSteps, Kept
  <2>2. \A w \in Tasks : task'[w].step \in PreSteps =>
            task[w].vid \in Vids /\ Unregistered(task[w].vid)
    BY <2>1, BusyTask DEF IInv, BeforeRegister, PreSteps
  <2>3. \A w \in Tasks : task'[w].step \in PreSteps => Unregistered(task[w].vid)'
    BY <1>4, <2>1, <2>2 DEF Kept
  <2>4. \A w \in Tasks : task'[w].step \in PreSteps =>
            (Live(w)' => Fits(records', task'[w].vid, task'[w].rec))
    BY <2>1 DEF IInv, BeforeRegister, Kept, QuietStep
  <2> QED BY <2>1, <2>3, <2>4 DEF IInv, BeforeRegister, Kept, QuietStep
<1>7. AfterRegister'
  BY <1>2 DEF IInv, AfterRegister, Kept, QuietStep
<1>8. Window'
  <2>1. \A u \in Tasks : InWindow(u)' => Kept(u) /\ InWindow(u)
    BY <1>2 DEF InWindow, Kept
  <2> QED BY <2>1 DEF IInv, Window, Kept, QuietStep
<1>9. EpochsAgree'
  BY <1>1 DEF IInv, EpochsAgree, Kept, QuietStep, Idle, TypeOK, Epochs
<1> QED BY <1>5, <1>6, <1>7, <1>8, <1>9, <1>10 DEF IInv

\* An operation ends.
LEMMA FinishIsQuiet ==
    ASSUME TypeOK, NEW t \in Tasks, Finish(t),
           UNCHANGED <<records, loaded, epoch, disk, unsaved, issued>>
    PROVE  QuietStep(t)
<1>1. /\ task'[t] = Idle
      /\ \A u \in Tasks : u # t => task'[u] = task[u]
  BY DEF Finish, TypeOK
<1>2. Snapshots' \subseteq Snapshots
  BY <1>1, SnapshotMembers, SnapshotsWithin DEF Idle
<1> QED BY <1>1, <1>2 DEF QuietStep

\* An operation goes on to the next await, with the snapshot it has.
LEMMA AwaitIsQuiet ==
    ASSUME TypeOK, NEW t \in Tasks, NEW step, NEW io, Await(t, step, io),
           step \in PreSteps => task[t].step \in PreSteps,
           step \notin {"regSave", "swapSave"},
           UNCHANGED <<records, loaded, epoch, disk, unsaved, issued>>
    PROVE  QuietStep(t)
<1>1. /\ Kept(t)
      /\ task'[t].snap = task[t].snap
      /\ \A u \in Tasks : u # t => task'[u] = task[u]
  BY DEF TypeOK, Await, Kept, Task, PreSteps
<1>2. Snapshots' \subseteq Snapshots
  BY <1>1, SnapshotMembers, SnapshotsWithin
<1> QED BY <1>1, <1>2 DEF QuietStep

\* A call is answered, or gets a snapshot to write.
LEMMA ReplyIsQuiet ==
    ASSUME TypeOK, NEW t \in Tasks, NEW io, NEW snap \in Snapshots \cup {None},
           Reply(t, io, snap), UNCHANGED <<records, loaded, epoch, issued>>,
           disk' \in Snapshots,
           \A e \in Epochs : unsaved'[e] \in Snapshots \cup {None}
    PROVE  QuietStep(t)
<1>1. /\ Kept(t)
      /\ task'[t].snap = snap
      /\ \A u \in Tasks : u # t => task'[u] = task[u]
  BY DEF TypeOK, Reply, Kept, Task
<1>2. Snapshots' \subseteq Snapshots
  BY <1>1, SnapshotMembers, SnapshotsWithin
<1> QED BY <1>1, <1>2 DEF QuietStep

\* The steps of operations that write no record.
LEMMA QuietSteps ==
    ASSUME TypeOK, NEW t \in Tasks,
           \/ RefuseExisting(t) \/ SaveArtifact(t) \/ SaveFailed(t) \/ StartRegister(t)
           \/ CleanUp(t) \/ FinishInactive(t) \/ RefuseActivation(t)
           \/ RefuseReplacement(t) \/ FinishCall(t) \/ EraseBytes(t) \/ UnlinkBytes(t)
           \/ FinishUnlink(t) \/ AbandonedEnds(t) \/ Timeout(t) \/ TimeoutRunning(t)
    PROVE  QuietStep(t)
<1>1. CASE RefuseExisting(t) \/ SaveFailed(t) \/ FinishInactive(t) \/ RefuseActivation(t)
           \/ RefuseReplacement(t) \/ FinishCall(t) \/ FinishUnlink(t) \/ AbandonedEnds(t)
           \/ Timeout(t)
  BY <1>1, FinishIsQuiet
     DEF RefuseExisting, SaveFailed, FinishInactive, RefuseActivation, RefuseReplacement,
         FinishCall, FinishUnlink, AbandonedEnds, Timeout
<1>2. CASE SaveArtifact(t) \/ StartRegister(t)
  BY <1>2, AwaitIsQuiet DEF SaveArtifact, StartRegister, At, PreSteps
<1>3. CASE CleanUp(t) \/ EraseBytes(t) \/ UnlinkBytes(t)
  BY <1>3, AwaitIsQuiet DEF CleanUp, EraseBytes, UnlinkBytes, PreSteps
<1>4. CASE TimeoutRunning(t)
  BY <1>4, AwaitIsQuiet DEF TimeoutRunning, PreSteps
<1> QED BY <1>1, <1>2, <1>3, <1>4

\* The executor is quiet: it answers, hands a snapshot to a thread, or lets the
\* thread write it.
LEMMA QuietExecutor ==
    ASSUME TypeOK, NEW t \in Tasks, Executor(t)
    PROVE  QuietStep(t)
<1>1. CASE RunExists(t) \/ RunWrite(t) \/ RunUnlink(t) \/ StorageFails(t) \/ StoreFails(t)
  BY <1>1, ReplyIsQuiet, SnapshotMembers
     DEF RunExists, RunWrite, RunUnlink, StorageFails, StoreFails, Answer
<1>2. CASE RunStore(t)
  <2>1. task[t].snap \in Snapshots
    BY <1>2, SnapshotMembers DEF RunStore, TypeOK
  <2> QED BY <1>2, <2>1, ReplyIsQuiet, SnapshotMembers DEF RunStore, Answer
<1>3. CASE TakeSnapshot(t)
  <2>1. task[t].epoch \in Epochs
    BY <1>3, WaitingTask, BusyTask DEF TakeSnapshot
  <2>2. unsaved[task[t].epoch] \in Snapshots \cup {None}
    BY <2>1, SnapshotMembers
  <2>3. \A e \in Epochs : unsaved'[e] \in Snapshots \cup {None}
    BY <1>3, SnapshotMembers DEF TakeSnapshot, TypeOK
  <2> QED BY <1>3, <2>2, <2>3, ReplyIsQuiet, SnapshotMembers DEF TakeSnapshot
<1> QED BY <1>1, <1>2, <1>3 DEF Executor

(***************************************************************************)
(* The life of the integration.                                            *)
(***************************************************************************)

\* A new instance knows the snapshot on disk, and nothing before it is loaded.
LEMMA LifeRegistries ==
    ASSUME TypeOK, Load \/ Unload \/ Crash
    PROVE  Registries' \subseteq Registries \cup {EmptyRegistry}
<1>1. \A t \in Tasks : task'[t] = task[t] \/ task'[t] = Idle
  BY DEF Load, Unload, Crash
<1>2. /\ records' = disk \/ records' = EmptyRegistry
      /\ disk' = disk
      /\ \A e \in Epochs : unsaved'[e] = unsaved[e] \/ unsaved'[e] = None
  BY DEF Load, Unload, Crash
<1>3. \A t \in Tasks : task'[t].snap \in Snapshots \cup {None}
  BY <1>1, SnapshotMembers DEF Idle
<1>4. Snapshots' \subseteq Snapshots
  BY <1>2, <1>3, SnapshotMembers, SnapshotsWithin
<1> QED BY <1>2, <1>4, SnapshotMembers DEF Registries

\* Setting up, unloading and losing the integration keep the invariant: no
\* operation in flight can write to the new instance.
LEMMA LifeKeeps ==
    ASSUME IInv, TypeOK', Load \/ Unload \/ Crash
    PROVE  IInv'
<1>1. \A t \in Tasks : task'[t] = task[t] \/ task'[t] = Idle
  BY DEF Load, Unload, Crash
<1>2. \A t \in Tasks : ~Live(t)'
  <2>1. CASE Load
    BY <2>1 DEF Load, Live, IInv, EpochsAgree, TypeOK, Epochs, Task
  <2>2. CASE Unload \/ Crash
    BY <2>2 DEF Unload, Crash, Live
  <2> QED BY <2>1, <2>2
<1>3. Registries' \subseteq Registries \cup {EmptyRegistry} /\ issued' = issued
  BY LifeRegistries DEF IInv, Load, Unload, Crash
<1>4. GoodRegistries'
  BY <1>3, EmptyIsGood DEF IInv, GoodRegistries, Everywhere
<1>5. \A v \in Vids : Unregistered(v) => Unregistered(v)'
  BY <1>3, EmptyIsGood DEF Unregistered
<1>6. OnlyIssued'
  BY <1>3, <1>5 DEF IInv, OnlyIssued
<1>7. BeforeRegister'
  <2>1. \A t \in Tasks : task'[t].step \in PreSteps => task'[t] = task[t]
    BY <1>1 DEF Idle, PreSteps
  <2>2. \A t \in Tasks : task'[t].step \in PreSteps =>
            task[t].vid \in Vids /\ Unregistered(task[t].vid)
    BY <2>1, BusyTask DEF IInv, BeforeRegister, PreSteps
  <2>3. \A t \in Tasks : task'[t].step \in PreSteps => Unregistered(task[t].vid)'
    BY <1>5, <2>1, <2>2
  <2> QED BY <1>2, <1>3, <2>1, <2>3 DEF IInv, BeforeRegister
<1>8. AfterRegister' /\ Window'
  BY <1>2 DEF AfterRegister, Window, InWindow
<1>9. EpochsAgree'
  BY <1>1 DEF IInv, EpochsAgree, TypeOK, Task, Epochs, Idle, Load, Unload, Crash
<1> QED BY <1>4, <1>6, <1>7, <1>8, <1>9 DEF IInv

(***************************************************************************)
(* Steps that write a record.                                              *)
(***************************************************************************)

\* What every write of a record v shares: the registry stays good, the id was
\* issued, what names the record may rely on it, and no other operation is about
\* to register the id.
WriteStep(t, v, rec) ==
    /\ loaded
    /\ records' = [records EXCEPT ![v] = rec]
    /\ Snapshots' \subseteq Snapshots \cup {records'}
    /\ UNCHANGED <<loaded, epoch, issued>>
    /\ GoodRegistry([records EXCEPT ![v] = rec])
    /\ v \in issued
    /\ rec.state # "absent"
    /\ Present(records, v) =>
        /\ SameIdentity(records[v], rec)
        /\ records[v].subject = rec.subject
    /\ \A u \in Tasks \ {t} : task[u].step \in PreSteps => task[u].vid # v
    /\ \A u \in Tasks \ {t} : task'[u] = task[u]
    /\ task'[t].step \notin PreSteps
    /\ task'[t].epoch <= epoch

\* What the write of a record does: the dict holds it, the dict is the one new
\* snapshot, and the operation goes on as it was told.
LEMMA CommitWrites ==
    ASSUME TypeOK, NEW t \in Tasks, NEW v \in Vids, NEW rec \in Record, NEW self \in Task,
           Commit(t, v, rec, self), UNCHANGED disk
    PROVE  /\ records' = [records EXCEPT ![v] = rec]
           /\ Snapshots' \subseteq Snapshots \cup {records'}
           /\ \A u \in Tasks \ {t} : task'[u] = task[u]
           /\ task'[t].step = self.step
           /\ task'[t].vid = self.vid
           /\ task'[t].prev = self.prev
           /\ task'[t].rec = self.rec
           /\ task'[t].epoch = self.epoch
<1> DEFINE op == [self EXCEPT !.io = IF StoreFree(t) THEN "store" ELSE "lock",
                              !.snap = IF StoreFree(t) THEN records' ELSE None]
<1>1. /\ records' = [records EXCEPT ![v] = rec]
      /\ unsaved' = [unsaved EXCEPT ![epoch] = IF StoreFree(t) THEN None ELSE records']
      /\ task' = [task EXCEPT ![t] = op]
  BY DEF Commit
<1>2. /\ op.step = self.step
      /\ op.vid = self.vid
      /\ op.prev = self.prev
      /\ op.rec = self.rec
      /\ op.epoch = self.epoch
      /\ op.snap \in {records', None}
  BY DEF Task
<1> HIDE DEF op
<1>3. task'[t] = op /\ \A u \in Tasks \ {t} : task'[u] = task[u]
  BY <1>1 DEF TypeOK
<1>4. \A e \in Epochs : unsaved'[e] \in Snapshots \cup {records', None}
  BY <1>1, SnapshotMembers DEF TypeOK
<1>5. \A u \in Tasks : task'[u].snap \in Snapshots \cup {records', None}
  BY <1>2, <1>3, SnapshotMembers
<1>6. Snapshots' \subseteq Snapshots \cup {records'}
  <2>1. disk' \in Snapshots
    BY SnapshotMembers
  <2> QED BY <1>4, <1>5, <2>1 DEF Snapshots
<1> QED BY <1>1, <1>2, <1>3, <1>6

\* An operation that goes on to a save is what it was.
LEMMA AtSaveFields ==
    ASSUME TypeOK, NEW t \in Tasks, NEW step \in SaveSteps
    PROVE  /\ AtSave(t, step) \in Task
           /\ AtSave(t, step).step = step
           /\ AtSave(t, step).vid = task[t].vid
           /\ AtSave(t, step).prev = task[t].prev
           /\ AtSave(t, step).rec = task[t].rec
           /\ AtSave(t, step).epoch = task[t].epoch
BY DEF AtSave, TypeOK, Task, SaveSteps, Steps

\* A lifecycle move with its write.
LEMMA MoveWrites ==
    ASSUME TypeOK, NEW t \in Tasks, NEW op \in Operations, NEW step \in SaveSteps,
           NEW v \in Vids, NEW state, Move(t, op, step, v, state)
    PROVE  /\ loaded
           /\ UNCHANGED <<loaded, epoch, disk, issued>>
           /\ records' = [records EXCEPT ![v] = WithState(records[v], state)]
           /\ Snapshots' \subseteq Snapshots \cup {records'}
           /\ \A u \in Tasks \ {t} : task'[u] = task[u]
           /\ task'[t].step = step
           /\ task'[t].epoch = epoch
<1> DEFINE self == Operation(op, step, "lock", v, None, FALSE, Absent)
<1>1. self \in Task
  BY StartType, AbsentType DEF Begun, SaveSteps, Steps, Waiting
<1>2. self.step = step /\ self.epoch = epoch
  BY DEF Operation
<1>3. WithState(records[v], state) \in Record
  BY MoveStates, ChangedRecordType DEF Move, TypeOK, Registry, Record
<1>4. Commit(t, v, WithState(records[v], state), self) /\ UNCHANGED disk
  BY DEF Move
<1> HIDE DEF self
<1> QED BY <1>1, <1>2, <1>3, <1>4, CommitWrites DEF Move, CanStart

\* The first write of supersede_record, by the operation `self`.
LEMMA SupersedeWrites ==
    ASSUME TypeOK, NEW t \in Tasks, NEW p \in Vids, NEW v \in Vids,
           \/ SupersedeNew(t) /\ p = task[t].prev /\ v = task[t].vid
           \/ StartSupersede(t, p, v)
    PROVE  /\ loaded
           /\ CanCoordinate(records, p, v)
           /\ UNCHANGED <<loaded, epoch, disk, issued>>
           /\ records' = [records EXCEPT ![p] = SupersededBy(records[p], v)]
           /\ Snapshots' \subseteq Snapshots \cup {records'}
           /\ \A u \in Tasks \ {t} : task'[u] = task[u]
           /\ task'[t].step = "swapSave"
           /\ task'[t].vid = v
           /\ task'[t].prev = p
           /\ task'[t].rec = WithState(records[v], "active")
           /\ task'[t].epoch = epoch
<1> DEFINE rec == WithState(records[v], "active")
<1>1. rec \in Record /\ SupersededBy(records[p], v) \in Record
  BY ChangedRecordType DEF TypeOK, Registry, LifecycleStates
<1> HIDE DEF rec
<1>2. CASE StartSupersede(t, p, v)
  <2> DEFINE self == Operation("supersede", "swapSave", "lock", v, p, TRUE, rec)
  <2>1. self \in Task
    BY <1>1, StartType DEF Begun, Operations, Steps, Waiting
  <2>2. /\ self.step = "swapSave"
        /\ self.vid = v
        /\ self.prev = p
        /\ self.rec = rec
        /\ self.epoch = epoch
    BY DEF Operation
  <2>3. Commit(t, p, SupersededBy(records[p], v), self) /\ UNCHANGED disk
    BY <1>2 DEF StartSupersede, rec
  <2> HIDE DEF self
  <2> QED BY <1>1, <1>2, <2>1, <2>2, <2>3, CommitWrites DEF StartSupersede, CanStart, rec
<1>3. CASE SupersedeNew(t) /\ p = task[t].prev /\ v = task[t].vid
  <2> DEFINE self == [AtSave(t, "swapSave") EXCEPT !.rec = rec]
  <2>1. /\ self \in Task
        /\ self.step = "swapSave"
        /\ self.vid = v
        /\ self.prev = p
        /\ self.rec = rec
        /\ self.epoch = task[t].epoch
    BY <1>1, <1>3, AtSaveFields DEF SaveSteps, Task
  <2>2. Commit(t, p, SupersededBy(records[p], v), self) /\ UNCHANGED disk
    BY <1>3 DEF SupersedeNew, rec
  <2> HIDE DEF self
  <2> QED BY <1>1, <1>3, <2>1, <2>2, CommitWrites
          DEF SupersedeNew, CanFinishPersist, Live, rec
<1> QED BY <1>2, <1>3

\* What such a write leaves of the invariant.
LEMMA WriteKeeps ==
    ASSUME IInv, NEW t \in Tasks, NEW v \in Vids, NEW rec \in Record,
           WriteStep(t, v, rec)
    PROVE  GoodRegistries' /\ OnlyIssued' /\ BeforeRegister' /\ EpochsAgree'
<1> DEFINE new == [records EXCEPT ![v] = rec]
<1>1. records' = new /\ GoodRegistry(new)
  BY DEF WriteStep
<1>2. /\ new[v] = rec
      /\ \A w \in Vids : w # v => new[w] = records[w]
  BY DEF IInv, TypeOK, Registry
<1>3. \A w \in Vids : Present(new, w) => w = v \/ Present(records, w)
  BY <1>2 DEF Present
<1> HIDE DEF new
<1>4. Registries' \subseteq Registries \cup {new}
  BY <1>1 DEF WriteStep, Registries
<1>5. GoodRegistries'
  BY <1>1, <1>4 DEF IInv, GoodRegistries, Everywhere
<1>6. \A w \in Vids \ {v} : Unregistered(w) => Unregistered(w)'
  BY <1>3, <1>4 DEF Unregistered, Registries
<1>7. OnlyIssued'
  BY <1>6 DEF WriteStep, IInv, OnlyIssued
<1>8. BeforeRegister'
  <2>1. \A u \in Tasks : task'[u].step \in PreSteps =>
            u # t /\ task'[u] = task[u] /\ task[u].vid # v
    BY DEF WriteStep
  <2>2. \A u \in Tasks : task'[u].step \in PreSteps =>
            task[u].vid \in Vids /\ task[u].rec \in Record /\ Unregistered(task[u].vid)
    BY <2>1, BusyTask DEF IInv, BeforeRegister, PreSteps
  <2>3. \A u \in Tasks : task'[u].step \in PreSteps => Unregistered(task[u].vid)'
    BY <1>6, <2>1, <2>2
  <2>4. ASSUME NEW u \in Tasks, task'[u].step \in PreSteps, Live(u)'
        PROVE  Fits(new, task[u].vid, task[u].rec)
    <3>1. Live(u)
      BY <2>1, <2>4 DEF Live, WriteStep
    <3>2. Fits(records, task[u].vid, task[u].rec)
      BY <2>1, <2>4, <3>1 DEF IInv, BeforeRegister
    <3> QED BY <2>2, <2>4, <3>2, StillFits DEF WriteStep, IInv, TypeOK, new
  <2>5. ASSUME NEW u \in Tasks, task'[u].step \in PreSteps
        PROVE  /\ task'[u].vid \in issued'
               /\ task'[u].rec.state = "pending"
               /\ task'[u].rec.next = None
               /\ task'[u].rec.parent = task'[u].prev
               /\ \A w \in Tasks \ {u} :
                    task'[w].step \in PreSteps => task'[w].vid # task'[u].vid
    BY <2>1, <2>5 DEF IInv, BeforeRegister, WriteStep
  <2> QED BY <1>1, <2>1, <2>3, <2>4, <2>5 DEF BeforeRegister
<1>9. EpochsAgree'
  BY DEF IInv, EpochsAgree, WriteStep
<1> QED BY <1>5, <1>7, <1>8, <1>9

\* A persist that is not the writer's still finds its record with its parent.
LEMMA WriteKeepsAfterRegister ==
    ASSUME IInv, NEW t \in Tasks, NEW v \in Vids, NEW rec \in Record,
           WriteStep(t, v, rec),
           (task'[t].step = "regSave" /\ Live(t)') =>
               task'[t].vid = v /\ rec.parent = task'[t].prev
    PROVE  AfterRegister'
<1>1. /\ records' = [records EXCEPT ![v] = rec]
      /\ records'[v] = rec
      /\ \A w \in Vids : w # v => records'[w] = records[w]
  BY DEF WriteStep, IInv, TypeOK, Registry
<1>2. \A u \in Tasks \ {t} : task'[u] = task[u] /\ (Live(u)' <=> Live(u))
  BY DEF WriteStep, Live
<1>3. \A w \in Vids : Present(records, w) =>
          Present(records', w) /\ records'[w].parent = records[w].parent
  BY <1>1 DEF WriteStep, Present, SameIdentity
<1>4. \A u \in Tasks : task[u].step = "regSave" => task[u].vid \in Vids
  BY BusyTask DEF IInv
<1>5. ASSUME NEW u \in Tasks \ {t}, task'[u].step = "regSave", Live(u)'
      PROVE  Present(records', task'[u].vid) /\ records'[task'[u].vid].parent = task'[u].prev
  BY <1>2, <1>3, <1>4, <1>5 DEF IInv, AfterRegister
<1>6. Present(records', v)
  BY <1>1 DEF WriteStep, Present
<1> QED BY <1>1, <1>5, <1>6 DEF AfterRegister

\* What the other supersessions in flight need of a write.
SparesWindows(t, v, rec) ==
    \A u \in Tasks \ {t} : InWindow(u) =>
        /\ task[u].vid # v
        /\ rec.state = "active" => rec.root # records[task[u].vid].root
        /\ task[u].prev = v => rec.state \in {"superseded", "deleted"}

\* A write that spares the other supersessions, and leaves its own operation with
\* a window as it must be, if with any, keeps Window.
LEMMA WriteKeepsWindow ==
    ASSUME IInv, NEW t \in Tasks, NEW v \in Vids, NEW rec \in Record,
           WriteStep(t, v, rec), SparesWindows(t, v, rec),
           InWindow(t)' =>
             LET w == task'[t].vid
                 p == task'[t].prev
             IN  /\ w \in Vids
                 /\ p \in Vids
                 /\ records'[w].state = "pending"
                 /\ records'[w].parent = p
                 /\ records'[p].state \in {"superseded", "deleted"}
                 /\ task'[t].rec = WithState(records'[w], "active")
                 /\ \A x \in Vids : Active(records', x) => records'[x].root # records'[w].root
                 /\ \A u \in Tasks \ {t} :
                     InWindow(u) => records[task[u].vid].root # records'[w].root
    PROVE  Window'
<1>1. /\ records' = [records EXCEPT ![v] = rec]
      /\ records'[v] = rec
      /\ \A w \in Vids : w # v => records'[w] = records[w]
  BY DEF WriteStep, IInv, TypeOK, Registry
<1>2. \A u \in Tasks \ {t} : task'[u] = task[u] /\ (InWindow(u)' <=> InWindow(u))
  BY DEF WriteStep, Live, InWindow
<1>3. \A u \in Tasks : InWindow(u) => task[u].vid \in Vids
  BY BusyTask DEF IInv, InWindow
<1>4. \A u \in Tasks \ {t} : InWindow(u)' =>
          InWindow(u) /\ task[u].vid \in Vids /\ records'[task[u].vid] = records[task[u].vid]
  BY <1>1, <1>2, <1>3 DEF SparesWindows
<1>5. ASSUME NEW u \in Tasks \ {t}, InWindow(u)'
      PROVE  /\ task'[u].prev \in Vids
             /\ records'[task'[u].vid].state = "pending"
             /\ records'[task'[u].vid].parent = task'[u].prev
             /\ task'[u].rec = WithState(records'[task'[u].vid], "active")
  BY <1>2, <1>4, <1>5 DEF IInv, Window
<1>6. ASSUME NEW u \in Tasks \ {t}, InWindow(u)'
      PROVE  records'[task'[u].prev].state \in {"superseded", "deleted"}
  BY <1>1, <1>2, <1>4, <1>6 DEF IInv, Window, SparesWindows
<1>7. ASSUME NEW u \in Tasks \ {t}, InWindow(u)', NEW x \in Vids, Active(records', x)
      PROVE  records'[x].root # records'[task'[u].vid].root
  BY <1>1, <1>2, <1>4, <1>7 DEF IInv, Window, SparesWindows, Active
<1>8. ASSUME NEW u \in Tasks \ {t}, InWindow(u)', NEW w \in Tasks \ {u}, InWindow(w)'
      PROVE  records'[task'[w].vid].root # records'[task'[u].vid].root
  <2>1. CASE w = t
    BY <1>2, <1>4, <1>8, <2>1
  <2>2. CASE w # t
    BY <1>2, <1>4, <1>8, <2>2 DEF IInv, Window
  <2> QED BY <2>1, <2>2
<1>9. ASSUME InWindow(t)', NEW w \in Tasks \ {t}, InWindow(w)'
      PROVE  records'[task'[w].vid].root # records'[task'[t].vid].root
  BY <1>2, <1>4, <1>9
<1> QED BY <1>5, <1>6, <1>7, <1>8, <1>9 DEF Window

(***************************************************************************)
(* One lemma for each step that writes a record.                           *)
(***************************************************************************)

\* A registered id was issued, and no persist is about to register it.
LEMMA RegisteredIsTaken ==
    ASSUME IInv, NEW v \in Vids, Present(records, v)
    PROVE  /\ v \in issued
           /\ \A u \in Tasks : task[u].step \in PreSteps => task[u].vid # v
BY DEF IInv, OnlyIssued, BeforeRegister, Unregistered, Registries

\* register_record after the artifact was found.
LEMMA RegisterKeeps ==
    ASSUME IInv, TypeOK', NEW t \in Tasks, Register(t)
    PROVE  IInv'
<1> DEFINE v == task[t].vid
           rec == task[t].rec
<1>1. v \in Vids /\ rec \in Record /\ task[t].step = "regExists" /\ Live(t)
  BY BusyTask DEF IInv, Register, At
<1>2. /\ v \in issued
      /\ ~Present(records, v)
      /\ rec.state = "pending"
      /\ rec.next = None
      /\ rec.parent = task[t].prev
      /\ Fits(records, v, rec)
      /\ \A u \in Tasks \ {t} : task[u].step \in PreSteps => task[u].vid # v
  BY <1>1 DEF IInv, BeforeRegister, PreSteps, Unregistered, Registries
<1>3. /\ task'[t].step = "regSave"
      /\ task'[t].vid = v
      /\ task'[t].prev = task[t].prev
      /\ task'[t].epoch = task[t].epoch
      /\ \A u \in Tasks \ {t} : task'[u] = task[u]
      /\ records' = [records EXCEPT ![v] = rec]
      /\ Snapshots' \subseteq Snapshots \cup {records'}
  BY <1>1, AtSaveFields, CommitWrites DEF Register, IInv, SaveSteps
<1>4. GoodRegistry([records EXCEPT ![v] = rec])
  BY <1>1, <1>2, AddIsGood DEF IInv, TypeOK, GoodRegistries, Everywhere, Registries
<1>5. WriteStep(t, v, rec)
  BY <1>1, <1>2, <1>3, <1>4 DEF WriteStep, Register, Live, IInv, EpochsAgree, PreSteps
<1>6. AfterRegister'
  BY <1>1, <1>2, <1>3, <1>5, WriteKeepsAfterRegister
<1>7. SparesWindows(t, v, rec)
  BY <1>2 DEF SparesWindows, IInv, Window, Present
<1>8. Window'
  BY <1>1, <1>3, <1>5, <1>7, WriteKeepsWindow DEF InWindow
<1> QED BY <1>1, <1>5, <1>6, <1>8, WriteKeeps DEF IInv

\* activate_record, for a first enrolment.
LEMMA ActivateNewKeeps ==
    ASSUME IInv, TypeOK', NEW t \in Tasks, ActivateNew(t)
    PROVE  IInv'
<1> DEFINE v == task[t].vid
           rec == WithState(records[v], "active")
<1>1. v \in Vids /\ task[t].step = "regSave" /\ Live(t) /\ task[t].prev = None
  BY BusyTask DEF IInv, ActivateNew, CanFinishPersist, At
<1>2. records[v] \in Record
  BY <1>1 DEF IInv, TypeOK, Registry
<1>3. Present(records, v) /\ records[v].parent = None
  BY <1>1 DEF IInv, AfterRegister
<1>4. records[v].root = v
  BY <1>1, <1>3 DEF IInv, GoodRegistries, Everywhere, Registries, GoodRegistry, ParentsPresent
<1>5. records[v].state = "pending" /\ ~ActiveConflict(records, v, {})
  <2>1. CanActivate(records, v)
    BY <1>1 DEF ActivateNew, CanFinishPersist
  <2>2. records[v].state \in ServiceStates
    BY <1>1 DEF IInv, GoodRegistries, Everywhere, Registries, GoodRegistry, OnlyServiceStates
  <2> QED BY <2>1, <2>2 DEF CanActivate, CanMove, AllowedTransitions, ServiceStates
<1>6. rec \in Record /\ rec.state = "active" /\ rec.root = v /\ SameIdentity(records[v], rec)
      /\ rec.subject = records[v].subject /\ rec.parent = None
  BY <1>2, <1>3, <1>4 DEF WithState, Record, SameIdentity, LifecycleStates
<1>7. records[v].next = None
  BY <1>1, <1>3, <1>5 DEF IInv, GoodRegistries, Everywhere, Registries, GoodRegistry, SuccessorsPresent
<1>8. GoodRegistry([records EXCEPT ![v] = rec])
  <2>1. \A w \in Vids : Active(records, w) /\ w # v => records[w].root # records[v].root
    BY <1>5 DEF ActiveConflict
  <2> QED BY <1>1, <1>3, <1>4, <1>7, <2>1, MoveIsGood DEF IInv, TypeOK, GoodRegistries, Everywhere, Registries
<1>9. /\ task'[t].step = "lastSave"
      /\ task'[t].epoch = task[t].epoch
      /\ \A u \in Tasks \ {t} : task'[u] = task[u]
      /\ records' = [records EXCEPT ![v] = rec]
      /\ Snapshots' \subseteq Snapshots \cup {records'}
  BY <1>1, <1>6, AtSaveFields, CommitWrites DEF ActivateNew, IInv, SaveSteps
<1> HIDE DEF rec
<1>10. WriteStep(t, v, rec)
  BY <1>1, <1>3, <1>6, <1>8, <1>9, RegisteredIsTaken
     DEF WriteStep, ActivateNew, Live, IInv, EpochsAgree, PreSteps, rec
<1>11. SparesWindows(t, v, rec)
  <2> SUFFICES ASSUME NEW u \in Tasks \ {t}, InWindow(u)
               PROVE  /\ task[u].vid # v
                      /\ v # records[task[u].vid].root
                      /\ task[u].prev # v
    BY <1>6 DEF SparesWindows
  <2>1. /\ task[u].prev \in Vids
        /\ task[u].vid \in Vids
        /\ records[task[u].vid].state = "pending"
        /\ records[task[u].vid].parent = task[u].prev
        /\ records[task[u].prev].state \in {"superseded", "deleted"}
    BY BusyTask DEF IInv, Window, InWindow
  <2>2. task[u].prev # None
    BY <2>1, NoneAssumption
  <2>3. /\ records[task[u].prev].root = records[task[u].vid].root
        /\ records[records[task[u].prev].root].state # "pending"
    BY <2>1, <2>2
       DEF IInv, GoodRegistries, Everywhere, Registries, GoodRegistry, ParentsPresent, RootsMoveFirst, Present
  <2> QED BY <1>3, <1>5, <2>1, <2>2, <2>3
<1>12. AfterRegister'
  BY <1>1, <1>6, <1>9, <1>10, WriteKeepsAfterRegister
<1>13. Window'
  BY <1>1, <1>6, <1>9, <1>10, <1>11, WriteKeepsWindow DEF InWindow
<1> QED BY <1>1, <1>6, <1>10, <1>12, <1>13, WriteKeeps DEF IInv

\* supersede_record up to its first write, in a persist or a supersede operation.
LEMMA SupersedeKeeps ==
    ASSUME IInv, TypeOK', NEW t \in Tasks, NEW p \in Vids, NEW v \in Vids,
           \/ SupersedeNew(t) /\ p = task[t].prev /\ v = task[t].vid
           \/ StartSupersede(t, p, v)
    PROVE  IInv'
<1> DEFINE rec == SupersededBy(records[p], v)
<1>12. /\ loaded
       /\ CanCoordinate(records, p, v)
       /\ UNCHANGED <<loaded, epoch, disk, issued>>
       /\ records' = [records EXCEPT ![p] = rec]
       /\ Snapshots' \subseteq Snapshots \cup {records'}
       /\ \A u \in Tasks \ {t} : task'[u] = task[u]
       /\ task'[t].step = "swapSave"
       /\ task'[t].vid = v
       /\ task'[t].prev = p
       /\ task'[t].rec = WithState(records[v], "active")
       /\ task'[t].epoch = epoch
  BY SupersedeWrites DEF IInv
<1>1. records[v] \in Record /\ records[p] \in Record
  BY DEF IInv, TypeOK, Registry
<1>2. /\ records[p].state = "active"
      /\ records[v].state = "pending"
      /\ records[v].parent = p
      /\ records[v].root = records[p].root
      /\ p # v
  <2>1. records[p].state \in ServiceStates /\ records[v].state \in ServiceStates
    BY DEF IInv, GoodRegistries, Everywhere, Registries, GoodRegistry, OnlyServiceStates
  <2> QED BY <1>12, <2>1 DEF CanCoordinate, CanSupersede, CanMove, AllowedTransitions, ServiceStates
<1>3. /\ rec \in Record
      /\ rec.state = "superseded"
      /\ SameIdentity(records[p], rec)
      /\ rec.subject = records[p].subject
  BY <1>1 DEF SupersededBy, Record, SameIdentity, LifecycleStates
<1>4. GoodRegistry([records EXCEPT ![p] = rec])
  BY <1>2, SupersedeIsGood
     DEF IInv, TypeOK, GoodRegistries, Everywhere, Registries, Active, Present
<1> HIDE DEF rec
<1>5. WriteStep(t, p, rec)
  BY <1>2, <1>3, <1>4, <1>12, RegisteredIsTaken
     DEF WriteStep, Present, IInv, TypeOK, Epochs, PreSteps
<1>6. SparesWindows(t, p, rec)
  BY <1>2, <1>3 DEF SparesWindows, IInv, Window
<1>7. AfterRegister'
  BY <1>3, <1>5, <1>12, WriteKeepsAfterRegister
<1>8. /\ records'[v] = records[v]
      /\ records'[p] = rec
      /\ \A x \in Vids : x # p => records'[x] = records[x]
  BY <1>2, <1>12 DEF IInv, TypeOK, Registry
<1>9. ASSUME NEW x \in Vids, Active(records', x) PROVE records'[x].root # records'[v].root
  <2>1. x # p /\ records'[x] = records[x] /\ Active(records, x)
    BY <1>3, <1>8, <1>9 DEF Active
  <2> QED BY <1>2, <1>8, <2>1
          DEF IInv, GoodRegistries, Everywhere, Registries, GoodRegistry, OneActivePerLineage, Active
<1>10. \A u \in Tasks \ {t} : InWindow(u) => records[task[u].vid].root # records'[v].root
  BY <1>2, <1>8 DEF IInv, Window, Active
<1>11. Window'
  BY <1>2, <1>3, <1>5, <1>6, <1>8, <1>9, <1>10, <1>12, WriteKeepsWindow
<1> QED BY <1>3, <1>5, <1>7, <1>11, WriteKeeps DEF IInv

\* The second write of supersede_record.
LEMMA WriteReplacementKeeps ==
    ASSUME IInv, TypeOK', NEW t \in Tasks, WriteReplacement(t)
    PROVE  IInv'
<1> DEFINE v == task[t].vid
           p == task[t].prev
           rec == WithState(records[v], "active")
<1>1. v \in Vids /\ InWindow(t)
  BY BusyTask DEF IInv, WriteReplacement, CanWriteReplacement, At, InWindow
<1>2. /\ p \in Vids
      /\ records[v].state = "pending"
      /\ records[v].parent = p
      /\ records[p].state \in {"superseded", "deleted"}
      /\ task[t].rec = rec
      /\ \A w \in Vids : Active(records, w) => records[w].root # records[v].root
      /\ \A u \in Tasks \ {t} : InWindow(u) => records[task[u].vid].root # records[v].root
  BY <1>1 DEF IInv, Window
<1>3. records[v] \in Record
  BY <1>1 DEF IInv, TypeOK, Registry
<1>4. /\ rec \in Record
      /\ rec.state = "active"
      /\ rec.root = records[v].root
      /\ SameIdentity(records[v], rec)
      /\ rec.subject = records[v].subject
  BY <1>3 DEF WithState, Record, SameIdentity, LifecycleStates
<1>5. records[v].next = None
  BY <1>1, <1>2 DEF IInv, GoodRegistries, Everywhere, Registries, GoodRegistry, SuccessorsPresent
<1>6. records[records[v].root].state # "pending"
  <2>1. p # None
    BY <1>2, NoneAssumption
  <2>2. records[p].root = records[v].root
    BY <1>1, <1>2, <2>1 DEF IInv, GoodRegistries, Everywhere, Registries, GoodRegistry, ParentsPresent, Present
  <2> QED BY <1>2, <2>2 DEF IInv, GoodRegistries, Everywhere, Registries, GoodRegistry, RootsMoveFirst, Present
<1>7. GoodRegistry([records EXCEPT ![v] = rec])
  BY <1>1, <1>2, <1>5, <1>6, MoveIsGood
     DEF IInv, TypeOK, GoodRegistries, Everywhere, Registries, Present
<1>8. /\ task'[t].step = "lastSave"
      /\ task'[t].epoch = task[t].epoch
      /\ \A u \in Tasks \ {t} : task'[u] = task[u]
      /\ records' = [records EXCEPT ![v] = rec]
      /\ Snapshots' \subseteq Snapshots \cup {records'}
  BY <1>1, <1>2, <1>4, AtSaveFields, CommitWrites DEF WriteReplacement, IInv, SaveSteps
<1> HIDE DEF rec
<1>9. WriteStep(t, v, rec)
  <2>1. loaded /\ UNCHANGED <<loaded, epoch, disk, issued>>
    BY DEF WriteReplacement, CanWriteReplacement, Live
  <2>2. Present(records, v)
    BY <1>2 DEF Present
  <2> QED BY <1>1, <1>4, <1>7, <1>8, <2>1, <2>2, RegisteredIsTaken
          DEF WriteStep, IInv, EpochsAgree, PreSteps
<1>10. SparesWindows(t, v, rec)
  BY <1>2, <1>4 DEF SparesWindows, IInv, Window
<1>11. AfterRegister'
  BY <1>1, <1>4, <1>8, <1>9, WriteKeepsAfterRegister
<1>12. Window'
  BY <1>1, <1>4, <1>8, <1>9, <1>10, WriteKeepsWindow DEF InWindow
<1> QED BY <1>1, <1>4, <1>9, <1>11, <1>12, WriteKeeps DEF IInv

\* Retiring a record, by delete_voiceprint or delete_artifact.
LEMMA RetireKeeps ==
    ASSUME IInv, TypeOK', NEW t \in Tasks, NEW v \in Vids,
           NEW op \in Operations, NEW step \in {"lastSave", "eraseSave"},
           Move(t, op, step, v, "deleted")
    PROVE  IInv'
<1> DEFINE rec == WithState(records[v], "deleted")
<1>1. records[v] \in Record
  BY DEF IInv, TypeOK, Registry
<1>2. records[v].state \in {"active", "superseded", "deleted"} /\ Present(records, v)
  <2>1. records[v].state \in ServiceStates
    BY DEF IInv, GoodRegistries, Everywhere, Registries, GoodRegistry, OnlyServiceStates
  <2> QED BY <2>1 DEF Move, CanMove, AllowedTransitions, ServiceStates, Present
<1>3. /\ rec \in Record
      /\ rec.state = "deleted"
      /\ SameIdentity(records[v], rec)
      /\ rec.subject = records[v].subject
  BY <1>1 DEF WithState, Record, SameIdentity, LifecycleStates
<1>4. records[records[v].root].state # "pending"
  BY <1>2 DEF IInv, GoodRegistries, Everywhere, Registries, GoodRegistry, RootsMoveFirst
<1>5. GoodRegistry([records EXCEPT ![v] = rec])
  BY <1>2, <1>4, MoveIsGood DEF IInv, TypeOK, GoodRegistries, Everywhere, Registries
<1>6. /\ loaded
      /\ UNCHANGED <<loaded, epoch, disk, issued>>
      /\ records' = [records EXCEPT ![v] = rec]
      /\ Snapshots' \subseteq Snapshots \cup {records'}
      /\ task'[t].step = step
      /\ task'[t].epoch = epoch
      /\ \A u \in Tasks \ {t} : task'[u] = task[u]
  BY MoveWrites DEF IInv, SaveSteps
<1> HIDE DEF rec
<1>7. WriteStep(t, v, rec)
  BY <1>2, <1>3, <1>5, <1>6, RegisteredIsTaken DEF WriteStep, IInv, TypeOK, Epochs, PreSteps
<1>8. SparesWindows(t, v, rec)
  BY <1>2, <1>3 DEF SparesWindows, IInv, Window
<1>9. AfterRegister'
  BY <1>3, <1>6, <1>7, WriteKeepsAfterRegister
<1>10. Window'
  BY <1>3, <1>6, <1>7, <1>8, WriteKeepsWindow DEF InWindow
<1> QED BY <1>3, <1>7, <1>9, <1>10, WriteKeeps DEF IInv

\* A persist begins, with an id nobody was given before and a record that fits.
LEMMA StartPersistKeeps ==
    ASSUME IInv, TypeOK', NEW t \in Tasks, NEW v \in Vids \ issued, NEW p,
           NEW activate, NEW rec \in Record,
           task' = [task EXCEPT ![t] = Operation("persist", "exists", "exists", v, p,
                                                 activate, rec)],
           rec.state = "pending", rec.next = None, rec.parent = p, Fits(records, v, rec),
           issued' = issued \cup {v},
           UNCHANGED <<records, loaded, epoch, disk, unsaved>>
    PROVE  IInv'
<1>1. /\ task'[t].step = "exists"
      /\ task'[t].vid = v
      /\ task'[t].prev = p
      /\ task'[t].rec = rec
      /\ task'[t].epoch = epoch
      /\ \A u \in Tasks \ {t} : task'[u] = task[u]
      /\ task'[t].snap = None
  BY DEF Operation, IInv, TypeOK
<1>2. \A u \in Tasks \ {t} : Live(u)' <=> Live(u)
  BY <1>1 DEF Live
<1>10. Snapshots' \subseteq Snapshots
  BY <1>1, SnapshotMembers, SnapshotsWithin DEF IInv
<1>3. \A w \in Vids : Unregistered(w) => Unregistered(w)'
  BY <1>10 DEF Unregistered, Registries
<1>4. GoodRegistries'
  BY <1>10 DEF IInv, GoodRegistries, Everywhere, Registries
<1>5. OnlyIssued'
  BY <1>3 DEF IInv, OnlyIssued
<1>6. BeforeRegister'
  <2>1. Unregistered(v)'
    BY <1>3 DEF IInv, OnlyIssued
  <2>2. \A u \in Tasks \ {t} : task[u].step \in PreSteps =>
            task[u].vid \in Vids /\ task[u].vid \in issued /\ task[u].vid # v
    BY BusyTask DEF IInv, BeforeRegister, PreSteps
  <2>3. \A u \in Tasks \ {t} : task'[u].step \in PreSteps => Unregistered(task[u].vid)'
    BY <1>1, <1>3, <2>2 DEF IInv, BeforeRegister
  <2>4. ASSUME NEW u \in Tasks \ {t}, task'[u].step \in PreSteps
        PROVE  /\ task'[u].vid \in issued'
               /\ task'[u].rec.state = "pending"
               /\ task'[u].rec.next = None
               /\ task'[u].rec.parent = task'[u].prev
               /\ Live(u)' => Fits(records', task'[u].vid, task'[u].rec)
               /\ \A w \in Tasks \ {u} :
                    task'[w].step \in PreSteps => task'[w].vid # task'[u].vid
    BY <1>1, <1>2, <2>2, <2>4 DEF IInv, BeforeRegister
  <2> QED BY <1>1, <2>1, <2>2, <2>3, <2>4 DEF BeforeRegister
<1>7. AfterRegister'
  BY <1>1, <1>2 DEF IInv, AfterRegister
<1>8. Window'
  <2>1. ~InWindow(t)'
    BY <1>1 DEF InWindow
  <2>2. \A u \in Tasks \ {t} : task'[u] = task[u] /\ (InWindow(u)' <=> InWindow(u))
    BY <1>1, <1>2 DEF InWindow
  <2> QED BY <2>1, <2>2 DEF IInv, Window
<1>9. EpochsAgree'
  BY <1>1 DEF IInv, EpochsAgree, TypeOK, Epochs
<1> QED BY <1>4, <1>5, <1>6, <1>7, <1>8, <1>9 DEF IInv

\* The requests of callers that use fresh ids and the service operations only.
LEMMA RequestKeeps ==
    ASSUME IInv, TypeOK', ReuseIds = FALSE, ManagerMoves = {}, NEW t \in Tasks, Request(t)
    PROVE  IInv'
<1>1. ASSUME NEW v \in Vids, NEW s \in Subjects, NEW activate \in BOOLEAN,
             StartEnrol(t, v, s, activate)
      PROVE  IInv'
  <2> DEFINE rec == InitialRecord(v, s)
  <2>1. /\ rec \in Record
        /\ rec.state = "pending"
        /\ rec.next = None
        /\ rec.parent = None
        /\ rec.root = v
        /\ rec.rev = 1
    BY DEF InitialRecord, Record, LifecycleStates
  <2> HIDE DEF rec
  <2>2. Fits(records, v, rec)
    BY <2>1 DEF Fits
  <2>3. v \in Vids \ issued
    BY <1>1 DEF StartEnrol, FreshIds
  <2> QED BY <1>1, <2>1, <2>2, <2>3, StartPersistKeeps DEF StartEnrol, rec
<1>2. ASSUME NEW v \in Vids, NEW p \in Vids, NEW activate \in BOOLEAN,
             StartReenrol(t, v, p, activate)
      PROVE  IInv'
  <2> DEFINE rec == NextRecord(records, p)
  <2>1. records[p] \in Record
    BY DEF IInv, TypeOK, Registry
  <2>2. /\ rec \in Record
        /\ rec.state = "pending"
        /\ rec.next = None
        /\ rec.parent = p
        /\ rec.root = records[p].root
        /\ rec.subject = records[p].subject
        /\ rec.rev = records[p].rev + 1
    BY <2>1 DEF NextRecord, Record, LifecycleStates
  <2> HIDE DEF rec
  <2>3. Fits(records, v, rec)
    BY <1>2, <2>2, NoneAssumption DEF Fits, StartReenrol, CanPrepareNext
  <2>4. v \in Vids \ issued
    BY <1>2 DEF StartReenrol, FreshIds
  <2> QED BY <1>2, <2>2, <2>3, <2>4, StartPersistKeeps DEF StartReenrol, rec
<1>3. ASSUME NEW v \in Vids, NEW p \in Vids, StartSupersede(t, p, v)
      PROVE  IInv'
  BY <1>3, SupersedeKeeps
<1>4. ASSUME NEW v \in Vids, StartDelete(t, v) \/ StartErase(t, v)
      PROVE  IInv'
  BY <1>4, RetireKeeps DEF StartDelete, StartErase, Operations
<1>5. ~ \E v \in Vids : ActivateRecord(t, v) \/ DeactivateRecord(t, v) \/ MarkFailed(t, v)
  BY DEF ActivateRecord, DeactivateRecord, MarkFailed
<1> QED BY <1>1, <1>2, <1>3, <1>4, <1>5 DEF Request

\* What an operation does when its await is over.
LEMMA ResumeKeeps ==
    ASSUME IInv, TypeOK', NEW t \in Tasks, Resume(t)
    PROVE  IInv'
<1>1. TypeOK
  BY DEF IInv
<1>2. CASE SupersedeNew(t)
  <2>1. task[t].vid \in Vids /\ task[t].prev \in Vids
    BY <1>1, <1>2, BusyTask DEF SupersedeNew, At, TypeOK, Task
  <2> QED BY <1>2, <2>1, SupersedeKeeps
<1> QED BY <1>1, <1>2, QuietSteps, QuietKeeps, RegisterKeeps, ActivateNewKeeps,
           WriteReplacementKeeps DEF Resume

--------------------------------------------------------------------------------

\* The invariant is inductive.
LEMMA InvariantStep ==
    ASSUME IInv, ReuseIds = FALSE, ManagerMoves = {}, [Next]_vars
    PROVE  IInv'
<1>1. TypeOK
  BY DEF IInv
<1>2. TypeOK'
  BY <1>1, TypeStep
<1>3. CASE \E t \in Tasks : Request(t)
  BY <1>2, <1>3, RequestKeeps
<1>4. CASE \E t \in Tasks : Resume(t)
  BY <1>2, <1>4, ResumeKeeps
<1>5. CASE \E t \in Tasks : Executor(t)
  BY <1>1, <1>2, <1>5, QuietExecutor, QuietKeeps
<1>6. CASE \E t \in Tasks : Timeout(t) \/ TimeoutRunning(t)
  BY <1>1, <1>2, <1>6, QuietSteps, QuietKeeps
<1>7. CASE Load \/ Unload \/ Crash
  BY <1>2, <1>7, LifeKeeps
<1>8. CASE UNCHANGED vars
  <2>1. GoodRegistries' /\ OnlyIssued'
    BY <1>8 DEF vars, IInv, GoodRegistries, Everywhere, OnlyIssued, Unregistered, Registries,
                Snapshots
  <2>2. BeforeRegister' /\ AfterRegister' /\ Window' /\ EpochsAgree'
    BY <1>8 DEF vars, IInv, BeforeRegister, AfterRegister, Window, InWindow, EpochsAgree,
                Live, Unregistered, Registries, Snapshots
  <2> QED BY <1>2, <2>1, <2>2 DEF IInv
<1> QED BY <1>3, <1>4, <1>5, <1>6, <1>7, <1>8 DEF Next

\* The invariant holds of a fresh service.
LEMMA InvariantInit ==
    ASSUME Init
    PROVE  IInv
<1>1. TypeOK
  BY TypeInit
<1>3. \A t \in Tasks : task[t] = Idle
  BY DEF Init
<1>6. Registries = {EmptyRegistry}
  BY <1>3, SnapshotAssumption, AbsentType DEF Init, Registries, Snapshots, Idle
<1>2. GoodRegistries /\ OnlyIssued
  BY <1>6, EmptyIsGood DEF GoodRegistries, Everywhere, OnlyIssued, Unregistered
<1>4. BeforeRegister /\ AfterRegister /\ Window
  BY <1>3 DEF BeforeRegister, AfterRegister, Window, InWindow, PreSteps, Idle
<1>5. EpochsAgree
  BY <1>3, MaxEpochAssumption DEF EpochsAgree, Idle, Init
<1> QED BY <1>1, <1>2, <1>4, <1>5 DEF IInv

\* The invariant holds of every state that callers with fresh ids and the service
\* operations lead to, under every disturbance.
THEOREM InvariantHolds == (ReuseIds = FALSE /\ ManagerMoves = {}) => (Spec => []IInv)
<1> SUFFICES ASSUME ReuseIds = FALSE, ManagerMoves = {}
             PROVE  Spec => []IInv
  OBVIOUS
<1>1. Init => IInv
  BY InvariantInit
<1>2. IInv /\ [Next]_vars => IInv'
  BY InvariantStep
<1> QED BY <1>1, <1>2, PTL DEF Spec

\* No snapshot is ever written, or loaded, with a record whose parent or successor
\* is missing: the lineages are trees.
THEOREM LineagesAreForests ==
    (ReuseIds = FALSE /\ ManagerMoves = {}) => (Spec => []LineageForest)
<1>1. IInv => LineageForest
  BY DEF IInv, GoodRegistries, GoodRegistry, LineageForest, Everywhere
<1> QED BY <1>1, InvariantHolds, PTL

\* A lineage never has two active voiceprints, also between the two writes of a
\* supersession.
THEOREM OneActiveVoiceprintPerLineage ==
    (ReuseIds = FALSE /\ ManagerMoves = {}) => (Spec => []SingleActivePerLineage)
<1>1. IInv => SingleActivePerLineage
  BY DEF IInv, GoodRegistries, GoodRegistry, SingleActivePerLineage, Everywhere
<1> QED BY <1>1, InvariantHolds, PTL

\* What one step does to the state of a record.
LEMMA LifecycleStepHolds ==
    ASSUME IInv, ReuseIds = FALSE, ManagerMoves = {}, Next, loaded, loaded',
           NEW x \in Vids
    PROVE  LifecycleStep(records[x].state, records'[x].state)
<1>1. records \in Registry /\ records[x].state \in ServiceStates
  BY DEF IInv, TypeOK, GoodRegistries, Everywhere, Registries, GoodRegistry, OnlyServiceStates
<1>2. ASSUME NEW v \in Vids, NEW rec, records' = [records EXCEPT ![v] = rec],
             LifecycleStep(records[v].state, rec.state)
      PROVE  LifecycleStep(records[x].state, records'[x].state)
  BY <1>1, <1>2 DEF Registry, LifecycleStep
<1>3. CASE UNCHANGED records
  BY <1>3 DEF LifecycleStep
<1>4. ASSUME NEW t \in Tasks, Register(t)
      PROVE  LifecycleStep(records[x].state, records'[x].state)
  <2>1. task[t].vid \in Vids /\ task[t].step \in PreSteps
    BY <1>4, BusyTask DEF Register, At, IInv, PreSteps
  <2>2. ~Present(records, task[t].vid) /\ task[t].rec.state = "pending"
    BY <2>1 DEF IInv, BeforeRegister, Unregistered, Registries
  <2> QED BY <1>2, <1>4, <2>1, <2>2 DEF Register, Commit, LifecycleStep, Present
<1>5. ASSUME NEW t \in Tasks, WriteReplacement(t)
      PROVE  LifecycleStep(records[x].state, records'[x].state)
  <2>1. task[t].vid \in Vids /\ InWindow(t)
    BY <1>5, BusyTask DEF WriteReplacement, CanWriteReplacement, At, IInv, InWindow
  <2>2. /\ records[task[t].vid].state = "pending"
        /\ task[t].rec = WithState(records[task[t].vid], "active")
    BY <2>1 DEF IInv, Window
  <2>3. task[t].rec.state = "active"
    BY <1>1, <2>1, <2>2 DEF WithState, Registry, Record
  <2> QED BY <1>2, <1>5, <2>1, <2>2, <2>3
          DEF WriteReplacement, Commit, LifecycleStep, CanMove, AllowedTransitions
<1>6. ASSUME NEW t \in Tasks, ActivateNew(t)
      PROVE  LifecycleStep(records[x].state, records'[x].state)
  <2>1. task[t].vid \in Vids /\ CanMove(records[task[t].vid].state, "active")
    BY <1>6, BusyTask DEF ActivateNew, At, IInv, CanFinishPersist, CanActivate
  <2>2. WithState(records[task[t].vid], "active").state = "active"
    BY <1>1, <2>1 DEF WithState, Registry, Record
  <2> QED BY <1>2, <1>6, <2>1, <2>2 DEF ActivateNew, Commit, LifecycleStep
<1>7. ASSUME NEW p \in Vids, NEW v \in Vids, CanCoordinate(records, p, v),
             records' = [records EXCEPT ![p] = SupersededBy(records[p], v)]
      PROVE  LifecycleStep(records[x].state, records'[x].state)
  <2>1. CanMove(records[p].state, "superseded")
    BY <1>7 DEF CanCoordinate, CanSupersede
  <2>2. SupersededBy(records[p], v).state = "superseded"
    BY <1>1 DEF SupersededBy, Registry, Record
  <2> QED BY <1>2, <1>7, <2>1, <2>2 DEF LifecycleStep
<1>8. ASSUME NEW t \in Tasks, SupersedeNew(t)
      PROVE  LifecycleStep(records[x].state, records'[x].state)
  <2>1. task[t].vid \in Vids /\ task[t].prev \in Vids
    BY <1>8, BusyTask DEF SupersedeNew, At, IInv, TypeOK, Task
  <2> QED BY <1>7, <1>8, <2>1 DEF SupersedeNew, Commit, CanFinishPersist
<1>9. ASSUME NEW t \in Tasks, NEW op, NEW step, NEW v \in Vids, NEW state,
             Move(t, op, step, v, state)
      PROVE  LifecycleStep(records[x].state, records'[x].state)
  <2>1. WithState(records[v], state).state = state
    BY <1>1 DEF WithState, Registry, Record
  <2> QED BY <1>2, <1>9, <2>1 DEF Move, Commit, LifecycleStep
<1>10. ASSUME NEW t \in Tasks, Request(t)
       PROVE  LifecycleStep(records[x].state, records'[x].state)
  <2>1. CASE \E v \in Vids, s \in Subjects, activate \in BOOLEAN : StartEnrol(t, v, s, activate)
    BY <1>3, <2>1 DEF StartEnrol
  <2>2. CASE \E v, p \in Vids, activate \in BOOLEAN : StartReenrol(t, v, p, activate)
    BY <1>3, <2>2 DEF StartReenrol
  <2>3. CASE \E v, p \in Vids : StartSupersede(t, p, v)
    BY <1>7, <2>3 DEF StartSupersede, Commit
  <2>4. CASE \E v \in Vids : \/ StartDelete(t, v) \/ StartErase(t, v)
                              \/ ActivateRecord(t, v) \/ DeactivateRecord(t, v)
                              \/ MarkFailed(t, v)
    BY <1>9, <2>4 DEF StartDelete, StartErase, ActivateRecord, DeactivateRecord, MarkFailed
  <2> QED BY <1>10, <2>1, <2>2, <2>3, <2>4 DEF Request
<1>11. ASSUME NEW t \in Tasks, Resume(t)
       PROVE  LifecycleStep(records[x].state, records'[x].state)
  <2>1. TypeOK
    BY DEF IInv
  <2>2. QuietStep(t) => UNCHANGED records
    BY DEF QuietStep
  <2> QED BY <1>3, <1>4, <1>5, <1>6, <1>8, <1>11, <2>1, <2>2, QuietSteps DEF Resume
<1>12. CASE \E t \in Tasks : Executor(t) \/ Timeout(t) \/ TimeoutRunning(t)
  <2>1. TypeOK
    BY DEF IInv
  <2>2. \A t \in Tasks : QuietStep(t) => UNCHANGED records
    BY DEF QuietStep
  <2> QED BY <1>3, <1>12, <2>1, <2>2, QuietExecutor, QuietSteps
<1>13. ~(Load \/ Unload \/ Crash)
  BY DEF Load, Unload, Crash
<1> QED BY <1>10, <1>11, <1>12, <1>13 DEF Next

\* Within one instance of the integration records only move along the allowed
\* lifecycle transitions: a DELETED voiceprint never comes back, although a
\* supersession carries a copy of its replacement across an await.
THEOREM LifecycleHolds ==
    (ReuseIds = FALSE /\ ManagerMoves = {}) => (Spec => LifecycleIsFollowed)
<1> SUFFICES ASSUME ReuseIds = FALSE, ManagerMoves = {}
             PROVE  Spec => LifecycleIsFollowed
  OBVIOUS
<1> DEFINE Followed ==
        (loaded /\ loaded') =>
            \A v \in Vids : LifecycleStep(records[v].state, records'[v].state)
<1>1. IInv /\ [Next]_vars => [Followed]_vars
  BY LifecycleStepHolds
<1>2. Spec => []IInv
  BY InvariantHolds
<1> QED BY <1>1, <1>2, PTL DEF Spec, LifecycleIsFollowed

--------------------------------------------------------------------------------
(***************************************************************************)
(* One operation at a time: what its writes do to an orderly registry.     *)
(* Callers may use ids again and the manager may be called beside the      *)
(* service.                                                                *)
(***************************************************************************)

\* The revisions of a valid chain begin with 1.
LEMMA RevisionsArePositive ==
    ASSUME NEW reg \in Registry, \A r \in Vids : ValidLineage(reg, r),
           NEW v \in Vids, Present(reg, v), reg[v].root \in Vids
    PROVE  reg[v].rev \in Nat /\ reg[v].rev >= 1
<1>1. v \in Lineage(reg, reg[v].root)
  BY DEF Lineage
<1>2. \A w \in Vids : reg[w].rev \in Nat
  BY DEF Registry, Record
<1> QED BY <1>1, <1>2 DEF ValidLineage, Lineage

\* Registering a new record that appends to its chain.
LEMMA AppendIsOrderly ==
    ASSUME NEW reg \in Registry, OrderlyRegistry(reg), NEW v \in Vids, ~Present(reg, v),
           NEW rec \in Record, rec.state = "pending", Appends(reg, v, rec)
    PROVE  OrderlyRegistry([reg EXCEPT ![v] = rec])
<1> DEFINE new == [reg EXCEPT ![v] = rec]
<1>1. /\ new[v] = rec
      /\ \A w \in Vids : w # v => new[w] = reg[w]
  BY DEF Registry
<1> HIDE DEF new
<1>2. Present(new, v) /\ \A w \in Vids : Present(reg, w) => w # v /\ Present(new, w)
  BY <1>1 DEF Present
<1>3. \A w \in Vids : Present(new, w) => w = v \/ Present(reg, w)
  BY <1>1 DEF Present
<1>4. RootsPresent(new)
  <2>1. rec.root \in Vids /\ Present(new, rec.root)
    <3>1. CASE rec.parent = None
      BY <1>2, <3>1 DEF Appends
    <3>2. CASE rec.parent # None
      <4>1. rec.parent \in Vids /\ Present(reg, rec.parent) /\ rec.root = reg[rec.parent].root
        BY <3>2 DEF Appends, Record
      <4> QED BY <1>2, <4>1 DEF OrderlyRegistry, RootsPresent
    <3> QED BY <3>1, <3>2
  <2>2. ASSUME NEW w \in Vids, Present(new, w), w # v
        PROVE  new[w].root \in Vids /\ Present(new, new[w].root)
    BY <1>1, <1>2, <1>3, <2>2 DEF OrderlyRegistry, RootsPresent
  <2> QED BY <1>1, <2>1, <2>2 DEF RootsPresent
<1>5. OneActivePerSubject(new)
  BY <1>1, <1>2 DEF OneActivePerSubject, OrderlyRegistry, Active
<1>6. ASSUME NEW r \in Vids PROVE ValidLineage(new, r)
  <2>1. ValidLineage(reg, r)
    BY DEF OrderlyRegistry
  <2>2. CASE r # rec.root
    <3>1. Lineage(new, r) = Lineage(reg, r)
      BY <1>1, <1>2, <1>3, <2>2 DEF Lineage
    <3>2. \A w \in Lineage(reg, r) : w \in Vids /\ new[w] = reg[w]
      BY <1>1, <1>2 DEF Lineage
    <3> QED BY <2>1, <3>1, <3>2 DEF ValidLineage
  <2>3. CASE r = rec.root /\ rec.parent = None
    <3>1. r = v /\ rec.rev = 1
      BY <2>3 DEF Appends
    <3>2. \A w \in Vids : Present(reg, w) => reg[w].root # v
      BY DEF OrderlyRegistry, RootsPresent
    <3>3. \A w \in Vids : (Present(new, w) /\ new[w].root = v) <=> w = v
      BY <1>1, <1>2, <1>3, <2>3, <3>1, <3>2
    <3>4. Lineage(new, r) = {v}
      BY <3>1, <3>3 DEF Lineage
    <3> QED BY <1>1, <2>3, <3>1, <3>4 DEF ValidLineage
  <2>4. CASE r = rec.root /\ rec.parent # None
    <3> DEFINE p == rec.parent
    <3>1. /\ p \in Vids
          /\ Present(reg, p)
          /\ reg[p].root = r
          /\ rec.rev = reg[p].rev + 1
          /\ \A w \in Lineage(reg, r) : reg[w].rev <= reg[p].rev
      BY <2>4 DEF Appends, IsLatest, Record
    <3>2. Lineage(new, r) = Lineage(reg, r) \cup {v}
      BY <1>1, <1>2, <1>3, <2>4 DEF Lineage
    <3>3. \A w \in Lineage(reg, r) : w \in Vids /\ w # v /\ new[w] = reg[w] /\ reg[w].rev \in Nat
      BY <1>1, <1>2 DEF Lineage, Registry, Record
    <3>4. p \in Lineage(reg, r)
      BY <3>1 DEF Lineage
    <3>5. reg[p].rev \in Nat /\ reg[p].rev >= 1
      BY <3>1, RevisionsArePositive DEF OrderlyRegistry
    <3> HIDE DEF p
    <3>6. \A w, x \in Lineage(new, r) : new[w].rev = new[x].rev => w = x
      BY <1>1, <2>1, <3>1, <3>2, <3>3, <3>5 DEF ValidLineage
    <3>7. ASSUME NEW w \in Lineage(reg, r)
          PROVE  IF new[w].rev = 1
                 THEN w = r /\ new[w].parent = None
                 ELSE /\ new[w].parent \in Lineage(new, r)
                      /\ new[w].rev = new[new[w].parent].rev + 1
      <4>1. new[w] = reg[w]
        BY <3>3
      <4>2. IF reg[w].rev = 1
            THEN w = r /\ reg[w].parent = None
            ELSE /\ reg[w].parent \in Lineage(reg, r)
                 /\ reg[w].rev = reg[reg[w].parent].rev + 1
        BY <2>1 DEF ValidLineage
      <4> QED BY <3>2, <3>3, <4>1, <4>2
    <3>8. /\ new[v].rev # 1
          /\ new[v].parent \in Lineage(new, r)
          /\ new[v].rev = new[new[v].parent].rev + 1
      BY <1>1, <3>1, <3>2, <3>3, <3>4, <3>5 DEF p
    <3> QED BY <3>2, <3>6, <3>7, <3>8 DEF ValidLineage
  <2> QED BY <2>2, <2>3, <2>4
<1> QED BY <1>4, <1>5, <1>6 DEF OrderlyRegistry, new

\* Changing the state of a record: when it becomes active, no other record of the
\* subject is.
LEMMA MoveIsOrderly ==
    ASSUME NEW reg \in Registry, OrderlyRegistry(reg), NEW v \in Vids, Present(reg, v),
           NEW rec \in Record, rec.state # "absent", SameIdentity(reg[v], rec),
           rec.subject = reg[v].subject,
           rec.state = "active" =>
               \A w \in Vids \ {v} : Active(reg, w) => reg[w].subject # reg[v].subject
    PROVE  OrderlyRegistry([reg EXCEPT ![v] = rec])
<1> DEFINE new == [reg EXCEPT ![v] = rec]
<1>1. /\ new[v] = rec
      /\ \A w \in Vids : w # v => new[w] = reg[w]
  BY DEF Registry
<1> HIDE DEF new
<1>2. \A w \in Vids : Present(new, w) <=> Present(reg, w)
  BY <1>1 DEF Present
<1>3. \A w \in Vids : /\ new[w].root = reg[w].root
                      /\ new[w].parent = reg[w].parent
                      /\ new[w].rev = reg[w].rev
  BY <1>1 DEF SameIdentity
<1>4. RootsPresent(new)
  BY <1>2, <1>3 DEF RootsPresent, OrderlyRegistry
<1>5. OneActivePerSubject(new)
  BY <1>1 DEF OneActivePerSubject, OrderlyRegistry, Active
<1>6. ASSUME NEW r \in Vids PROVE ValidLineage(new, r)
  <2>1. ValidLineage(reg, r)
    BY DEF OrderlyRegistry
  <2>2. Lineage(new, r) = Lineage(reg, r)
    BY <1>2, <1>3 DEF Lineage
  <2>3. \A w \in Lineage(reg, r) : w \in Vids
    BY DEF Lineage
  <2> QED BY <1>3, <2>1, <2>2, <2>3 DEF ValidLineage
<1> QED BY <1>4, <1>5, <1>6 DEF OrderlyRegistry, new

\* The registry of a fresh or cleared instance is orderly.
LEMMA EmptyIsOrderly == OrderlyRegistry(EmptyRegistry)
<1>1. \A r \in Vids : Lineage(EmptyRegistry, r) = {}
  BY EmptyIsGood DEF Lineage
<1> QED BY <1>1, EmptyIsGood
        DEF OrderlyRegistry, RootsPresent, ValidLineage, OneActivePerSubject, Active, Present

(***************************************************************************)
(* The steps of the one operation.                                         *)
(***************************************************************************)

\* A step that writes no record, and that does not go on to register an id that
\* is taken.
LEMMA QuietStaysOrderly ==
    ASSUME SequentialInv, OneAtATime, TypeOK', NEW t \in Tasks, QuietStep(t),
           (task'[t].step = "regExists" /\ task[t].step # "regExists" /\ Live(t))
               => ~Present(records, task[t].vid)
    PROVE  SequentialInv'
<1>1. Kept(t) \/ task'[t] = Idle
  BY DEF QuietStep
<1>2. task'[t].step # "idle" => Kept(t) /\ (Live(t)' <=> Live(t))
  BY <1>1 DEF Idle, Kept, Live, QuietStep
<1>3. OrderlyRegistries'
  BY DEF SequentialInv, OrderlyRegistries, Everywhere, Registries, QuietStep
<1>4. \A u \in Tasks : u = t
  BY DEF OneAtATime
<1>5. ASSUME task'[t].step \in PreSteps, Live(t)'
      PROVE  /\ task'[t].rec.state = "pending"
             /\ Appends(records', task'[t].vid, task'[t].rec)
             /\ task'[t].step = "regExists" => ~Present(records', task'[t].vid)
  <2>1. Kept(t) /\ Live(t) /\ task[t].step \in PreSteps
    BY <1>2, <1>5 DEF PreSteps, Kept
  <2>2. records' = records /\ task'[t].vid = task[t].vid /\ task'[t].rec = task[t].rec
    BY <2>1 DEF QuietStep, Kept
  <2>3. /\ task[t].rec.state = "pending"
        /\ Appends(records, task[t].vid, task[t].rec)
        /\ task[t].step = "regExists" => ~Present(records, task[t].vid)
    BY <2>1 DEF SequentialInv, StillAppends
  <2> QED BY <2>1, <2>2, <2>3
<1>6. StillAppends'
  BY <1>4, <1>5 DEF StillAppends
<1>7. StillAlone'
  <2>1. InWindow(t)' => Kept(t) /\ InWindow(t)
    BY <1>2 DEF InWindow, Kept
  <2> QED BY <1>4, <2>1 DEF SequentialInv, StillAlone, Kept, QuietStep
<1>8. EpochsAgree'
  BY <1>1, <1>4 DEF SequentialInv, EpochsAgree, Kept, QuietStep, Idle, TypeOK, Epochs
<1> QED BY <1>3, <1>6, <1>7, <1>8 DEF SequentialInv

\* A step that writes a record into an orderly registry, and leaves its operation
\* with a window as it must be, if with any.
LEMMA WriteStaysOrderly ==
    ASSUME SequentialInv, OneAtATime, TypeOK', NEW t \in Tasks, NEW v \in Vids,
           NEW rec \in Record, records' = [records EXCEPT ![v] = rec],
           Snapshots' \subseteq Snapshots \cup {records'}, UNCHANGED epoch,
           OrderlyRegistry([records EXCEPT ![v] = rec]),
           task'[t].step \notin PreSteps, task'[t].epoch <= epoch,
           InWindow(t)' =>
             LET w == task'[t].vid
             IN  /\ Present(records', w)
                 /\ task'[t].rec = WithState(records'[w], "active")
                 /\ \A x \in Vids \ {w} :
                     Active(records', x) => records'[x].subject # records'[w].subject
    PROVE  SequentialInv'
<1>1. OrderlyRegistry(records')
  OBVIOUS
<1>2. Registries' \subseteq Registries \cup {records'}
  BY DEF Registries
<1>3. OrderlyRegistries'
  BY <1>1, <1>2 DEF SequentialInv, OrderlyRegistries, Everywhere
<1>4. \A u \in Tasks : u = t
  BY DEF OneAtATime
<1>5. StillAppends' /\ EpochsAgree'
  BY <1>4 DEF StillAppends, EpochsAgree
<1>6. StillAlone'
  BY <1>4 DEF StillAlone
<1> QED BY <1>3, <1>5, <1>6 DEF SequentialInv

\* register_record after the artifact was found.
LEMMA RegisterStaysOrderly ==
    ASSUME SequentialInv, OneAtATime, TypeOK', NEW t \in Tasks, Register(t)
    PROVE  SequentialInv'
<1> DEFINE v == task[t].vid
           rec == task[t].rec
<1>1. v \in Vids /\ rec \in Record /\ task[t].step = "regExists" /\ Live(t)
  BY BusyTask DEF SequentialInv, Register, At
<1>2. rec.state = "pending" /\ Appends(records, v, rec) /\ ~Present(records, v)
  BY <1>1 DEF SequentialInv, StillAppends, PreSteps
<1>3. OrderlyRegistry([records EXCEPT ![v] = rec])
  BY <1>1, <1>2, AppendIsOrderly
     DEF SequentialInv, TypeOK, OrderlyRegistries, Everywhere, Registries
<1>4. /\ task'[t].step = "regSave"
      /\ task'[t].epoch = task[t].epoch
      /\ records' = [records EXCEPT ![v] = rec]
      /\ Snapshots' \subseteq Snapshots \cup {records'}
  BY <1>1, AtSaveFields, CommitWrites DEF Register, SequentialInv, SaveSteps
<1> QED BY <1>1, <1>3, <1>4, WriteStaysOrderly
        DEF Register, SequentialInv, EpochsAgree, PreSteps, InWindow

\* A write that changes the state of a record and ends the operation's writes:
\* activate_record, the moves of the manager, and the retirements.
LEMMA LastMoveStaysOrderly ==
    ASSUME SequentialInv, OneAtATime, TypeOK', NEW t \in Tasks, NEW v \in Vids,
           Present(records, v), NEW state \in LifecycleStates,
           records' = [records EXCEPT ![v] = WithState(records[v], state)],
           Snapshots' \subseteq Snapshots \cup {records'}, UNCHANGED epoch,
           state = "active" =>
               \A w \in Vids \ {v} : Active(records, w) => records[w].subject # records[v].subject,
           task'[t].step \notin PreSteps \cup {"swapSave"}, task'[t].epoch <= epoch
    PROVE  SequentialInv'
<1> DEFINE rec == WithState(records[v], state)
<1>1. records[v] \in Record
  BY DEF SequentialInv, TypeOK, Registry
<1>2. /\ rec \in Record
      /\ rec.state = state
      /\ SameIdentity(records[v], rec)
      /\ rec.subject = records[v].subject
  BY <1>1 DEF WithState, Record, SameIdentity
<1>3. state # "absent"
  BY DEF LifecycleStates
<1>4. OrderlyRegistry([records EXCEPT ![v] = rec])
  <2> HIDE DEF rec
  <2> QED BY <1>2, <1>3, MoveIsOrderly
          DEF SequentialInv, TypeOK, OrderlyRegistries, Everywhere, Registries
<1> QED BY <1>2, <1>4, WriteStaysOrderly DEF InWindow

\* supersede_record up to its first write.
LEMMA SupersedeStaysOrderly ==
    ASSUME SequentialInv, OneAtATime, TypeOK', NEW t \in Tasks, NEW p \in Vids, NEW v \in Vids,
           \/ SupersedeNew(t) /\ p = task[t].prev /\ v = task[t].vid
           \/ StartSupersede(t, p, v)
    PROVE  SequentialInv'
<1> DEFINE rec == SupersededBy(records[p], v)
<1>8. /\ CanCoordinate(records, p, v)
      /\ UNCHANGED epoch
      /\ records' = [records EXCEPT ![p] = rec]
      /\ Snapshots' \subseteq Snapshots \cup {records'}
      /\ task'[t].step = "swapSave"
      /\ task'[t].vid = v
      /\ task'[t].rec = WithState(records[v], "active")
      /\ task'[t].epoch = epoch
  BY SupersedeWrites DEF SequentialInv
<1>1. records[p] \in Record /\ records \in Registry
  BY DEF SequentialInv, TypeOK, Registry
<1>2. /\ rec \in Record
      /\ rec.state = "superseded"
      /\ SameIdentity(records[p], rec)
      /\ rec.subject = records[p].subject
  BY <1>1 DEF SupersededBy, Record, SameIdentity, LifecycleStates
<1>3. /\ Present(records, p) /\ Present(records, v) /\ p # v
      /\ ~ActiveConflict(records, v, {p})
  BY <1>8 DEF CanCoordinate, CanSupersede
<1> HIDE DEF rec
<1>4. OrderlyRegistry([records EXCEPT ![p] = rec])
  BY <1>1, <1>2, <1>3, MoveIsOrderly
     DEF SequentialInv, OrderlyRegistries, Everywhere, Registries
<1>5. /\ records'[v] = records[v]
      /\ records'[p] = rec
      /\ \A x \in Vids : x # p => records'[x] = records[x]
  BY <1>1, <1>3, <1>8 DEF Registry
<1>6. \A x \in Vids \ {v} : Active(records', x) => records'[x].subject # records'[v].subject
  BY <1>2, <1>3, <1>5 DEF Active, ActiveConflict
<1>7. Present(records', v) /\ epoch \in Nat
  BY <1>3, <1>5 DEF Present, SequentialInv, TypeOK, Epochs
<1>9. task'[t].step \notin PreSteps /\ task'[t].epoch <= epoch
  BY <1>7, <1>8 DEF PreSteps
<1>10. /\ Present(records', task'[t].vid)
       /\ task'[t].rec = WithState(records'[task'[t].vid], "active")
       /\ \A x \in Vids \ {task'[t].vid} :
            Active(records', x) => records'[x].subject # records'[task'[t].vid].subject
  BY <1>5, <1>6, <1>7, <1>8
<1> QED BY <1>2, <1>4, <1>8, <1>9, <1>10, WriteStaysOrderly

\* The second write of supersede_record.
LEMMA ReplacementStaysOrderly ==
    ASSUME SequentialInv, OneAtATime, TypeOK', NEW t \in Tasks, WriteReplacement(t)
    PROVE  SequentialInv'
<1>1. task[t].vid \in Vids /\ InWindow(t)
  BY BusyTask DEF SequentialInv, WriteReplacement, CanWriteReplacement, At, InWindow
<1>2. /\ Present(records, task[t].vid)
      /\ task[t].rec = WithState(records[task[t].vid], "active")
      /\ \A w \in Vids \ {task[t].vid} :
            Active(records, w) => records[w].subject # records[task[t].vid].subject
  BY <1>1 DEF SequentialInv, StillAlone
<1>3. /\ task'[t].step = "lastSave"
      /\ task'[t].epoch = task[t].epoch
      /\ records' = [records EXCEPT ![task[t].vid] = task[t].rec]
      /\ Snapshots' \subseteq Snapshots \cup {records'}
  BY <1>1, BusyTask, AtSaveFields, CommitWrites
     DEF WriteReplacement, At, SequentialInv, SaveSteps
<1>4. task'[t].epoch <= epoch
  BY <1>3 DEF SequentialInv, EpochsAgree
<1> QED BY <1>1, <1>2, <1>3, <1>4, LastMoveStaysOrderly
        DEF WriteReplacement, PreSteps, LifecycleStates

\* A persist begins, with any id and a record that appends.
LEMMA StartStaysOrderly ==
    ASSUME SequentialInv, OneAtATime, TypeOK', NEW t \in Tasks, NEW v \in Vids, NEW p,
           NEW activate, NEW rec \in Record,
           task' = [task EXCEPT ![t] = Operation("persist", "exists", "exists", v, p,
                                                 activate, rec)],
           rec.state = "pending", Appends(records, v, rec),
           UNCHANGED <<records, loaded, epoch, disk, unsaved>>
    PROVE  SequentialInv'
<1>1. /\ task'[t].step = "exists"
      /\ task'[t].vid = v
      /\ task'[t].rec = rec
      /\ task'[t].epoch = epoch
      /\ task'[t].snap = None
  BY DEF Operation, SequentialInv, TypeOK
<1>2. \A u \in Tasks : u = t
  BY DEF OneAtATime
<1>6. Snapshots' \subseteq Snapshots
  BY <1>1, <1>2, SnapshotMembers, SnapshotsWithin DEF SequentialInv
<1>3. OrderlyRegistries'
  BY <1>6 DEF SequentialInv, OrderlyRegistries, Everywhere, Registries
<1>4. StillAppends' /\ StillAlone'
  BY <1>1, <1>2 DEF StillAppends, StillAlone, InWindow
<1>5. EpochsAgree'
  BY <1>1, <1>2 DEF EpochsAgree, SequentialInv, TypeOK, Epochs
<1> QED BY <1>3, <1>4, <1>5 DEF SequentialInv

\* Any request.
LEMMA RequestStaysOrderly ==
    ASSUME SequentialInv, OneAtATime, TypeOK', NEW t \in Tasks, Request(t)
    PROVE  SequentialInv'
<1>1. ASSUME NEW v \in Vids, NEW s \in Subjects, NEW activate \in BOOLEAN,
             StartEnrol(t, v, s, activate)
      PROVE  SequentialInv'
  <2> DEFINE rec == InitialRecord(v, s)
  <2>1. rec \in Record /\ rec.state = "pending" /\ Appends(records, v, rec)
    BY DEF InitialRecord, Record, LifecycleStates, Appends
  <2> HIDE DEF rec
  <2> QED BY <1>1, <2>1, StartStaysOrderly DEF StartEnrol, rec
<1>2. ASSUME NEW v \in Vids, NEW p \in Vids, NEW activate \in BOOLEAN,
             StartReenrol(t, v, p, activate)
      PROVE  SequentialInv'
  <2> DEFINE rec == NextRecord(records, p)
  <2>1. records[p] \in Record
    BY DEF SequentialInv, TypeOK, Registry
  <2>2. /\ rec \in Record
        /\ rec.state = "pending"
        /\ rec.parent = p
        /\ rec.root = records[p].root
        /\ rec.rev = records[p].rev + 1
    BY <2>1 DEF NextRecord, Record, LifecycleStates
  <2> HIDE DEF rec
  <2>3. Appends(records, v, rec)
    BY <1>2, <2>2, NoneAssumption DEF Appends, StartReenrol, CanPrepareNext
  <2> QED BY <1>2, <2>2, <2>3, StartStaysOrderly DEF StartReenrol, rec
<1>3. ASSUME NEW v \in Vids, NEW p \in Vids, StartSupersede(t, p, v)
      PROVE  SequentialInv'
  BY <1>3, SupersedeStaysOrderly
<1>4. ASSUME NEW op \in Operations, NEW step \in {"lastSave", "eraseSave"}, NEW v \in Vids, NEW state,
             Move(t, op, step, v, state), state = "active" => ~ActiveConflict(records, v, {})
      PROVE  SequentialInv'
  <2>1. Present(records, v) /\ state \in LifecycleStates
    BY <1>4, MoveStates DEF Move, CanMove, Present, SequentialInv, TypeOK, Registry, Record
  <2>2. /\ task'[t].step = step
        /\ task'[t].epoch = epoch
        /\ UNCHANGED epoch
        /\ epoch \in Nat
        /\ records' = [records EXCEPT ![v] = WithState(records[v], state)]
        /\ Snapshots' \subseteq Snapshots \cup {records'}
    BY <1>4, MoveWrites DEF SequentialInv, TypeOK, Epochs, SaveSteps
  <2>3. state = "active" =>
            \A w \in Vids \ {v} : Active(records, w) => records[w].subject # records[v].subject
    BY <1>4 DEF ActiveConflict
  <2>4. task'[t].step \notin PreSteps \cup {"swapSave"} /\ task'[t].epoch <= epoch
    BY <2>2 DEF PreSteps
  <2> QED BY <2>1, <2>2, <2>3, <2>4, LastMoveStaysOrderly
<1>5. ASSUME NEW v \in Vids,
             \/ StartDelete(t, v) \/ StartErase(t, v)
             \/ ActivateRecord(t, v) \/ DeactivateRecord(t, v) \/ MarkFailed(t, v)
      PROVE  SequentialInv'
  BY <1>4, <1>5 DEF StartDelete, StartErase, ActivateRecord, DeactivateRecord, MarkFailed,
                    Operations
<1> QED BY <1>1, <1>2, <1>3, <1>5 DEF Request

\* What the operation does when its await is over.
LEMMA ResumeStaysOrderly ==
    ASSUME SequentialInv, OneAtATime, TypeOK', NEW t \in Tasks, Resume(t)
    PROVE  SequentialInv'
<1>1. TypeOK
  BY DEF SequentialInv
<1>2. CASE SupersedeNew(t)
  <2>1. task[t].vid \in Vids /\ task[t].prev \in Vids
    BY <1>1, <1>2, BusyTask DEF SupersedeNew, At, TypeOK, Task
  <2> QED BY <1>2, <2>1, SupersedeStaysOrderly
<1>3. CASE ActivateNew(t)
  <2>1. task[t].vid \in Vids
    BY <1>1, <1>3, BusyTask DEF ActivateNew, At
  <2>2. CanActivate(records, task[t].vid)
    BY <1>3 DEF ActivateNew, CanFinishPersist
  <2>3. Present(records, task[t].vid)
    BY <2>2 DEF CanActivate, CanMove, Present
  <2>4. \A w \in Vids \ {task[t].vid} :
            Active(records, w) => records[w].subject # records[task[t].vid].subject
    BY <2>2 DEF CanActivate, ActiveConflict
  <2>7. WithState(records[task[t].vid], "active") \in Record
    BY <1>1, <2>1, ChangedRecordType DEF TypeOK, Registry, LifecycleStates
  <2>5. /\ task'[t].step = "lastSave"
        /\ task'[t].epoch = task[t].epoch
        /\ records' = [records EXCEPT ![task[t].vid] = WithState(records[task[t].vid], "active")]
        /\ Snapshots' \subseteq Snapshots \cup {records'}
    BY <1>1, <1>3, <2>1, <2>7, AtSaveFields, CommitWrites DEF ActivateNew, SaveSteps
  <2>6. task'[t].epoch <= epoch
    BY <2>5 DEF SequentialInv, EpochsAgree
  <2> QED BY <1>3, <2>1, <2>3, <2>4, <2>5, <2>6, LastMoveStaysOrderly
          DEF ActivateNew, PreSteps, LifecycleStates
<1>4. CASE StartRegister(t)
  <2>1. QuietStep(t)
    BY <1>1, <1>4, QuietSteps
  <2>2. ~Present(records, task[t].vid)
    BY <1>4 DEF StartRegister, CanRegister
  <2> QED BY <2>1, <2>2, QuietStaysOrderly
<1>5. CASE \/ RefuseExisting(t) \/ SaveArtifact(t) \/ SaveFailed(t) \/ CleanUp(t)
           \/ FinishInactive(t) \/ RefuseActivation(t) \/ RefuseReplacement(t)
           \/ FinishCall(t) \/ EraseBytes(t) \/ UnlinkBytes(t) \/ FinishUnlink(t)
           \/ AbandonedEnds(t)
  <2>1. QuietStep(t)
    BY <1>1, <1>5, QuietSteps
  <2>2. task'[t].step # "regExists"
    <3>1. Idle.step # "regExists"
      BY DEF Idle
    <3>2. Finish(t) => task'[t] = Idle
      BY <1>1 DEF Finish, TypeOK
    <3>3. \A step, io : Await(t, step, io) => task'[t].step = step
      BY <1>1 DEF Await, TypeOK, Task
    <3> QED BY <1>5, <3>1, <3>2, <3>3
            DEF RefuseExisting, SaveArtifact, SaveFailed, CleanUp, FinishInactive,
                RefuseActivation, RefuseReplacement, FinishCall, EraseBytes, UnlinkBytes,
                FinishUnlink, AbandonedEnds
  <2> QED BY <2>1, <2>2, QuietStaysOrderly
<1> QED BY <1>2, <1>3, <1>4, <1>5, RegisterStaysOrderly, ReplacementStaysOrderly DEF Resume

\* The executor, and a cancellation.
LEMMA SurroundingsStayOrderly ==
    ASSUME SequentialInv, OneAtATime, TypeOK', NEW t \in Tasks,
           Executor(t) \/ Timeout(t) \/ TimeoutRunning(t)
    PROVE  SequentialInv'
<1>1. TypeOK
  BY DEF SequentialInv
<1>2. QuietStep(t)
  BY <1>1, QuietExecutor, QuietSteps
<1>3. CASE Executor(t)
  <2>1. \E io, snap : Reply(t, io, snap)
    BY <1>3 DEF Executor, RunExists, RunWrite, RunUnlink, StorageFails, TakeSnapshot, RunStore,
                StoreFails, Answer
  <2>2. task'[t].step = task[t].step
    BY <1>1, <2>1 DEF Reply, TypeOK, Task
  <2> QED BY <1>2, <2>2, QuietStaysOrderly
<1>4. CASE Timeout(t) \/ TimeoutRunning(t)
  <2>1. task'[t].step # "regExists"
    BY <1>1, <1>4 DEF Timeout, TimeoutRunning, Finish, Await, Idle, TypeOK, Task
  <2> QED BY <1>2, <2>1, QuietStaysOrderly
<1> QED BY <1>3, <1>4

\* Setting up, unloading and losing the integration: the operation left behind
\* cannot write to the new instance.
LEMMA LifeStaysOrderly ==
    ASSUME SequentialInv, TypeOK', Load \/ Unload \/ Crash
    PROVE  SequentialInv'
<1>1. \A t \in Tasks : task'[t] = task[t] \/ task'[t] = Idle
  BY DEF Load, Unload, Crash
<1>2. \A t \in Tasks : ~Live(t)'
  <2>1. CASE Load
    BY <2>1 DEF Load, Live, SequentialInv, EpochsAgree, TypeOK, Epochs, Task
  <2>2. CASE Unload \/ Crash
    BY <2>2 DEF Unload, Crash, Live
  <2> QED BY <2>1, <2>2
<1>3. Registries' \subseteq Registries \cup {EmptyRegistry}
  BY LifeRegistries DEF SequentialInv
<1>4. OrderlyRegistries'
  BY <1>3, EmptyIsOrderly DEF SequentialInv, OrderlyRegistries, Everywhere
<1>5. StillAppends' /\ StillAlone'
  BY <1>2 DEF StillAppends, StillAlone, InWindow
<1>6. EpochsAgree'
  BY <1>1 DEF SequentialInv, EpochsAgree, TypeOK, Task, Epochs, Idle, Load, Unload, Crash
<1> QED BY <1>4, <1>5, <1>6 DEF SequentialInv

--------------------------------------------------------------------------------

\* The sequential invariant is inductive.
LEMMA SequentialStep ==
    ASSUME SequentialInv, OneAtATime, [Next]_vars
    PROVE  SequentialInv'
<1>1. TypeOK'
  BY TypeStep DEF SequentialInv
<1>2. CASE UNCHANGED vars
  BY <1>1, <1>2
     DEF vars, SequentialInv, OrderlyRegistries, Everywhere, Registries, Snapshots, StillAppends, StillAlone, InWindow, Live,
         EpochsAgree
<1> QED BY <1>1, <1>2, RequestStaysOrderly, ResumeStaysOrderly, SurroundingsStayOrderly,
           LifeStaysOrderly DEF Next

\* It holds of a fresh service.
LEMMA SequentialInit ==
    ASSUME Init
    PROVE  SequentialInv
<1>1. TypeOK
  BY TypeInit
<1>3. \A t \in Tasks : task[t] = Idle
  BY DEF Init
<1>6. Registries = {EmptyRegistry}
  BY <1>3, SnapshotAssumption, AbsentType DEF Init, Registries, Snapshots, Idle
<1>2. OrderlyRegistries
  BY <1>6, EmptyIsOrderly DEF OrderlyRegistries, Everywhere
<1>4. StillAppends /\ StillAlone
  BY <1>3 DEF StillAppends, StillAlone, InWindow, PreSteps, Idle
<1>5. EpochsAgree
  BY <1>3, MaxEpochAssumption DEF EpochsAgree, Idle, Init
<1> QED BY <1>1, <1>2, <1>4, <1>5 DEF SequentialInv

\* Operations that run one at a time keep every registry in order, whatever ids
\* they are given, and under every disturbance.
THEOREM SequentialInvariantHolds == OneAtATime => (Spec => []SequentialInv)
<1> SUFFICES ASSUME OneAtATime
             PROVE  Spec => []SequentialInv
  OBVIOUS
<1>1. Init => SequentialInv
  BY SequentialInit
<1>2. SequentialInv /\ [Next]_vars => SequentialInv'
  BY SequentialStep
<1> QED BY <1>1, <1>2, PTL DEF Spec

\* One at a time, operations never give a subject two active voiceprints, in
\* memory or in a snapshot: the conflict check of the lifecycle manager is enough.
THEOREM OneActiveVoiceprintPerSubject == OneAtATime => (Spec => []SingleActivePerSubject)
<1>1. SequentialInv => SingleActivePerSubject
  BY DEF SequentialInv, OrderlyRegistries, OrderlyRegistry, SingleActivePerSubject, Everywhere
<1> QED BY <1>1, SequentialInvariantHolds, PTL

\* One at a time, operations never repeat a revision, and leave no gap: what the
\* revision manager prepares before the awaits of a persist is still right when it
\* is registered.
THEOREM RevisionsStayUnique == OneAtATime => (Spec => []RevisionsAreUnique)
<1>1. SequentialInv => RevisionsAreUnique
  BY DEF SequentialInv, OrderlyRegistries, OrderlyRegistry, RevisionsAreUnique, Everywhere
<1> QED BY <1>1, SequentialInvariantHolds, PTL

================================================================================
