-------------------------- MODULE VoiceprintInvariant --------------------------
(***************************************************************************)
(* The inductive invariant behind LineageForest, SingleActivePerLineage    *)
(* and LifecycleIsFollowed, for a service whose callers use fresh          *)
(* generation ids and which only the service operations drive (ReuseIds =  *)
(* FALSE and ManagerMoves = {}).  Reloads, crashes, timeouts and I/O       *)
(* faults are all allowed.                                                 *)
(***************************************************************************)
EXTENDS VoiceprintSafety

\* The states the service operations lead to.
ServiceStates == {"absent", "pending", "active", "superseded", "deleted"}

OnlyServiceStates(reg) == \A v \in Vids : reg[v].state \in ServiceStates

RootsPresent(reg) ==
    \A v \in Vids : Present(reg, v) =>
        reg[v].root \in Vids /\ Present(reg, reg[v].root)

\* A lineage makes its first step at its root.
RootsMoveFirst(reg) ==
    \A v \in Vids :
        (Present(reg, v) /\ reg[v].state # "pending")
            => reg[reg[v].root].state # "pending"

GoodRegistry(reg) ==
    /\ ParentsPresent(reg)
    /\ SuccessorsPresent(reg)
    /\ RootsPresent(reg)
    /\ RootsMoveFirst(reg)
    /\ OneActivePerLineage(reg)
    /\ OnlyServiceStates(reg)

GoodRegistries == Everywhere(GoodRegistry)

--------------------------------------------------------------------------------

PreSteps == {"exists", "save", "regExists"}

\* The record would be a good addition to the registry.
Fits(reg, v, rec) ==
    IF rec.parent = None
    THEN rec.root = v /\ rec.rev = 1
    ELSE /\ Present(reg, rec.parent)
         /\ reg[rec.parent].root = rec.root
         /\ reg[rec.parent].subject = rec.subject
         /\ rec.rev = reg[rec.parent].rev + 1

\* Nobody has registered the id.
Unregistered(v) == \A reg \in Registries : ~Present(reg, v)

\* Only ids that were issued are registered.
OnlyIssued == \A v \in Vids : v \notin issued => Unregistered(v)

\* A persist that has not registered its record yet owns the id.
BeforeRegister ==
    \A t \in Tasks : task[t].step \in PreSteps =>
        /\ task[t].vid \in issued
        /\ Unregistered(task[t].vid)
        /\ task[t].rec.state = "pending"
        /\ task[t].rec.next = None
        /\ task[t].rec.parent = task[t].prev
        /\ Live(t) => Fits(records, task[t].vid, task[t].rec)
        /\ \A u \in Tasks \ {t} :
            task[u].step \in PreSteps => task[u].vid # task[t].vid

\* A persist whose record is registered knows the parent it has.
AfterRegister ==
    \A t \in Tasks : (task[t].step = "regSave" /\ Live(t)) =>
        /\ Present(records, task[t].vid)
        /\ records[task[t].vid].parent = task[t].prev

InWindow(t) == task[t].step = "swapSave" /\ Live(t)

\* Between the two writes of a supersession the replacement is still PENDING, no
\* record of the lineage is active, and no second supersession runs in it.
Window ==
    \A t \in Tasks : InWindow(t) =>
        LET v == task[t].vid
            p == task[t].prev
        IN  /\ p \in Vids
            /\ records[v].state = "pending"
            /\ records[v].parent = p
            /\ records[p].state \in {"superseded", "deleted"}
            /\ task[t].rec = WithState(records[v], "active")
            /\ \A w \in Vids : Active(records, w) => records[w].root # records[v].root
            /\ \A u \in Tasks \ {t} :
                InWindow(u) => records[task[u].vid].root # records[v].root

\* No operation is older, or younger, than the instance it was called on.
EpochsAgree == \A t \in Tasks : task[t].epoch <= epoch

IInv ==
    /\ TypeOK
    /\ GoodRegistries
    /\ OnlyIssued
    /\ BeforeRegister
    /\ AfterRegister
    /\ Window
    /\ EpochsAgree

(***************************************************************************)
(* The inductive invariant behind SingleActivePerSubject and               *)
(* RevisionsAreUnique, when operations run one at a time.  Callers may use *)
(* ids again, the manager may be called beside the service, and everything *)
(* may go wrong.                                                           *)
(***************************************************************************)

OneAtATime == \A t, u \in Tasks : t = u

\* The chains are valid, and no subject has two active records.
OrderlyRegistry(reg) ==
    /\ RootsPresent(reg)
    /\ \A r \in Vids : ValidLineage(reg, r)
    /\ OneActivePerSubject(reg)

OrderlyRegistries == Everywhere(OrderlyRegistry)

\* The record would be a new root, or the last of its chain.
Appends(reg, v, rec) ==
    IF rec.parent = None
    THEN rec.root = v /\ rec.rev = 1
    ELSE /\ Present(reg, rec.parent)
         /\ IsLatest(reg, rec.parent)
         /\ rec.root = reg[rec.parent].root
         /\ rec.rev = reg[rec.parent].rev + 1

\* What persist_artifact prepared before its awaits is still right after them, and
\* the id it found free is still free.
StillAppends ==
    \A t \in Tasks : (task[t].step \in PreSteps /\ Live(t)) =>
        /\ task[t].rec.state = "pending"
        /\ Appends(records, task[t].vid, task[t].rec)
        /\ task[t].step = "regExists" => ~Present(records, task[t].vid)

\* Between the two writes of a supersession the subject has no active record but
\* the replacement, if it.
StillAlone ==
    \A t \in Tasks : InWindow(t) =>
        LET v == task[t].vid
        IN  /\ Present(records, v)
            /\ task[t].rec = WithState(records[v], "active")
            /\ \A w \in Vids \ {v} :
                    Active(records, w) => records[w].subject # records[v].subject

SequentialInv ==
    /\ TypeOK
    /\ OrderlyRegistries
    /\ StillAppends
    /\ StillAlone
    /\ EpochsAgree

================================================================================
