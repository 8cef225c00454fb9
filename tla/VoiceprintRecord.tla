--------------------------- MODULE VoiceprintRecord ---------------------------
(***************************************************************************)
(* The metadata records of voiceprint_registry.py and the registry value   *)
(* that holds them: the `_records` dict, which is also what one snapshot   *)
(* of the Home Assistant Store contains.                                   *)
(*                                                                         *)
(* A registry maps every voiceprint id to a record; `Absent` stands for an *)
(* id that is not a key of the dict.  Two fields of the source are derived *)
(* here: `active` is lifecycle_state = ACTIVE (every writer sets the two   *)
(* together) and `supersedes` is the parent (both are set once, to the     *)
(* current record, by prepare_next_revision_record).  The artifact id is   *)
(* the voiceprint id: model_execution.py makes both from one suffix.       *)
(* Model names, versions and timestamps decide nothing and are left out.   *)
(***************************************************************************)
EXTENDS Naturals, FiniteSets

CONSTANTS
    Vids,       \* voiceprint ids
    Subjects,   \* subject ids
    None        \* a Python None: no parent, no successor, no snapshot

ASSUME NoneAssumption == None \notin Vids /\ None \notin Subjects

LifecycleStates ==
    {"pending", "active", "inactive", "superseded", "failed", "deleted"}

Record ==
    [state   : LifecycleStates \cup {"absent"},
     subject : Subjects \cup {None},
     root    : Vids \cup {None},      \* lineage_root_id
     parent  : Vids \cup {None},      \* parent_voiceprint_id and supersedes
     rev     : Nat,                   \* revision
     next    : Vids \cup {None}]      \* superseded_by

Registry == [Vids -> Record]

\* A dict is never None: a Store that has a snapshot to write can be told from one
\* that has none.
ASSUME SnapshotAssumption == None \notin Registry

Absent ==
    [state |-> "absent", subject |-> None, root |-> None, parent |-> None,
     rev |-> 0, next |-> None]

EmptyRegistry == [v \in Vids |-> Absent]

Present(reg, v) == reg[v].state # "absent"

Active(reg, v) == reg[v].state = "active"

\* get_by_lineage_root_id
Lineage(reg, root) == {v \in Vids : Present(reg, v) /\ reg[v].root = root}

\* What update_record compares before it overwrites a record: an update may
\* change the lifecycle state and the successor, and nothing else it names.
SameIdentity(old, new) ==
    /\ old.rev = new.rev
    /\ old.root = new.root
    /\ old.parent = new.parent

\* register_record's look-up in the dict: an id is registered once.
CanRegister(reg, v) == ~Present(reg, v)

\* update_record's checks
CanUpdate(reg, v, rec) == Present(reg, v) /\ SameIdentity(reg[v], rec)

================================================================================
