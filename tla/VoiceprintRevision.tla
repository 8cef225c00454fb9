-------------------------- MODULE VoiceprintRevision ---------------------------
(***************************************************************************)
(* The decisions of voiceprint_revision.py, as operators on a registry:    *)
(* the records it prepares, the chain validation every preparation runs,   *)
(* and the checks of coordinate_supersession.                              *)
(***************************************************************************)
EXTENDS VoiceprintLifecycle

\* _validate_records for one lineage: the revisions are 1, 2, ... without a gap
\* or a repetition, the first record is the root and has no parent, and the
\* parent of every later record is the record of the revision before it.
ValidLineage(reg, root) ==
    LET line == Lineage(reg, root) IN
    /\ \A v, w \in line : reg[v].rev = reg[w].rev => v = w
    /\ \A v \in line :
        IF reg[v].rev = 1
        THEN v = root /\ reg[v].parent = None
        ELSE /\ reg[v].parent \in line
             /\ reg[v].rev = reg[reg[v].parent].rev + 1

\* get_latest_record returns v
IsLatest(reg, v) ==
    \A w \in Lineage(reg, reg[v].root) : reg[w].rev <= reg[v].rev

\* prepare_initial_record
InitialRecord(v, subject) ==
    [state |-> "pending", subject |-> subject, root |-> v, parent |-> None,
     rev |-> 1, next |-> None]
\* Mutant: the current record need not be the latest.
CanPrepareFromAny(reg, current) ==
    /\ Present(reg, current)
    /\ ValidLineage(reg, reg[current].root)

\* The guards of prepare_next_revision_record.  The state of the current record
\* is not among them.
CanPrepareNext(reg, current) ==
    /\ Present(reg, current)
    /\ ValidLineage(reg, reg[current].root)
    /\ IsLatest(reg, current)
\* Mutant: the parent is the lineage's root.
NextOfRoot(reg, current) ==
    [state |-> "pending", subject |-> reg[current].subject,
     root |-> reg[current].root, parent |-> reg[current].root,
     rev |-> reg[current].rev + 1, next |-> None]

\* prepare_next_revision_record: get_next_revision is one more than the largest
\* revision, which the guards make the current record's.
NextRecord(reg, current) ==
    [state |-> "pending", subject |-> reg[current].subject,
     root |-> reg[current].root, parent |-> current,
     rev |-> reg[current].rev + 1, next |-> None]

\* coordinate_supersession, with the checks of the supersede_record it calls.
CanCoordinate(reg, current, replacement) ==
    /\ Present(reg, current)
    /\ Present(reg, replacement)
    /\ reg[replacement].parent = current
    /\ reg[replacement].root = reg[current].root
    /\ reg[replacement].rev = reg[current].rev + 1
    /\ CanSupersede(reg, current, replacement)

--------------------------------------------------------------------------------

\* A record is a root with revision 1, or its parent is a record of the same
\* subject and lineage, one revision below it.
ParentsPresent(reg) ==
    \A v \in Vids : Present(reg, v) =>
        IF reg[v].parent = None
        THEN reg[v].root = v /\ reg[v].rev = 1
        ELSE LET p == reg[v].parent IN
             /\ p \in Vids
             /\ Present(reg, p)
             /\ reg[p].root = reg[v].root
             /\ reg[p].subject = reg[v].subject
             /\ reg[v].rev = reg[p].rev + 1

\* superseded_by names a record that was made to supersede this one.
SuccessorsPresent(reg) ==
    \A v \in Vids :
        /\ reg[v].state = "superseded" => reg[v].next # None
        /\ reg[v].next # None =>
            /\ reg[v].state \in {"superseded", "deleted"}
            /\ Present(reg, reg[v].next)
            /\ reg[reg[v].next].parent = v

================================================================================
