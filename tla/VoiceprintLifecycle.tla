-------------------------- MODULE VoiceprintLifecycle --------------------------
(***************************************************************************)
(* The decisions of voiceprint_lifecycle.py, as operators on a registry:   *)
(* which lifecycle move is legal, what conflicts with an activation, and   *)
(* what supersede_record demands of its two records.                       *)
(***************************************************************************)
EXTENDS VoiceprintRecord
\* Mutant: a record that was never activated can be deleted.
PendingIsDeletable ==
    [pending    |-> {"active", "failed", "deleted"},
     active     |-> {"inactive", "superseded", "deleted"},
     inactive   |-> {"active", "deleted"},
     superseded |-> {"deleted"},
     failed     |-> {"deleted"},
     deleted    |-> {}]

\* The table of _assert_transition_allowed.
AllowedTransitions ==
    [pending    |-> {"active", "failed"},
     active     |-> {"inactive", "superseded", "deleted"},
     inactive   |-> {"active", "deleted"},
     superseded |-> {"deleted"},
     failed     |-> {"deleted"},
     deleted    |-> {}]

CanMove(from, to) == from # "absent" /\ to \in AllowedTransitions[from]

\* Lifecycle states that can follow a state, itself included.
Later(state) ==
    CASE state = "absent"   -> LifecycleStates \cup {"absent"}
      [] state = "pending"  -> LifecycleStates
      [] state = "active"   -> {"active", "inactive", "superseded", "deleted"}
      [] state = "inactive" -> {"active", "inactive", "superseded", "deleted"}
      [] OTHER              -> {state, "deleted"}

\* replace_voiceprint_record, for the changes the manager makes.
WithState(rec, state) == [rec EXCEPT !.state = state]

SupersededBy(rec, v) == [rec EXCEPT !.state = "superseded", !.next = v]
\* Mutant: only the lineage is looked at.
LineageConflict(reg, v, excluded) ==
    \E w \in Vids \ ({v} \cup excluded) : Active(reg, w) /\ reg[w].root = reg[v].root

\* _ensure_no_other_active_conflict: another active record of the subject, or
\* of the lineage, stands in the way of activating v.
ActiveConflict(reg, v, excluded) ==
    \E w \in Vids \ ({v} \cup excluded) :
        /\ Active(reg, w)
        /\ \/ reg[w].subject = reg[v].subject
           \/ reg[w].root = reg[v].root

\* activate_record
CanActivate(reg, v) ==
    /\ CanMove(reg[v].state, "active")
    /\ ~ActiveConflict(reg, v, {})
\* Mutant: the state of the current record is not looked at.
CanSupersedeAnyState(reg, current, replacement) ==
    /\ current # replacement
    /\ reg[current].subject = reg[replacement].subject
    /\ reg[current].root = reg[replacement].root
    /\ reg[replacement].parent = current
    /\ CanMove(reg[replacement].state, "active")
    /\ ~ActiveConflict(reg, replacement, {current})

\* supersede_record, up to its first write.
CanSupersede(reg, current, replacement) ==
    /\ current # replacement
    /\ reg[current].subject = reg[replacement].subject
    /\ reg[current].root = reg[replacement].root
    /\ reg[replacement].parent = current
    /\ CanMove(reg[current].state, "superseded")
    /\ CanMove(reg[replacement].state, "active")
    /\ ~ActiveConflict(reg, replacement, {current})

--------------------------------------------------------------------------------

\* _validate_single_active_invariants, its lineage half: one active record in a
\* lineage.
OneActivePerLineage(reg) ==
    \A v, w \in Vids :
        (Active(reg, v) /\ Active(reg, w) /\ reg[v].root = reg[w].root) => v = w

\* The subject half.
OneActivePerSubject(reg) ==
    \A v, w \in Vids :
        (Active(reg, v) /\ Active(reg, w) /\ reg[v].subject = reg[w].subject) => v = w

================================================================================
