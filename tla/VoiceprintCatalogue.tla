-------------------------- MODULE VoiceprintCatalogue --------------------------
(***************************************************************************)
(* What the voiceprint registry is to a caller that only reads it: a       *)
(* catalogue that changes one record at a time, along the lifecycle, and   *)
(* that never has two active records in a lineage.  Only when the          *)
(* integration goes down can changes be lost.  There are no awaits, no     *)
(* tasks, no snapshots and no artifacts here: VoiceprintRefinement says    *)
(* that the operations of VoiceprintService, interleaved as they may be,   *)
(* implement this, and ConciergeProfile reads it.                          *)
(***************************************************************************)
EXTENDS VoiceprintRevision

VARIABLES
    catalogue,  \* the registry that list_records shows, or that the next set-up loads
    loaded      \* the integration is set up

catalogueVars == <<catalogue, loaded>>

CatalogueInit == catalogue = EmptyRegistry /\ loaded = FALSE

\* register_record: a new record, a root or one revision above its parent.
Enter(v) ==
    /\ ~Present(catalogue, v)
    /\ \E rec \in {InitialRecord(v, s) : s \in Subjects}
                  \cup {NextRecord(catalogue, p) : p \in {q \in Vids : Present(catalogue, q)}} :
            catalogue' = [catalogue EXCEPT ![v] = rec]

\* A record becomes the active one of its lineage.  That the subject may have
\* another, in another lineage, is a finding about the service.
Promote(v) ==
    /\ CanMove(catalogue[v].state, "active")
    /\ ~LineageConflict(catalogue, v, {})
    /\ catalogue' = [catalogue EXCEPT ![v] = WithState(@, "active")]

\* The first write of a supersession: the lineage has no active record until the
\* successor is promoted.
HandOver(p, v) ==
    /\ Active(catalogue, p)
    /\ Present(catalogue, v)
    /\ catalogue[v].parent = p
    /\ catalogue' = [catalogue EXCEPT ![p] = SupersededBy(@, v)]

\* Deletion, deactivation and failure.
Withdraw(v, state) ==
    /\ CanMove(catalogue[v].state, state)
    /\ catalogue' = [catalogue EXCEPT ![v] = WithState(@, state)]

\* A record as it may have been before it came to be `now`.
Earlier(before, now) ==
    \/ before = Absent
    \/ /\ SameIdentity(before, now)
       /\ before.subject = now.subject
       /\ now.state \in Later(before.state)
       /\ before.next = IF before.state \in {"superseded", "deleted"} THEN now.next ELSE None

Past(now, withdrawals) ==
    {before \in {Absent} \cup [state   : {"pending", "active", "superseded"} \cup withdrawals,
                               subject : {now.subject},
                               root    : {now.root},
                               parent  : {now.parent},
                               rev     : {now.rev},
                               next    : {None, now.next}] :
        Earlier(before, now)}

\* The integration goes down: what is left is a snapshot, in which every record is
\* as it is or as it was before, and every lineage is a tree with one active record
\* at most.
Stop(withdrawals) ==
    /\ loaded
    /\ loaded' = FALSE
    /\ \E past \in {[v \in Vids |-> Past(catalogue[v], withdrawals)]} :
        catalogue' \in {reg \in [Vids -> UNION {past[v] : v \in Vids}] :
                          /\ \A v \in Vids : reg[v] \in past[v]
                          /\ ParentsPresent(reg)
                          /\ SuccessorsPresent(reg)
                          /\ OneActivePerLineage(reg)}

\* Set-up loads what is there.
SetUp ==
    /\ ~loaded
    /\ loaded' = TRUE
    /\ UNCHANGED catalogue

\* One record is written.
Write(withdrawals) ==
    /\ UNCHANGED loaded
    /\ \/ \E v \in Vids : Enter(v) \/ Promote(v)
       \/ \E p, v \in Vids : HandOver(p, v)
       \/ \E v \in Vids, state \in withdrawals : Withdraw(v, state)

AllWithdrawals == {"inactive", "failed", "deleted"}

CatalogueNext == Write(AllWithdrawals) \/ Stop(AllWithdrawals) \/ SetUp

CatalogueSpec == CatalogueInit /\ [][CatalogueNext]_catalogueVars

================================================================================
