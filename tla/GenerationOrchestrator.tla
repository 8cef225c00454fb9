------------------------- MODULE GenerationOrchestrator -------------------------
(***************************************************************************)
(* generation_orchestrator.py: runs of the generation workflow, the status *)
(* history they share per generation id, cancellation, the timeout of      *)
(* generate_voiceprint and clear().                                        *)
(*                                                                         *)
(* A run goes through five stages and awaits a provider in each; all the   *)
(* code between two of those awaits is atomic, because the lock around the *)
(* history is never held across an await.  What a run looks at after an    *)
(* await, `history` and `cancelled`, is shared with every other run of the *)
(* same generation id and with cancel_generation.                          *)
(***************************************************************************)
EXTENDS Naturals, Sequences, SequencesExt

CONSTANTS
    Gens,       \* generation ids
    Runs,       \* calls of generate_voiceprint that may be in flight together
    None        \* no generation

ASSUME NoneAssumption == None \notin Gens

VARIABLES
    history,    \* _history: per id the statuses recorded, empty for no entry
    cancelled,  \* _cancelled_ids
    loaded,
    run         \* the calls in flight, or what the last one of each slot returned

vars == <<history, cancelled, loaded, run>>

Stages == <<"validating", "quality_scoring", "generating", "persisting",
            "validating_integrity">>

Terminal == {"completed", "failed", "cancelled"}

Status == {"queued"} \cup Range(Stages) \cup Terminal
\* Mutant: the last stage cannot fail.
LastStageCannotFail ==
    [s \in Status |->
        CASE s = "queued"               -> {"validating", "cancelled", "failed"}
          [] s = "validating"           -> {"quality_scoring", "cancelled", "failed"}
          [] s = "quality_scoring"      -> {"generating", "cancelled", "failed"}
          [] s = "generating"           -> {"persisting", "cancelled", "failed"}
          [] s = "persisting"           -> {"validating_integrity", "cancelled", "failed"}
          [] s = "validating_integrity" -> {"completed"}
          [] OTHER                      -> {}]

\* _ALLOWED_TRANSITIONS
AllowedTransitions ==
    [s \in Status |->
        CASE s = "queued"               -> {"validating", "cancelled", "failed"}
          [] s = "validating"           -> {"quality_scoring", "cancelled", "failed"}
          [] s = "quality_scoring"      -> {"generating", "cancelled", "failed"}
          [] s = "generating"           -> {"persisting", "cancelled", "failed"}
          [] s = "persisting"           -> {"validating_integrity", "cancelled", "failed"}
          [] s = "validating_integrity" -> {"completed", "cancelled", "failed"}
          [] OTHER                      -> {}]

Run ==
    [gen   : Gens \cup {None},
     stage : 0 .. Len(Stages),      \* index of the stage it awaits, 0 for none
     asked : BOOLEAN,               \* cancel_generation said True since it began
     alone : BOOLEAN,               \* no other run of its id since it began
     own   : BOOLEAN,               \* the instance that began it is still set up
     ended : Terminal \cup {"raised", "none"}]

Begun(gen, stage, alone, ended) ==
    [gen |-> gen, stage |-> stage, asked |-> FALSE, alone |-> alone, own |-> TRUE,
     ended |-> ended]

Over(gen, own, ended) ==
    [gen |-> gen, stage |-> 0, asked |-> FALSE, alone |-> TRUE, own |-> own,
     ended |-> ended]

NoRun == Over(None, TRUE, "none")

InFlight(r) == run[r].stage # 0

\* What a run finds in the instance that began it: after clear() nothing.
HistoryOf(r) == IF run[r].own THEN history[run[r].gen] ELSE <<>>

IsCancelled(r) == run[r].own /\ run[r].gen \in cancelled

Init ==
    /\ history = [g \in Gens |-> <<>>]
    /\ cancelled = {}
    /\ loaded = FALSE
    /\ run = [r \in Runs |-> NoRun]

--------------------------------------------------------------------------------
\* Mutant: the transition table is not asked.
AcceptsAnything(h, status) == h # <<>>

\* _transition accepts the move.  A history that clear() took away has no last
\* status: the look-up raises KeyError.
Accepts(h, status) ==
    h # <<>> /\ (Last(h) = status \/ status \in AllowedTransitions[Last(h)])

\* _transition: repeating the current status records nothing.
Recorded(h, status) == IF Last(h) = status THEN h ELSE Append(h, status)

Return(r, outcome) ==
    run' = [run EXCEPT ![r] = Over(run[r].gen, run[r].own, outcome)]

\* _build_failure records the status and returns the failure.  When the
\* history refuses, the first refusal is answered with FAILED by the handlers
\* of _run_workflow; a second one, or one inside a handler, leaves the call as
\* an exception.
EndWith(r, status) ==
    LET g == run[r].gen IN
    /\ IF Accepts(HistoryOf(r), status)
       THEN /\ history' = [history EXCEPT ![g] = Recorded(@, status)]
            /\ Return(r, status)
       ELSE /\ UNCHANGED history
            /\ Return(r, "raised")
    /\ UNCHANGED <<cancelled, loaded>>

--------------------------------------------------------------------------------

\* The call begins.  The two fields the code does not keep, asked and alone, are
\* what the properties need to know of the past.
Begin(r, g, stage, ended) ==
    LET others == {q \in Runs \ {r} : InFlight(q) /\ run[q].own /\ run[q].gen = g} IN
    run' = [q \in Runs |->
              IF q = r THEN Begun(g, stage, others = {}, ended)
              ELSE IF q \in others THEN [run[q] EXCEPT !.alone = FALSE]
              ELSE run[q]]
\* Mutant: an old request to cancel is kept.
GenerateCancelled(r, g) ==
    /\ loaded
    /\ ~InFlight(r)
    /\ history' = [history EXCEPT ![g] = <<"queued", "validating">>]
    /\ Begin(r, g, 1, "none")
    /\ UNCHANGED <<cancelled, loaded>>

\* generate_voiceprint up to the first await: a new history, any old request to
\* cancel is forgotten, and validation begins.
Generate(r, g) ==
    /\ loaded
    /\ ~InFlight(r)
    /\ history' = [history EXCEPT ![g] = <<"queued", "validating">>]
    /\ cancelled' = cancelled \ {g}
    /\ Begin(r, g, 1, "none")
    /\ UNCHANGED loaded

\* The same, for a model that the configuration does not support.
GenerateUnsupported(r, g) ==
    /\ loaded
    /\ ~InFlight(r)
    /\ history' = [history EXCEPT ![g] = <<"queued", "validating", "failed">>]
    /\ cancelled' = cancelled \ {g}
    /\ Begin(r, g, 0, "failed")
    /\ UNCHANGED loaded

\* The provider of the stage raises, or its result is a refusal.
StageFails(r) ==
    /\ InFlight(r)
    /\ EndWith(r, "failed")

\* A request to cancel is looked for before every stage but the first, and not
\* after the last.
StageCancelled(r) ==
    /\ InFlight(r)
    /\ run[r].stage < Len(Stages)
    /\ IsCancelled(r)
    /\ EndWith(r, "cancelled")

\* The stage is passed and the next one begins.
StagePasses(r) ==
    LET g == run[r].gen
        next == Stages[run[r].stage + 1]
    IN  /\ InFlight(r)
        /\ run[r].stage < Len(Stages)
        /\ ~IsCancelled(r)
        /\ Accepts(HistoryOf(r), next)
        /\ history' = [history EXCEPT ![g] = Recorded(@, next)]
        /\ run' = [run EXCEPT ![r].stage = @ + 1]
        /\ UNCHANGED <<cancelled, loaded>>
\* Mutant: the run goes on after its last stage.
CompleteAndGoOn(r) ==
    LET g == run[r].gen IN
    /\ run[r].stage = Len(Stages)
    /\ Accepts(HistoryOf(r), "completed")
    /\ history' = [history EXCEPT ![g] = Recorded(@, "completed")]
    /\ run' = [run EXCEPT ![r].stage = @ + 1]
    /\ UNCHANGED <<cancelled, loaded>>

\* The last stage is passed.
Complete(r) ==
    LET g == run[r].gen IN
    /\ run[r].stage = Len(Stages)
    /\ Accepts(HistoryOf(r), "completed")
    /\ history' = [history EXCEPT ![g] = Recorded(@, "completed")]
    /\ Return(r, "completed")
    /\ UNCHANGED <<cancelled, loaded>>

\* The stage is passed, but another run of the id, or clear(), has changed the
\* history so that it cannot take the next status.
StageOutOfOrder(r) ==
    LET next == IF run[r].stage = Len(Stages) THEN "completed"
                ELSE Stages[run[r].stage + 1]
    IN  /\ InFlight(r)
        /\ run[r].stage = Len(Stages) \/ ~IsCancelled(r)
        /\ ~Accepts(HistoryOf(r), next)
        /\ EndWith(r, "failed")
\* Mutant: wait_for cancels the workflow and nobody records it.
TimeoutSilently(r) ==
    /\ InFlight(r)
    /\ Return(r, "raised")
    /\ UNCHANGED <<history, cancelled, loaded>>

\* wait_for runs out: the workflow is cancelled at its await, and the failure is
\* recorded by generate_voiceprint itself.
Timeout(r) ==
    /\ InFlight(r)
    /\ EndWith(r, "failed")

\* cancel_generation answers True.
Cancel(g) ==
    /\ loaded
    /\ history[g] # <<>>
    /\ Last(history[g]) \notin Terminal
    /\ cancelled' = cancelled \cup {g}
    /\ run' = [r \in Runs |-> IF InFlight(r) /\ run[r].own /\ run[r].gen = g
                              THEN [run[r] EXCEPT !.asked = TRUE]
                              ELSE run[r]]
    /\ UNCHANGED <<history, loaded>>

\* Mutant: clear() forgets the requests to cancel and keeps the histories.
ClearKeepsHistory ==
    /\ loaded
    /\ loaded' = FALSE
    /\ cancelled' = {}
    /\ UNCHANGED <<history, run>>

\* Mutant: clear() resets the flag only, and the runs of the instance go on.
ClearFlagOnly ==
    /\ loaded
    /\ loaded' = FALSE
    /\ UNCHANGED <<history, cancelled, run>>

\* async_unload_entry clears the orchestrator and leaves its runs running.
Clear ==
    /\ loaded
    /\ loaded' = FALSE
    /\ history' = [g \in Gens |-> <<>>]
    /\ cancelled' = {}
    /\ run' = [r \in Runs |-> IF InFlight(r) THEN [run[r] EXCEPT !.own = FALSE, !.asked = FALSE]
                              ELSE NoRun]

\* The integration is set up again, with a new orchestrator.
SetUp ==
    /\ ~loaded
    /\ loaded' = TRUE
    /\ UNCHANGED <<history, cancelled, run>>

--------------------------------------------------------------------------------

Step(r) ==
    \/ StageFails(r)
    \/ StageCancelled(r)
    \/ StagePasses(r)
    \/ Complete(r)
    \/ StageOutOfOrder(r)

Next ==
    \/ \E r \in Runs, g \in Gens : Generate(r, g) \/ GenerateUnsupported(r, g)
    \/ \E r \in Runs : Step(r) \/ Timeout(r)
    \/ \E g \in Gens : Cancel(g)
    \/ Clear
    \/ SetUp

Spec == Init /\ [][Next]_vars

--------------------------------------------------------------------------------

TypeOK ==
    /\ history \in [Gens -> Seq(Status)]
    /\ cancelled \subseteq Gens
    /\ loaded \in BOOLEAN
    /\ run \in [Runs -> Run]

\* The step ends a run that was in flight.
EndsWith(r, outcomes) ==
    InFlight(r) /\ run'[r].stage = 0 /\ run'[r].ended \in outcomes

\* A history that shows no terminal status has a run in flight that will write
\* one: whoever polls get_status does not wait for ever, whatever runs share the
\* id, cancel it, time out or are torn down (generate_voiceprint, _build_failure).
NoAbandonedHistory ==
    \A g \in Gens :
        (history[g] # <<>> /\ Last(history[g]) \notin Terminal)
            => \E r \in Runs : InFlight(r) /\ run[r].own /\ run[r].gen = g

\* A run is only reported cancelled when somebody asked for it since it began: the
\* request that stopped, or missed, an earlier run of the id does not stop this
\* one (generate_voiceprint discards the id from _cancelled_ids).
NoStaleCancel ==
    [][\A r \in Runs : EndsWith(r, {"cancelled"}) => run[r].asked]_vars

\* A run that had its id to itself ends with a result, however it was cancelled,
\* timed out or refused; only runs that share an id, or outlive clear(), leave
\* generate_voiceprint with an exception (_run_workflow, _build_failure).
AloneRunsReturn ==
    [][\A r \in Runs : EndsWith(r, {"raised"}) => ~run[r].own \/ ~run[r].alone]_vars

\* A terminal status is final until a new run of the id begins: a run that ends
\* late does not overwrite what another one reported (_transition).
TerminalIsFinal ==
    [][\A g \in Gens :
        (history[g] # <<>> /\ Last(history[g]) \in Terminal /\ history'[g] # history[g])
            => history'[g] = <<>> \/ \E r \in Runs : Generate(r, g) \/ GenerateUnsupported(r, g)]_vars

================================================================================
