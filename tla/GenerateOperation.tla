---------------------------- MODULE GenerateOperation ----------------------------
(***************************************************************************)
(* generate_voiceprint_operation.py over the orchestrator, under the       *)
(* configuration of the instance: each call has a request and an operation *)
(* id, the operation keeps a status history of its own next to the         *)
(* orchestrator's, the stages decide what GenerationGates says, and a form *)
(* that the user saves reloads all of it under the calls in flight.        *)
(*                                                                         *)
(* Between the orchestrator's return and what the operation records there  *)
(* is no await: both are one step.                                         *)
(***************************************************************************)
EXTENDS GenerationOrchestrator, EntryConfiguration, GenerationGates

CONSTANTS
    Ops,            \* operation ids
    Requests        \* the requests that callers make

ASSUME OpsAssumption == None \notin Ops

ASSUME RequestAssumption == \A q \in Requests : IsRequest(q)

VARIABLES
    status,         \* _status: per operation id, empty for no entry
    generationOf,   \* _generation_ids
    call            \* per run: its operation, its request and, for the
                    \* properties, whether it had its two ids to itself

operationVars == <<status, generationOf, call>>

allVars == <<vars, entryVars, operationVars>>

OperationStatus == {"requested", "running", "completed", "failed", "cancelled"}

NewCall(op, request, private) == [op |-> op, request |-> request, private |-> private]

NoCall == NewCall(None, None, FALSE)

OperationInit ==
    /\ Init
    /\ EntryInit
    /\ status = [o \in Ops |-> <<>>]
    /\ generationOf = [o \in Ops |-> None]
    /\ call = [r \in Runs |-> NoCall]

--------------------------------------------------------------------------------
\* Mutant: a cancelled generation is a failed operation.
MapEveryFailure(outcome) == IF outcome = "completed" THEN "completed" ELSE "failed"

\* _map_failure, and the handler of an exception that leaves the orchestrator.
MapOutcome(outcome) ==
    CASE outcome = "completed" -> "completed"
      [] outcome = "cancelled" -> "cancelled"
      [] OTHER                 -> "failed"

\* The request is forgotten with the call.
EndCall(r) ==
    /\ call' = [call EXCEPT ![r] = IF @.private THEN [@ EXCEPT !.request = None] ELSE NoCall]
    /\ UNCHANGED generationOf

\* What execute appends when the orchestrator has returned or raised.  A call of
\* an instance that was cleared appends to a dict that nobody else sees.
RecordOutcome(r) ==
    /\ status' = IF run'[r].own
                 THEN [status EXCEPT ![call[r].op] = Append(@, MapOutcome(run'[r].ended))]
                 ELSE status
    /\ EndCall(r)

\* The call of execute: it has its ids to itself as long as no other call that is
\* in flight, or comes later, uses one of them.
BeginCall(r, op, g, request) ==
    LET shares(q) == q # r /\ run[q].own /\ (call[q].op = op \/ run[q].gen = g) IN
    call' = [q \in Runs |->
               IF q = r THEN NewCall(op, request, \A p \in Runs : shares(p) => ~InFlight(p))
               ELSE IF shares(q) THEN [call[q] EXCEPT !.private = FALSE]
               ELSE call[q]]

\* execute, up to the orchestrator's first await.
Execute(r, op, g, request) ==
    /\ config # NoConfig
    /\ Supported(config.generation, request)
    /\ Generate(r, g)
    /\ status' = [status EXCEPT ![op] = <<"requested", "running">>]
    /\ generationOf' = [generationOf EXCEPT ![op] = g]
    /\ BeginCall(r, op, g, request)
    /\ UNCHANGED entryVars

\* The same, when the orchestrator refuses the model at once.
ExecuteUnsupported(r, op, g, request) ==
    /\ config # NoConfig
    /\ ~Supported(config.generation, request)
    /\ GenerateUnsupported(r, g)
    /\ status' = [status EXCEPT ![op] = <<"requested", "running", "failed">>]
    /\ generationOf' = [generationOf EXCEPT ![op] = g]
    /\ BeginCall(r, op, g, request)
    /\ UNCHANGED entryVars

\* A request with an identifier that is none: the orchestrator is not called, and
\* the generation id of an earlier call stays.
ExecuteInvalid(op) ==
    /\ config # NoConfig
    /\ status' = [status EXCEPT ![op] = <<"requested", "running", "failed">>]
    /\ call' = [q \in Runs |-> IF call[q].op = op /\ run[q].own
                               THEN [call[q] EXCEPT !.private = FALSE]
                               ELSE call[q]]
    /\ UNCHANGED <<vars, entryVars, generationOf>>

--------------------------------------------------------------------------------

\* What the provider of the stage says.  The first two are functions; the model
\* backend, the storage and the integrity check may refuse anything.  The providers
\* of an instance are cleared with it.
MayPass(r) ==
    LET stage == Stages[run[r].stage]
        request == call[r].request
    IN  /\ run[r].own
        /\ config # NoConfig
        /\ stage = "validating" => ValidationPasses(config.generation, request)
        /\ stage = "quality_scoring" => QualityPasses(config.generation, request)
        /\ stage = "generating" => ModelAvailable(config.feature_flags)

MayRefuse(r) ==
    Stages[run[r].stage] \notin {"validating", "quality_scoring"} \/ ~MayPass(r)

\* The stage is passed: the workflow goes on, or ends.
GoOn(r) ==
    /\ InFlight(r)
    /\ MayPass(r)
    /\ \/ StagePasses(r) /\ UNCHANGED operationVars
       \/ (Complete(r) \/ StageCancelled(r) \/ StageOutOfOrder(r)) /\ RecordOutcome(r)
    /\ UNCHANGED entryVars

Refuse(r) ==
    /\ InFlight(r)
    /\ MayRefuse(r)
    /\ StageFails(r)
    /\ RecordOutcome(r)
    /\ UNCHANGED entryVars

\* Mutant: the operation does not record that the time ran out.
RunOutSilently(r) ==
    /\ Timeout(r)
    /\ EndCall(r)
    /\ UNCHANGED <<status, entryVars>>

\* wait_for of the orchestrator runs out.
RunOut(r) ==
    /\ Timeout(r)
    /\ RecordOutcome(r)
    /\ UNCHANGED entryVars

CancelGeneration(g) ==
    /\ Cancel(g)
    /\ UNCHANGED <<entryVars, operationVars>>

--------------------------------------------------------------------------------

\* clear() of the operation.
ClearOperation ==
    /\ status' = [o \in Ops |-> <<>>]
    /\ generationOf' = [o \in Ops |-> None]
    /\ call' = [r \in Runs |-> IF InFlight(r) /\ run'[r].own THEN call[r] ELSE NoCall]

\* async_setup_entry: the configuration first, then what is built from it.
SetUpEntry ==
    /\ LoadConfig
    /\ SetUp
    /\ UNCHANGED operationVars

\* async_unload_entry
UnloadEntry ==
    /\ ClearConfig
    /\ Clear
    /\ ClearOperation

\* A form is accepted: async_reload_entry unloads what runs.
SaveForm(form) ==
    /\ Reconfigure(form) \/ ChangeOptions(form)
    /\ IF loaded THEN Clear /\ ClearOperation ELSE UNCHANGED <<vars, operationVars>>

OperationNext ==
    \/ \E r \in Runs, op \in Ops, g \in Gens, q \in Requests :
            Execute(r, op, g, q) \/ ExecuteUnsupported(r, op, g, q)
    \/ \E op \in Ops : ExecuteInvalid(op)
    \/ \E r \in Runs : GoOn(r) \/ Refuse(r) \/ RunOut(r)
    \/ \E g \in Gens : CancelGeneration(g)
    \/ SetUpEntry
    \/ UnloadEntry
    \/ \E form \in Forms : SaveForm(form)

OperationSpec == OperationInit /\ [][OperationNext]_allVars

\* A provider answers, or the timeout of the request runs out.
FairOperationSpec ==
    OperationSpec /\ \A r \in Runs : WF_allVars(GoOn(r) \/ Refuse(r) \/ RunOut(r))

--------------------------------------------------------------------------------

OperationTypeOK ==
    /\ TypeOK
    /\ EntryTypeOK
    /\ loaded <=> config # NoConfig
    /\ status \in [Ops -> Seq(OperationStatus)]
    /\ generationOf \in [Ops -> Gens \cup {None}]
    /\ call \in [Runs -> [op : Ops \cup {None}, request : Requests \cup {None},
                          private : BOOLEAN]]

\* When a call that had its two ids to itself is over, both status look-ups tell
\* the same: the operation names the generation, and its last status is the one
\* that the orchestrator ended with (execute and _map_failure, against
\* _build_failure and get_status of both).
StatusesAgree ==
    \A r \in Runs :
        (call[r].private /\ ~InFlight(r)) =>
            LET op == call[r].op
                g == run[r].gen
            IN  /\ generationOf[op] = g
                /\ Len(status[op]) = 3
                /\ Last(status[op]) = Last(history[g])

\* Whenever the orchestrator returns a result, execute finds the entry of _status
\* it appends to, although the integration may be unloaded under the call: the
\* orchestrator of a cleared instance only raises (execute and clear of the
\* operation, clear and _transition of the orchestrator).
ResultsFindTheirStatus ==
    [][\A r \in Runs :
        EndsWith(r, Terminal) => status[call[r].op] # <<>>]_allVars

\* What completes had, under the configuration in effect at that moment, enough
\* and not too many different samples and a score at the threshold: no reload
\* lets a run go on that was admitted under another configuration (validate,
\* score, clear).
CompletedMeetTheConfiguration ==
    [][\A r \in Runs :
        EndsWith(r, {"completed"}) =>
            LET request == call[r].request IN
            /\ config # NoConfig
            /\ Cardinality(Range(request.samples)) \in
                    config.generation.min_sample_count .. config.generation.max_sample_count
            /\ Score(config.generation, request) >= config.generation.quality_threshold]_allVars

\* Whoever polls the operation sees it end, however it ends, unless the
\* integration is unloaded (execute and _build_operation_failure).
OperationsSettle ==
    \A op \in Ops :
        (status[op] # <<>>) ~> (status[op] = <<>> \/ Last(status[op]) # "running")

================================================================================
