---------------------------- MODULE OperationProofs ----------------------------
(***************************************************************************)
(* What is proved of the configuration entry, of the gates of the          *)
(* pipeline, and of the generate operation over the orchestrator, under a  *)
(* configuration that forms change: the operation runs the orchestrator    *)
(* and the entry as they are, so what is proved of each holds of both, and *)
(* what relates their states is proved here.                               *)
(***************************************************************************)
EXTENDS GenerateOperation, GenerationProofs, FiniteSetTheorems

(***************************************************************************)
(* The forms and the set-up agree, whatever the forms are.                 *)
(***************************************************************************)

\* What an entry holds: the data is a form, and so are the options once there are
\* any; each of the two is valid by itself.
EntryInvariant ==
    /\ data \in Forms /\ Valid(data)
    /\ options = <<>> \/ (options \in Forms /\ Valid(options))
    /\ config = NoConfig \/ config = Merged

\* A form that is laid over another one replaces it, by section and by key.
LEMMA FormsReplace ==
    ASSUME NEW f \in Forms, NEW g \in Forms
    PROVE  /\ Overlay(g, f) = f
           /\ DeepMerge(g, f) = f
  <1>1. /\ f = [s \in Sections |-> f[s]]
        /\ DOMAIN f = Sections /\ DOMAIN g = Sections
    BY EntryAssumption DEF FormAssumption
  <1>2. Overlay(g, f) = f
    BY <1>1 DEF Overlay
  <1>3. \A s \in Sections : Overlay(g[s], f[s]) = f[s]
    <2> TAKE s \in Sections
    <2>1. f[s] = [k \in DOMAIN g[s] |-> f[s][k]]
      BY EntryAssumption DEF FormAssumption
    <2>2. DOMAIN f[s] = DOMAIN g[s]
      BY <2>1
    <2> QED
      BY <2>1, <2>2 DEF Overlay
  <1>4. DeepMerge(g, f) = [s \in Sections |-> Overlay(g[s], f[s])]
    BY <1>1 DEF DeepMerge
  <1> QED
    BY <1>1, <1>2, <1>3, <1>4

LEMMA NoOptions ==
    ASSUME NEW g \in Forms
    PROVE  /\ Overlay(g, <<>>) = g
           /\ DeepMerge(g, <<>>) = g
  <1>1. /\ g = [s \in Sections |-> g[s]]
        /\ DOMAIN g = Sections
        /\ DOMAIN <<>> = {}
    BY EntryAssumption DEF FormAssumption
  <1>2. Overlay(g, <<>>) = g
    BY <1>1 DEF Overlay
  <1>3. DeepMerge(g, <<>>) = [s \in Sections |-> g[s]]
    BY <1>1, <1>2 DEF DeepMerge
  <1> QED
    BY <1>1, <1>2, <1>3
--------------------------------------------------------------------------------

\* What the set-up merges is the options, or the data as long as there are none.
LEMMA MergedIsAForm ==
    ASSUME EntryInvariant
    PROVE  /\ Merged \in Forms /\ Valid(Merged)
           /\ Merged = IF options = <<>> THEN data ELSE options
           /\ FormDefaults(data, options) = Merged
  <1>1. CASE options = <<>>
    BY <1>1, NoOptions DEF EntryInvariant, Merged, FormDefaults
  <1>2. CASE options # <<>>
    BY <1>2, FormsReplace DEF EntryInvariant, Merged, FormDefaults
  <1> QED
    BY <1>1, <1>2

LEMMA EntryStep ==
    EntryInvariant /\ [EntryNext]_entryVars => EntryInvariant'
  <1> SUFFICES ASSUME EntryInvariant, [EntryNext]_entryVars
               PROVE  EntryInvariant'
    OBVIOUS
  <1>1. CASE LoadConfig
    BY <1>1 DEF LoadConfig, EntryInvariant, Merged
  <1>2. CASE ClearConfig
    BY <1>2 DEF ClearConfig, EntryInvariant
  <1>3. ASSUME NEW form \in Forms, Reconfigure(form)
        PROVE  EntryInvariant'
    <2>1. Overlay(data, form) = form
      BY FormsReplace DEF EntryInvariant
    <2> QED
      BY <1>3, <2>1 DEF Reconfigure, EntryInvariant
  <1>4. ASSUME NEW form \in Forms, ChangeOptions(form)
        PROVE  EntryInvariant'
    <2>1. Overlay(data, form) = form
      BY FormsReplace DEF EntryInvariant
    <2> QED
      BY <1>4, <2>1 DEF ChangeOptions, EntryInvariant
  <1>5. CASE UNCHANGED entryVars
    BY <1>5 DEF entryVars, EntryInvariant, Merged
  <1> QED
    BY <1>1, <1>2, <1>3, <1>4, <1>5 DEF EntryNext

THEOREM EntriesKeepTheirInvariant == EntrySpec => []EntryInvariant
  <1>1. EntryInit => EntryInvariant
    BY DEF EntryInit, EntryInvariant
  <1> QED
    BY <1>1, EntryStep, PTL DEF EntrySpec

\* No order of forms that are accepted leaves an entry that the next set-up refuses
\* (_is_payload_valid and async_step_init, against load_from_entry).
THEOREM FormsLoad == EntrySpec => []AcceptedFormsLoad
  <1>1. EntryInvariant => AcceptedFormsLoad
    BY MergedIsAForm DEF AcceptedFormsLoad
  <1> QED
    BY <1>1, EntriesKeepTheirInvariant, PTL

\* A form shows the configuration that runs (_form_defaults, _deep_merge_dicts).
THEOREM FormsAreTrue == EntrySpec => []FormsShowWhatRuns
  <1>1. EntryInvariant => FormsShowWhatRuns
    BY MergedIsAForm DEF FormsShowWhatRuns, EntryInvariant
  <1> QED
    BY <1>1, EntriesKeepTheirInvariant, PTL

(***************************************************************************)
(* How much the validation of samples already says about their score.      *)
(***************************************************************************)

\* The range of a finite sequence, and what is computed from its elements, is
\* finite: it has no more elements than the sequence has places.
LEMMA RangeIsFinite ==
    ASSUME NEW S, NEW seq \in Seq(S)
    PROVE  /\ IsFiniteSet(Range(seq))
           /\ Cardinality(Range(seq)) \in Nat
  <1>1. /\ Len(seq) \in Nat
        /\ DOMAIN seq = 1 .. Len(seq)
    OBVIOUS
  <1>2. IsFiniteSet(1 .. Len(seq))
    BY <1>1, FS_Interval
  <1> DEFINE place == [i \in 1 .. Len(seq) |-> seq[i]]
  <1>3. place \in Surjection(1 .. Len(seq), Range(seq))
    BY <1>1 DEF Surjection, Range
  <1>4. IsFiniteSet(Range(seq))
    BY <1>2, <1>3, FS_Surjection
  <1> QED
    BY <1>4, FS_CardinalityType

\* At least one source is counted as soon as there is a sample.
LEMMA SomeSource ==
    ASSUME NEW request, IsRequest(request), request.samples # <<>>
    PROVE  Cardinality({SourceOf[s] : s \in Range(request.samples)}) \in Nat \ {0}
  <1> DEFINE samples == request.samples
             sources == {SourceOf[s] : s \in Range(samples)}
             source == [s \in Range(samples) |-> SourceOf[s]]
  <1>1. samples \in Seq(Samples)
    BY DEF IsRequest
  <1>2. IsFiniteSet(Range(samples))
    BY <1>1, RangeIsFinite
  <1>3. source \in Surjection(Range(samples), sources)
    BY DEF Surjection
  <1>4. IsFiniteSet(sources)
    BY <1>2, <1>3, FS_Surjection
  <1>5. Len(samples) >= 1 /\ 1 \in DOMAIN samples
    BY <1>1
  <1>6. sources # {}
    BY <1>5 DEF Range
  <1> QED
    BY <1>4, <1>6, FS_CardinalityType, FS_EmptySet

--------------------------------------------------------------------------------

\* Whatever validation lets through scores at least 0.825, whatever the samples,
\* their sources and the rest of the request are: the counts that validation
\* checks are those that weigh most in the score (sample_validation.py validate,
\* quality_scoring.py score).
THEOREM QualityFloor ==
    ASSUME NEW generation, NEW request, IsRequest(request),
           generation.min_sample_count \in Nat \ {0},
           ValidationPasses(generation, request)
    PROVE  /\ Score(generation, request) \in Int
           /\ Score(generation, request) >= 8250
  <1> DEFINE samples == request.samples
             n == Len(samples)
             sources == Cardinality({SourceOf[s] : s \in Range(samples)})
  <1>1. /\ samples \in Seq(Samples)
        /\ n \in Nat
        /\ samples # <<>>
    BY DEF IsRequest, ValidationPasses
  <1>2. n >= generation.min_sample_count /\ n > 0
    BY <1>1 DEF ValidationPasses
  <1>3. Cardinality(Range(samples)) = n
    <2>1. Cardinality(Range(samples)) \in Nat
      BY <1>1, RangeIsFinite
    <2>2. n - Cardinality(Range(samples)) = 0
      BY DEF ValidationPasses, Duplicates
    <2> QED
      BY <1>1, <2>1, <2>2
  <1>4. sources \in Nat \ {0}
    BY <1>1, SomeSource
  <1>5. Share(3000, n, generation.min_sample_count) = 3000
    BY <1>1, <1>2 DEF Share
  <1>6. Share(2000, Cardinality(Range(samples)), n) = 2000
    BY <1>1, <1>3 DEF Share
  <1>7. /\ Share(1000, sources, 2) \in Int
        /\ Share(1000, sources, 2) >= 500
    <2>1. CASE sources = 1
      BY <2>1 DEF Share
    <2>2. CASE sources >= 2
      BY <2>2, <1>4 DEF Share
    <2> QED
      BY <1>4, <2>1, <2>2
  <1> DEFINE parts == Share(1000, sources, 2)
             enrolled == IF request.enrolled = "none" THEN 900 ELSE 1500
             traced == IF request.traced THEN 1000 ELSE 800
             prepared == IF request.prepared THEN 1500 ELSE 1050
  <1>8. /\ enrolled \in Int /\ enrolled >= 900
        /\ traced \in Int /\ traced >= 800
        /\ prepared \in Int /\ prepared >= 1050
    OBVIOUS
  <1>9. Score(generation, request) = 3000 + 2000 + parts + enrolled + traced + prepared
    BY <1>2, <1>5, <1>6 DEF Score
  <1> HIDE DEF parts, enrolled, traced, prepared
  <1> QED
    BY <1>7, <1>8, <1>9 DEF parts

\* A threshold of at most 0.825, such as the default of 0.75, refuses nothing that
\* validation let through: the quality stage then decides nothing (const.py
\* DEFAULT_QUALITY_THRESHOLD, quality_scoring.py _threshold_outcome).
COROLLARY DefaultThresholdRefusesNothing ==
    ASSUME NEW generation, NEW request, IsRequest(request),
           generation.min_sample_count \in Nat \ {0},
           generation.quality_threshold \in Nat,
           generation.quality_threshold <= 8250,
           ValidationPasses(generation, request)
    PROVE  QualityPasses(generation, request)
  <1>1. /\ Score(generation, request) \in Int
        /\ Score(generation, request) >= 8250
    BY QualityFloor
  <1> QED
    BY <1>1 DEF QualityPasses

(***************************************************************************)
(* The operation over the orchestrator.                                    *)
(***************************************************************************)

\* Every step of the operation is a step of the orchestrator, or none.
LEMMA OperationStepsRun ==
    [OperationNext]_allVars => [Next]_vars
  <1> SUFFICES ASSUME [OperationNext]_allVars
               PROVE  [Next]_vars
    OBVIOUS
  <1>1. ASSUME NEW r \in Runs, NEW op \in Ops, NEW g \in Gens, NEW q \in Requests,
               Execute(r, op, g, q) \/ ExecuteUnsupported(r, op, g, q)
        PROVE  Next
    BY <1>1 DEF Execute, ExecuteUnsupported, Next
  <1>2. ASSUME NEW op \in Ops, ExecuteInvalid(op)
        PROVE  UNCHANGED vars
    BY <1>2 DEF ExecuteInvalid
  <1>3. ASSUME NEW r \in Runs, GoOn(r) \/ Refuse(r) \/ RunOut(r)
        PROVE  Next
    BY <1>3 DEF GoOn, Refuse, RunOut, Step, Next
  <1>4. ASSUME NEW g \in Gens, CancelGeneration(g)
        PROVE  Next
    BY <1>4 DEF CancelGeneration, Next
  <1>5. CASE SetUpEntry \/ UnloadEntry
    BY <1>5 DEF SetUpEntry, UnloadEntry, Next
  <1>6. ASSUME NEW form \in Forms, SaveForm(form)
        PROVE  [Next]_vars
    BY <1>6 DEF SaveForm, Next
  <1>7. CASE UNCHANGED allVars
    BY <1>7 DEF allVars
  <1> QED
    BY <1>1, <1>2, <1>3, <1>4, <1>5, <1>6, <1>7 DEF OperationNext

\* Every step of the operation is a step of the entry, or none.
LEMMA OperationStepsConfigure ==
    [OperationNext]_allVars => [EntryNext]_entryVars
  <1> SUFFICES ASSUME [OperationNext]_allVars
               PROVE  [EntryNext]_entryVars
    OBVIOUS
  <1>1. ASSUME NEW r \in Runs, NEW op \in Ops, NEW g \in Gens, NEW q \in Requests,
               Execute(r, op, g, q) \/ ExecuteUnsupported(r, op, g, q)
        PROVE  UNCHANGED entryVars
    BY <1>1 DEF Execute, ExecuteUnsupported
  <1>2. ASSUME NEW op \in Ops, ExecuteInvalid(op)
        PROVE  UNCHANGED entryVars
    BY <1>2 DEF ExecuteInvalid
  <1>3. ASSUME NEW r \in Runs, GoOn(r) \/ Refuse(r) \/ RunOut(r)
        PROVE  UNCHANGED entryVars
    BY <1>3 DEF GoOn, Refuse, RunOut
  <1>4. ASSUME NEW g \in Gens, CancelGeneration(g)
        PROVE  UNCHANGED entryVars
    BY <1>4 DEF CancelGeneration
  <1>5. CASE SetUpEntry \/ UnloadEntry
    BY <1>5 DEF SetUpEntry, UnloadEntry, EntryNext
  <1>6. ASSUME NEW form \in Forms, SaveForm(form)
        PROVE  EntryNext
    BY <1>6 DEF SaveForm, EntryNext
  <1>7. CASE UNCHANGED allVars
    BY <1>7 DEF allVars
  <1> QED
    BY <1>1, <1>2, <1>3, <1>4, <1>5, <1>6, <1>7 DEF OperationNext

\* The operation implements the orchestrator's specification: whatever is proved of
\* the orchestrator's runs holds of those the operation starts.
THEOREM OperationRunsTheOrchestrator == OperationSpec => Spec
  <1>1. OperationInit => Init
    BY DEF OperationInit
  <1> QED
    BY <1>1, OperationStepsRun, PTL DEF OperationSpec, Spec

\* And the entry's: forms that reload it under the calls in flight included.
THEOREM OperationKeepsTheEntry == OperationSpec => EntrySpec
  <1>1. OperationInit => EntryInit
    BY DEF OperationInit
  <1> QED
    BY <1>1, OperationStepsConfigure, PTL DEF OperationSpec, EntrySpec
--------------------------------------------------------------------------------
(***************************************************************************)
(* The inductive invariant that relates the three histories.               *)
(***************************************************************************)

CallRecord == [op : Ops \cup {None}, request : Requests \cup {None}, private : BOOLEAN]

\* A run of this instance: it is one of the calls of execute, whose operation has
\* an entry.
CallsAreKnown ==
    \A r \in Runs :
        (InFlight(r) /\ run[r].own) =>
            /\ loaded
            /\ call[r].op \in Ops
            /\ call[r].request \in Requests
            /\ status[call[r].op] # <<>>

\* What a run has passed, it would pass again under the configuration in effect.
GatesWerePassed ==
    \A r \in Runs :
        (InFlight(r) /\ run[r].own) =>
            /\ run[r].stage > 1 => ValidationPasses(config.generation, call[r].request)
            /\ run[r].stage > 2 => QualityPasses(config.generation, call[r].request)

\* Nobody else in flight has an id of a private call.
PrivateIdsAreFree ==
    \A r, q \in Runs :
        (call[r].private /\ q # r /\ InFlight(q) /\ run[q].own) =>
            call[q].op # call[r].op /\ run[q].gen # run[r].gen

\* A private call, in flight and afterwards.
PrivateCallsAgree ==
    \A r \in Runs :
        call[r].private =>
            /\ run[r].own
            /\ call[r].op \in Ops /\ run[r].gen \in Gens
            /\ generationOf[call[r].op] = run[r].gen
            /\ InFlight(r) => run[r].alone /\ status[call[r].op] = <<"requested", "running">>
            /\ ~InFlight(r) => /\ Len(status[call[r].op]) = 3
                               /\ Last(status[call[r].op]) = Last(history[run[r].gen])

OperationInvariant ==
    /\ RunInvariant
    /\ EntryInvariant
    /\ loaded <=> config # NoConfig
    /\ status \in [Ops -> Seq(OperationStatus)]
    /\ generationOf \in [Ops -> Gens \cup {None}]
    /\ call \in [Runs -> CallRecord]
    /\ CallsAreKnown
    /\ GatesWerePassed
    /\ PrivateIdsAreFree
    /\ PrivateCallsAgree
--------------------------------------------------------------------------------

LEMMA NoCallIsPublic == NoCall \in CallRecord /\ ~NoCall.private
  <1>1. NoCall \in CallRecord
    BY Zenon DEF NoCall, NewCall, CallRecord
  <1>2. ~NoCall.private
    BY DEF NoCall, NewCall
  <1> QED
    BY <1>1, <1>2

LEMMA NewCallIsCall ==
    ASSUME NEW op \in Ops, NEW q \in Requests, NEW private \in BOOLEAN
    PROVE  /\ NewCall(op, q, private) \in CallRecord
           /\ NewCall(op, q, private).op = op
           /\ NewCall(op, q, private).request = q
           /\ NewCall(op, q, private).private = private
  <1>1. op \in Ops \cup {None} /\ q \in Requests \cup {None}
    OBVIOUS
  <1>2. NewCall(op, q, private) \in CallRecord
    BY <1>1, Zenon DEF NewCall, CallRecord
  <1> QED
    BY <1>2 DEF NewCall

LEMMA InitOperationInvariant == OperationInit => OperationInvariant
  <1> SUFFICES ASSUME OperationInit
               PROVE  OperationInvariant
    OBVIOUS
  <1>1. RunInvariant
    BY InitRunInvariant DEF OperationInit
  <1>2. EntryInvariant
    BY DEF OperationInit, EntryInit, EntryInvariant
  <1>3. \A r \in Runs : ~InFlight(r)
    BY NoRunIsRun DEF OperationInit, Init, InFlight
  <1>4. \A r \in Runs : ~call[r].private
    BY NoCallIsPublic DEF OperationInit
  <1>5. loaded <=> config # NoConfig
    BY DEF OperationInit, Init, EntryInit
  <1>6. status \in [Ops -> Seq(OperationStatus)]
    <2>1. <<>> \in Seq(OperationStatus)
      OBVIOUS
    <2> QED
      BY <2>1 DEF OperationInit
  <1>7. generationOf \in [Ops -> Gens \cup {None}]
    BY DEF OperationInit
  <1>8. call \in [Runs -> CallRecord]
    BY NoCallIsPublic DEF OperationInit
  <1> QED
    BY <1>1, <1>2, <1>3, <1>4, <1>5, <1>6, <1>7, <1>8
       DEF OperationInvariant, CallsAreKnown, GatesWerePassed, PrivateIdsAreFree,
           PrivateCallsAgree

\* Both halves keep their invariants.
LEMMA HalvesKeepTheirInvariants ==
    ASSUME OperationInvariant, [OperationNext]_allVars
    PROVE  RunInvariant' /\ EntryInvariant'
  BY OperationStepsRun, OperationStepsConfigure, NextKeepsRunInvariant, EntryStep
     DEF OperationInvariant

--------------------------------------------------------------------------------

\* A call that begins: it is private only if nobody in flight shares an id with it,
\* and whoever shares one with it is not private any more.
LEMMA ExecuteKeepsInvariant ==
    ASSUME OperationInvariant, RunInvariant', EntryInvariant',
           NEW r \in Runs, NEW op \in Ops, NEW g \in Gens, NEW q \in Requests,
           Execute(r, op, g, q) \/ ExecuteUnsupported(r, op, g, q)
    PROVE  OperationInvariant'
  <1> DEFINE shares(p) == p # r /\ run[p].own /\ (call[p].op = op \/ run[p].gen = g)
  <1>1. PICK h, stage, s :
            /\ Begins(r, g, h, stage)
            /\ status' = [status EXCEPT ![op] = s]
            /\ \/ stage = 1 /\ s = <<"requested", "running">>
               \/ stage = 0 /\ s = <<"requested", "running", "failed">>
    <2>1. CASE Execute(r, op, g, q)
      <3>1. Generate(r, g) /\ status' = [status EXCEPT ![op] = <<"requested", "running">>]
        BY <2>1 DEF Execute
      <3>2. PICK h : Begins(r, g, h, 1)
        BY <3>1, GenerateBegins DEF OperationInvariant
      <3> QED
        BY <3>1, <3>2
    <2>2. CASE ExecuteUnsupported(r, op, g, q)
      <3>1. /\ GenerateUnsupported(r, g)
            /\ status' = [status EXCEPT ![op] = <<"requested", "running", "failed">>]
        BY <2>2 DEF ExecuteUnsupported
      <3>2. PICK h : Begins(r, g, h, 0)
        BY <3>1, GenerateBegins DEF OperationInvariant
      <3> QED
        BY <3>1, <3>2
    <2> QED
      BY <2>1, <2>2
  <1>2. /\ config # NoConfig /\ loaded
        /\ UNCHANGED entryVars
        /\ generationOf' = [generationOf EXCEPT ![op] = g]
        /\ BeginCall(r, op, g, q)
        /\ loaded' = loaded
    BY DEF Execute, ExecuteUnsupported, Generate, GenerateUnsupported
  <1>3. s \in Seq(OperationStatus) /\ s # <<>>
    <2>1. CASE s = <<"requested", "running">>
      BY <2>1 DEF OperationStatus
    <2>2. CASE s = <<"requested", "running", "failed">>
      BY <2>2 DEF OperationStatus
    <2> QED
      BY <1>1, <2>1, <2>2
  <1>4. /\ status'[op] = s
        /\ \A o \in Ops \ {op} : status'[o] = status[o]
        /\ generationOf'[op] = g
        /\ \A o \in Ops \ {op} : generationOf'[o] = generationOf[o]
        /\ history'[g] = h
        /\ \A f \in Gens \ {g} : history'[f] = history[f]
        /\ status' \in [Ops -> Seq(OperationStatus)]
        /\ generationOf' \in [Ops -> Gens \cup {None}]
    BY <1>1, <1>2, <1>3 DEF Begins, OperationInvariant, RunInvariant, TypeOK
  <1>5. /\ call'[r] \in CallRecord
        /\ call'[r].op = op
        /\ call'[r].request = q
        /\ call'[r].private => \A p \in Runs : shares(p) => ~InFlight(p)
    <2> DEFINE private == \A p \in Runs : shares(p) => ~InFlight(p)
    <2>1. private \in BOOLEAN /\ call'[r] = NewCall(op, q, private)
      BY <1>2 DEF BeginCall
    <2> HIDE DEF private
    <2> DEFINE x == NewCall(op, q, private)
    <2>2. /\ x \in CallRecord
          /\ x.op = op
          /\ x.request = q
          /\ x.private = private
      BY <2>1, NewCallIsCall
    <2>3. call'[r] = x
      BY <2>1
    <2> HIDE DEF x
    <2> QED
      BY <2>2, <2>3 DEF private
  <1>6. \A p \in Runs \ {r} :
            /\ call'[p] \in CallRecord
            /\ call'[p].op = call[p].op
            /\ call'[p].request = call[p].request
            /\ call'[p].private => call[p].private /\ ~shares(p)
    <2> TAKE p \in Runs \ {r}
    <2>1. call[p] \in CallRecord
      BY DEF OperationInvariant
    <2>2. CASE shares(p)
      <3>1. call'[p] = [call[p] EXCEPT !.private = FALSE]
        BY <1>2, <2>2 DEF BeginCall
      <3> QED
        BY <2>1, <3>1 DEF CallRecord
    <2>3. CASE ~shares(p)
      <3>1. call'[p] = call[p]
        BY <1>2, <2>3 DEF BeginCall
      <3> QED
        BY <2>1, <2>3, <3>1
    <2> QED
      BY <2>2, <2>3
  <1>7. call' \in [Runs -> CallRecord]
    <2>1. call' = [p \in Runs |-> call'[p]]
      BY <1>2 DEF BeginCall
    <2> QED
      BY <1>5, <1>6, <2>1
  <1>8. /\ run'[r].gen = g /\ run'[r].own /\ run'[r].stage = stage /\ stage \in {0, 1}
        /\ Others(r, g) = {} => run'[r].alone
        /\ \A p \in Runs \ {r} :
            /\ run'[p].gen = run[p].gen
            /\ run'[p].stage = run[p].stage
            /\ run'[p].own = run[p].own
            /\ run[p].alone /\ p \notin Others(r, g) => run'[p].alone
    BY <1>1 DEF Begins
  <1>9. config' = config
    BY <1>2 DEF entryVars
  <1>10. CallsAreKnown'
    <2> SUFFICES ASSUME NEW p \in Runs, InFlight(p)', run'[p].own
                 PROVE  /\ loaded'
                        /\ call'[p].op \in Ops
                        /\ call'[p].request \in Requests
                        /\ status'[call'[p].op] # <<>>
      BY DEF CallsAreKnown
    <2>1. CASE p = r
      BY <1>2, <1>3, <1>4, <1>5, <2>1
    <2>2. CASE p # r
      <3>1. /\ call[p].op \in Ops
            /\ call[p].request \in Requests
            /\ status[call[p].op] # <<>>
        BY <1>8, <2>2 DEF OperationInvariant, CallsAreKnown, InFlight
      <3> QED
        BY <1>2, <1>3, <1>4, <1>6, <2>2, <3>1
    <2> QED
      BY <2>1, <2>2
  <1>11. GatesWerePassed'
    <2> SUFFICES ASSUME NEW p \in Runs, InFlight(p)', run'[p].own
                 PROVE  /\ run'[p].stage > 1 =>
                              ValidationPasses(config'.generation, call'[p].request)
                        /\ run'[p].stage > 2 =>
                              QualityPasses(config'.generation, call'[p].request)
      BY DEF GatesWerePassed
    <2>1. CASE p = r
      BY <1>8, <2>1
    <2>2. CASE p # r
      BY <1>6, <1>8, <1>9, <2>2 DEF OperationInvariant, GatesWerePassed, InFlight
    <2> QED
      BY <2>1, <2>2
  <1>12. \A p \in Runs \ {r} : call'[p].private =>
            run[p].own /\ call[p].op # op /\ run[p].gen # g
    BY <1>6 DEF OperationInvariant, PrivateCallsAgree
  <1>13. PrivateIdsAreFree'
    <2> SUFFICES ASSUME NEW p \in Runs, NEW o \in Runs, call'[p].private, o # p,
                        InFlight(o)', run'[o].own
                 PROVE  call'[o].op # call'[p].op /\ run'[o].gen # run'[p].gen
      BY DEF PrivateIdsAreFree
    <2>1. CASE p = r
      BY <1>5, <1>6, <1>8, <2>1 DEF InFlight
    <2>2. CASE o = r
      BY <1>5, <1>6, <1>8, <1>12, <2>2
    <2>3. CASE p # r /\ o # r
      BY <1>6, <1>8, <2>3 DEF OperationInvariant, PrivateIdsAreFree, InFlight
    <2> QED
      BY <2>1, <2>2, <2>3
  <1>14. PrivateCallsAgree'
    <2> SUFFICES ASSUME NEW p \in Runs, call'[p].private
                 PROVE  /\ run'[p].own
                        /\ call'[p].op \in Ops /\ run'[p].gen \in Gens
                        /\ generationOf'[call'[p].op] = run'[p].gen
                        /\ InFlight(p)' => /\ run'[p].alone
                                           /\ status'[call'[p].op] = <<"requested", "running">>
                        /\ ~InFlight(p)' => /\ Len(status'[call'[p].op]) = 3
                                            /\ Last(status'[call'[p].op]) = Last(history'[run'[p].gen])
      BY DEF PrivateCallsAgree
    <2>1. CASE p = r
      <3>1. Others(r, g) = {}
        BY <1>5, <2>1 DEF Others
      <3>2. stage = 0 => Len(s) = 3 /\ Last(s) = "failed" /\ Last(h) = "failed"
        <4>1. Last(<<"requested", "running", "failed">>) = "failed"
          BY DEF Last
        <4> QED
          BY <1>1, <4>1 DEF Begins
      <3>3. stage = 1 => s = <<"requested", "running">>
        BY <1>1
      <3> QED
        BY <1>4, <1>5, <1>8, <2>1, <3>1, <3>2, <3>3 DEF InFlight
    <2>2. CASE p # r
      <3>1. call[p].private /\ run[p].own /\ call[p].op # op /\ run[p].gen # g
        BY <1>6, <1>12, <2>2
      <3>2. /\ call[p].op \in Ops /\ run[p].gen \in Gens
            /\ generationOf[call[p].op] = run[p].gen
            /\ InFlight(p) => run[p].alone /\ status[call[p].op] = <<"requested", "running">>
            /\ ~InFlight(p) => /\ Len(status[call[p].op]) = 3
                               /\ Last(status[call[p].op]) = Last(history[run[p].gen])
        BY <3>1 DEF OperationInvariant, PrivateCallsAgree
      <3>3. p \notin Others(r, g)
        BY <3>1 DEF Others
      <3>4. /\ status'[call[p].op] = status[call[p].op]
            /\ generationOf'[call[p].op] = generationOf[call[p].op]
            /\ history'[run[p].gen] = history[run[p].gen]
        BY <1>4, <3>1, <3>2
      <3> QED
        BY <1>6, <1>8, <2>2, <3>1, <3>2, <3>3, <3>4 DEF InFlight
    <2> QED
      BY <2>1, <2>2
  <1>15. loaded' <=> config' # NoConfig
    BY <1>2, <1>9
  <1> QED
    BY <1>4, <1>7, <1>10, <1>11, <1>13, <1>14, <1>15 DEF OperationInvariant
--------------------------------------------------------------------------------

\* A run that moves passes a stage that lets it pass, or it is over and recorded.
Moves(r, h, x) ==
    /\ Advances(r, h, x)
    /\ InFlight(r)
    /\ UNCHANGED entryVars
    /\ \/ /\ x.stage = run[r].stage + 1 /\ run[r].own
          /\ x.alone = run[r].alone
          /\ MayPass(r)
          /\ UNCHANGED operationVars
       \/ x.stage = 0 /\ RecordOutcome(r)

LEMMA CallsMove ==
    ASSUME RunInvariant, NEW r \in Runs, GoOn(r) \/ Refuse(r) \/ RunOut(r)
    PROVE  \E h, x : Moves(r, h, x)
  <1>1. Step(r) \/ Timeout(r)
    BY DEF GoOn, Refuse, RunOut, Step
  <1>2. InFlight(r)
    BY <1>1, StepAdvances DEF RunInvariant
  <1>3. PICK h, x : Advances(r, h, x)
    BY <1>1, StepAdvances DEF RunInvariant
  <1>4. run'[r] = x /\ run[r] \in Run
    BY <1>3 DEF Advances, RunInvariant, TypeOK
  <1>5. UNCHANGED entryVars
    BY DEF GoOn, Refuse, RunOut
  <1>6. CASE StagePasses(r) /\ MayPass(r) /\ UNCHANGED operationVars
    <2>1. x = [run[r] EXCEPT !.stage = @ + 1] /\ run[r].own
      BY <1>4, <1>6 DEF StagePasses, Accepts, HistoryOf, RunInvariant, TypeOK
    <2>2. x.stage = run[r].stage + 1 /\ x.alone = run[r].alone
      BY <1>4, <2>1 DEF Run
    <2> QED
      BY <1>2, <1>3, <1>5, <1>6, <2>1, <2>2 DEF Moves
  <1>7. CASE RecordOutcome(r) /\ x.stage = 0
    BY <1>2, <1>3, <1>5, <1>7 DEF Moves
  <1>8. ASSUME \/ Complete(r) \/ StageCancelled(r) \/ StageOutOfOrder(r)
               \/ StageFails(r) \/ Timeout(r)
        PROVE  x.stage = 0
    <2>1. \E own, outcome : run'[r] = Over(run[r].gen, own, outcome)
      BY <1>8 DEF Complete, StageCancelled, StageOutOfOrder, StageFails, Timeout, EndWith,
                  Return, RunInvariant, TypeOK
    <2> QED
      BY <1>4, <2>1 DEF Over
  <1> QED
    BY <1>6, <1>7, <1>8 DEF GoOn, Refuse, RunOut

LEMMA MoveKeepsInvariant ==
    ASSUME OperationInvariant, RunInvariant', EntryInvariant',
           NEW r \in Runs, GoOn(r) \/ Refuse(r) \/ RunOut(r)
    PROVE  OperationInvariant'
  <1> DEFINE g == run[r].gen
             op == call[r].op
  <1>1. PICK h, x : Moves(r, h, x)
    BY CallsMove DEF OperationInvariant
  <1>2. /\ InFlight(r) /\ g \in Gens
        /\ x \in Run /\ x.gen = g /\ x.own = run[r].own
        /\ run'[r] = x
        /\ \A q \in Runs \ {r} : run'[q] = run[q]
        /\ history'[g] = h
        /\ \A f \in Gens \ {g} : history'[f] = history[f]
        /\ ~run[r].own => h = history[g]
        /\ config' = config /\ loaded' = loaded
    BY <1>1 DEF Moves, Advances, entryVars, OperationInvariant, RunInvariant, TypeOK, RunsHaveIds
  <1>3. \A p \in Runs \ {r} : call[p].private =>
            /\ history'[run[p].gen] = history[run[p].gen]
            /\ run[r].own => op # call[p].op
    <2> SUFFICES ASSUME NEW p \in Runs \ {r}, call[p].private
                 PROVE  /\ history'[run[p].gen] = history[run[p].gen]
                        /\ run[r].own => op # call[p].op
      OBVIOUS
    <2>1. run[p].gen \in Gens
      BY DEF OperationInvariant, PrivateCallsAgree
    <2>2. CASE run[r].own
      BY <1>2, <2>1, <2>2 DEF OperationInvariant, PrivateIdsAreFree
    <2>3. CASE ~run[r].own
      BY <1>2, <2>1, <2>3
    <2> QED
      BY <2>2, <2>3
  <1>4. CASE /\ x.stage = run[r].stage + 1 /\ run[r].own
             /\ x.alone = run[r].alone
             /\ MayPass(r)
             /\ UNCHANGED operationVars
    <2>1. status' = status /\ generationOf' = generationOf /\ call' = call
      BY <1>4 DEF operationVars
    <2>2. x.stage # 0 /\ run[r].stage \in 1 .. 4
      BY <1>2, <1>4, StageNames DEF OperationInvariant, RunInvariant, TypeOK, Run, InFlight
    <2>3. CallsAreKnown'
      BY <1>2, <2>1 DEF OperationInvariant, CallsAreKnown, InFlight
    <2>4. GatesWerePassed'
      <3> SUFFICES ASSUME NEW p \in Runs, InFlight(p)', run'[p].own
                   PROVE  /\ run'[p].stage > 1 =>
                                ValidationPasses(config'.generation, call'[p].request)
                          /\ run'[p].stage > 2 =>
                                QualityPasses(config'.generation, call'[p].request)
        BY DEF GatesWerePassed
      <3>1. CASE p # r
        BY <1>2, <2>1, <3>1 DEF OperationInvariant, GatesWerePassed, InFlight
      <3>2. CASE p = r
        <4>1. /\ run[r].stage > 1 => ValidationPasses(config.generation, call[r].request)
              /\ run[r].stage > 2 => QualityPasses(config.generation, call[r].request)
          BY <1>2, <1>4 DEF OperationInvariant, GatesWerePassed
        <4>2. /\ run[r].stage = 1 => ValidationPasses(config.generation, call[r].request)
              /\ run[r].stage = 2 => QualityPasses(config.generation, call[r].request)
          BY <1>4, StageNames DEF MayPass
        <4>3. run'[r].stage = run[r].stage + 1
          BY <1>2, <1>4
        <4> QED
          BY <1>2, <2>1, <2>2, <3>2, <4>1, <4>2, <4>3
      <3> QED
        BY <3>1, <3>2
    <2>5. PrivateIdsAreFree'
      BY <1>2, <2>1 DEF OperationInvariant, PrivateIdsAreFree, InFlight
    <2>6. PrivateCallsAgree'
      <3> SUFFICES ASSUME NEW p \in Runs, call[p].private
                   PROVE  /\ run'[p].own
                          /\ call[p].op \in Ops /\ run'[p].gen \in Gens
                          /\ generationOf[call[p].op] = run'[p].gen
                          /\ InFlight(p)' => /\ run'[p].alone
                                             /\ status[call[p].op] = <<"requested", "running">>
                          /\ ~InFlight(p)' => /\ Len(status[call[p].op]) = 3
                                              /\ Last(status[call[p].op]) = Last(history'[run'[p].gen])
        BY <2>1 DEF PrivateCallsAgree
      <3>1. CASE p = r
        BY <1>2, <1>4, <2>2, <3>1 DEF OperationInvariant, PrivateCallsAgree, InFlight
      <3>2. CASE p # r
        BY <1>2, <1>3, <3>2 DEF OperationInvariant, PrivateCallsAgree, InFlight
      <3> QED
        BY <3>1, <3>2
    <2> QED
      BY <1>2, <2>1, <2>3, <2>4, <2>5, <2>6 DEF OperationInvariant
  <1>5. CASE x.stage = 0 /\ RecordOutcome(r)
    <2> DEFINE outcome == MapOutcome(x.ended)
    <2>1. /\ generationOf' = generationOf
          /\ call' = [call EXCEPT ![r] = IF call[r].private
                                         THEN [call[r] EXCEPT !.request = None]
                                         ELSE NoCall]
          /\ status' = IF run[r].own
                       THEN [status EXCEPT ![op] = Append(status[op], outcome)]
                       ELSE status
      BY <1>2, <1>5 DEF RecordOutcome, EndCall
    <2>2. outcome \in OperationStatus
      BY DEF MapOutcome, OperationStatus
    <2>3. run[r].own => op \in Ops
      BY <1>2 DEF OperationInvariant, CallsAreKnown
    <2> HIDE DEF outcome, op
    <2>4. /\ \A o \in Ops : status[o] \in Seq(OperationStatus)
          /\ \A o \in Ops : status[o] # <<>> => status'[o] # <<>>
          /\ \A o \in Ops : ~run[r].own \/ o # op => status'[o] = status[o]
          /\ run[r].own => status'[op] = Append(status[op], outcome)
          /\ status' \in [Ops -> Seq(OperationStatus)]
      <3>1. /\ status \in [Ops -> Seq(OperationStatus)]
            /\ \A o \in Ops : status[o] \in Seq(OperationStatus)
        BY DEF OperationInvariant
      <3>2. \A o \in Ops : /\ Append(status[o], outcome) \in Seq(OperationStatus)
                           /\ Append(status[o], outcome) # <<>>
        BY <2>2, <3>1
      <3>3. CASE run[r].own
        BY <2>1, <2>3, <3>1, <3>2, <3>3
      <3>4. CASE ~run[r].own
        BY <2>1, <3>1, <3>4
      <3> QED
        BY <3>3, <3>4
    <2>5. \A q \in Runs \ {r} : call'[q] = call[q]
      BY <2>1 DEF OperationInvariant
    <2>6. /\ call'[r] \in CallRecord
          /\ call'[r].private => call[r].private /\ call'[r].op = op
      <3>1. call[r] \in CallRecord
        BY DEF OperationInvariant
      <3>2. CASE call[r].private
        <4>1. call'[r] = [call[r] EXCEPT !.request = None]
          BY <2>1, <3>2 DEF OperationInvariant
        <4> QED
          BY <3>1, <3>2, <4>1 DEF CallRecord, op
      <3>3. CASE ~call[r].private
        <4>1. call'[r] = NoCall
          BY <2>1, <3>3 DEF OperationInvariant
        <4> QED
          BY <4>1, NoCallIsPublic
      <3> QED
        BY <3>2, <3>3
    <2>7. call' \in [Runs -> CallRecord]
      BY <2>1, <2>5, <2>6 DEF OperationInvariant
    <2>8. ~InFlight(r)'
      BY <1>2, <1>5 DEF InFlight
    <2>9. CallsAreKnown'
      BY <1>2, <2>4, <2>5, <2>8 DEF OperationInvariant, CallsAreKnown, InFlight
    <2>10. GatesWerePassed'
      <3> SUFFICES ASSUME NEW p \in Runs, InFlight(p)', run'[p].own
                   PROVE  /\ run'[p].stage > 1 =>
                                ValidationPasses(config'.generation, call'[p].request)
                          /\ run'[p].stage > 2 =>
                                QualityPasses(config'.generation, call'[p].request)
        BY DEF GatesWerePassed
      <3>1. p # r
        BY <2>8
      <3> QED
        BY <1>2, <2>5, <3>1 DEF OperationInvariant, GatesWerePassed, InFlight
    <2>11. PrivateIdsAreFree'
      <3> SUFFICES ASSUME NEW p \in Runs, NEW o \in Runs, call'[p].private, o # p,
                          InFlight(o)', run'[o].own
                   PROVE  call'[o].op # call'[p].op /\ run'[o].gen # run'[p].gen
        BY DEF PrivateIdsAreFree
      <3>1. o # r
        BY <2>8
      <3>2. call[p].private /\ call'[p].op = call[p].op /\ run'[p].gen = run[p].gen
        BY <1>2, <2>5, <2>6 DEF op
      <3> QED
        BY <1>2, <2>5, <3>1, <3>2 DEF OperationInvariant, PrivateIdsAreFree, InFlight
    <2>12. PrivateCallsAgree'
      <3> SUFFICES ASSUME NEW p \in Runs, call'[p].private
                   PROVE  /\ run'[p].own
                          /\ call'[p].op \in Ops /\ run'[p].gen \in Gens
                          /\ generationOf'[call'[p].op] = run'[p].gen
                          /\ InFlight(p)' => /\ run'[p].alone
                                             /\ status'[call'[p].op] = <<"requested", "running">>
                          /\ ~InFlight(p)' => /\ Len(status'[call'[p].op]) = 3
                                              /\ Last(status'[call'[p].op]) = Last(history'[run'[p].gen])
        BY DEF PrivateCallsAgree
      <3>1. CASE p # r
        <4>1. call'[p] = call[p] /\ call[p].private /\ run'[p] = run[p]
          BY <1>2, <2>5, <3>1
        <4>2. call[p].op \in Ops /\ (~run[r].own \/ call[p].op # op)
          BY <1>3, <3>1, <4>1 DEF OperationInvariant, PrivateCallsAgree, op
        <4>3. status'[call[p].op] = status[call[p].op]
          BY <2>4, <4>2
        <4>4. history'[run[p].gen] = history[run[p].gen]
          BY <1>3, <3>1, <4>1
        <4> QED
          BY <2>1, <4>1, <4>3, <4>4 DEF OperationInvariant, PrivateCallsAgree, InFlight
      <3>2. CASE p = r
        <4>1. /\ call[r].private /\ call'[r].op = op
              /\ run[r].own /\ run[r].alone
              /\ op \in Ops
              /\ generationOf[op] = g
              /\ status[op] = <<"requested", "running">>
          BY <1>2, <2>6, <3>2 DEF OperationInvariant, PrivateCallsAgree, op
        <4>2. history[g] # <<>> /\ Last(history[g]) = Stages[run[r].stage]
          BY <1>2, <4>1 DEF OperationInvariant, RunInvariant, AloneInStep
        <4>3. run[r].stage \in 1 .. 5
          BY <1>2, StageNames DEF OperationInvariant, RunInvariant, TypeOK, Run, InFlight
        <4>4. Last(history[g]) \notin Terminal
          BY <4>2, <4>3, StageNames
        <4>5. x.ended = Last(h) /\ Last(h) \in Terminal
          <5>1. run[r].stage \in 1 .. 4 /\ x = [run[r] EXCEPT !.stage = @ + 1]
                    => x.stage = run[r].stage + 1
            BY DEF OperationInvariant, RunInvariant, TypeOK, Run
          <5> QED
            BY <1>1, <1>5, <4>1, <4>2, <4>4, <5>1 DEF Moves, Advances
        <4>6. outcome = Last(h)
          BY <4>5 DEF MapOutcome, Terminal, outcome
        <4>7. status'[op] = Append(<<"requested", "running">>, outcome)
          BY <2>4, <4>1
        <4>8. Len(status'[op]) = 3 /\ Last(status'[op]) = outcome
          BY <4>7 DEF Last
        <4> QED
          BY <1>2, <2>1, <2>8, <3>2, <4>1, <4>6, <4>8
      <3> QED
        BY <3>1, <3>2
    <2> QED
      BY <1>2, <2>1, <2>4, <2>7, <2>9, <2>10, <2>11, <2>12 DEF OperationInvariant
  <1> QED
    BY <1>1, <1>4, <1>5 DEF Moves
--------------------------------------------------------------------------------

\* A request with an identifier that is none: the calls of the operation are not
\* private any more.
LEMMA InvalidKeepsInvariant ==
    ASSUME OperationInvariant, RunInvariant', EntryInvariant',
           NEW op \in Ops, ExecuteInvalid(op)
    PROVE  OperationInvariant'
  <1> DEFINE s == <<"requested", "running", "failed">>
  <1>1. /\ UNCHANGED <<vars, entryVars, generationOf>>
        /\ status' = [status EXCEPT ![op] = s]
        /\ call' = [q \in Runs |-> IF call[q].op = op /\ run[q].own
                                   THEN [call[q] EXCEPT !.private = FALSE]
                                   ELSE call[q]]
    BY DEF ExecuteInvalid
  <1>2. s \in Seq(OperationStatus) /\ s # <<>>
    BY DEF OperationStatus
  <1>3. /\ status' \in [Ops -> Seq(OperationStatus)]
        /\ \A o \in Ops \ {op} : status'[o] = status[o]
        /\ \A o \in Ops : status[o] # <<>> => status'[o] # <<>>
    BY <1>1, <1>2 DEF OperationInvariant
  <1>4. \A q \in Runs :
            /\ call'[q] \in CallRecord
            /\ call'[q].op = call[q].op
            /\ call'[q].request = call[q].request
            /\ call'[q].private => call[q].private /\ ~(call[q].op = op /\ run[q].own)
    <2> TAKE q \in Runs
    <2>1. call[q] \in CallRecord
      BY DEF OperationInvariant
    <2>2. CASE call[q].op = op /\ run[q].own
      <3>1. call'[q] = [call[q] EXCEPT !.private = FALSE]
        BY <1>1, <2>2
      <3> QED
        BY <2>1, <3>1 DEF CallRecord
    <2>3. CASE ~(call[q].op = op /\ run[q].own)
      <3>1. call'[q] = call[q]
        BY <1>1, <2>3
      <3> QED
        BY <2>1, <2>3, <3>1
    <2> QED
      BY <2>2, <2>3
  <1>5. call' \in [Runs -> CallRecord]
    BY <1>1, <1>4
  <1>6. /\ history' = history /\ run' = run /\ loaded' = loaded
        /\ config' = config /\ generationOf' = generationOf
    BY <1>1 DEF vars, entryVars
  <1>7. CallsAreKnown'
    BY <1>3, <1>4, <1>6 DEF OperationInvariant, CallsAreKnown, InFlight
  <1>8. GatesWerePassed'
    <2> SUFFICES ASSUME NEW p \in Runs, InFlight(p)', run'[p].own
                 PROVE  /\ run'[p].stage > 1 =>
                              ValidationPasses(config'.generation, call'[p].request)
                        /\ run'[p].stage > 2 =>
                              QualityPasses(config'.generation, call'[p].request)
      BY DEF GatesWerePassed
    <2> QED
      BY <1>4, <1>6 DEF OperationInvariant, GatesWerePassed, InFlight
  <1>9. PrivateIdsAreFree'
    BY <1>4, <1>6 DEF OperationInvariant, PrivateIdsAreFree, InFlight
  <1>10. PrivateCallsAgree'
    <2> SUFFICES ASSUME NEW p \in Runs, call'[p].private
                 PROVE  /\ run[p].own
                        /\ call[p].op \in Ops /\ run[p].gen \in Gens
                        /\ generationOf[call[p].op] = run[p].gen
                        /\ InFlight(p) => /\ run[p].alone
                                          /\ status'[call[p].op] = <<"requested", "running">>
                        /\ ~InFlight(p) => /\ Len(status'[call[p].op]) = 3
                                           /\ Last(status'[call[p].op]) = Last(history[run[p].gen])
      BY <1>4, <1>6 DEF PrivateCallsAgree, InFlight
    <2>1. call[p].private /\ run[p].own /\ call[p].op \in Ops \ {op}
      BY <1>4 DEF OperationInvariant, PrivateCallsAgree
    <2> QED
      BY <1>3, <2>1 DEF OperationInvariant, PrivateCallsAgree
  <1> QED
    BY <1>3, <1>5, <1>6, <1>7, <1>8, <1>9, <1>10 DEF OperationInvariant

\* A request to cancel changes nothing that the calls look at.
LEMMA CancellationKeepsInvariant ==
    ASSUME OperationInvariant, RunInvariant', EntryInvariant',
           NEW g \in Gens, CancelGeneration(g)
    PROVE  OperationInvariant'
  <1>1. /\ history' = history /\ loaded' = loaded
        /\ status' = status /\ generationOf' = generationOf /\ call' = call
        /\ config' = config
        /\ run' = [q \in Runs |-> IF InFlight(q) /\ run[q].own /\ run[q].gen = g
                                  THEN [run[q] EXCEPT !.asked = TRUE]
                                  ELSE run[q]]
    BY DEF CancelGeneration, Cancel, entryVars, operationVars
  <1>2. \A q \in Runs :
            /\ run'[q].gen = run[q].gen
            /\ run'[q].stage = run[q].stage
            /\ run'[q].own = run[q].own
            /\ run'[q].alone = run[q].alone
    BY <1>1 DEF OperationInvariant, RunInvariant, TypeOK, Run
  <1>3. CallsAreKnown' /\ PrivateIdsAreFree' /\ PrivateCallsAgree'
    BY <1>1, <1>2 DEF OperationInvariant, CallsAreKnown, PrivateIdsAreFree,
                      PrivateCallsAgree, InFlight
  <1>4. GatesWerePassed'
    <2> SUFFICES ASSUME NEW p \in Runs, InFlight(p)', run'[p].own
                 PROVE  /\ run'[p].stage > 1 =>
                              ValidationPasses(config'.generation, call'[p].request)
                        /\ run'[p].stage > 2 =>
                              QualityPasses(config'.generation, call'[p].request)
      BY DEF GatesWerePassed
    <2> QED
      BY <1>1, <1>2 DEF OperationInvariant, GatesWerePassed, InFlight
  <1> QED
    BY <1>1, <1>3, <1>4 DEF OperationInvariant

\* When the instance is cleared, no call in flight belongs to it any more.
LEMMA ClearingKeepsInvariant ==
    ASSUME OperationInvariant, RunInvariant', EntryInvariant',
           Clear, ClearOperation, config' = NoConfig
    PROVE  OperationInvariant'
  <1>1. /\ loaded' = FALSE
        /\ status' = [o \in Ops |-> <<>>]
        /\ generationOf' = [o \in Ops |-> None]
    BY DEF Clear, ClearOperation
  <1>2. \A r \in Runs : InFlight(r)' => ~run'[r].own
    <2> TAKE r \in Runs
    <2>1. CASE InFlight(r)
      <3>1. run'[r] = [run[r] EXCEPT !.own = FALSE, !.asked = FALSE]
        BY <2>1 DEF Clear
      <3> QED
        BY <3>1 DEF OperationInvariant, RunInvariant, TypeOK, Run
    <2>2. CASE ~InFlight(r)
      <3>1. run'[r] = NoRun
        BY <2>2 DEF Clear
      <3> QED
        BY <3>1, NoRunIsRun DEF InFlight
    <2> QED
      BY <2>1, <2>2
  <1>3. \A r \in Runs : InFlight(r) => ~run'[r].own
    <2> SUFFICES ASSUME NEW r \in Runs, InFlight(r)
                 PROVE  ~run'[r].own
      OBVIOUS
    <2>1. run'[r] = [run[r] EXCEPT !.own = FALSE, !.asked = FALSE]
      BY DEF Clear
    <2> QED
      BY <2>1 DEF OperationInvariant, RunInvariant, TypeOK, Run
  <1>4. call' = [r \in Runs |-> NoCall]
    BY <1>3 DEF ClearOperation
  <1>5. /\ call' \in [Runs -> CallRecord]
        /\ \A r \in Runs : ~call'[r].private
    BY <1>4, NoCallIsPublic
  <1>6. status' \in [Ops -> Seq(OperationStatus)]
    <2>1. <<>> \in Seq(OperationStatus)
      OBVIOUS
    <2> QED
      BY <1>1, <2>1
  <1>7. generationOf' \in [Ops -> Gens \cup {None}]
    BY <1>1
  <1>8. CallsAreKnown' /\ GatesWerePassed'
    BY <1>2 DEF CallsAreKnown, GatesWerePassed
  <1>9. PrivateIdsAreFree' /\ PrivateCallsAgree'
    BY <1>5 DEF PrivateIdsAreFree, PrivateCallsAgree
  <1> QED
    BY <1>1, <1>5, <1>6, <1>7, <1>8, <1>9 DEF OperationInvariant

\* A set-up, or a form saved without one: no call in flight sees it.
LEMMA LoadingKeepsInvariant ==
    ASSUME OperationInvariant, RunInvariant', EntryInvariant',
           ~loaded, history' = history, run' = run, UNCHANGED operationVars,
           loaded' <=> config' # NoConfig
    PROVE  OperationInvariant'
  <1>1. status' = status /\ generationOf' = generationOf /\ call' = call
    BY DEF operationVars
  <1>2. \A r \in Runs : InFlight(r)' => ~run'[r].own
    BY DEF OperationInvariant, CallsAreKnown, InFlight
  <1>3. CallsAreKnown' /\ GatesWerePassed'
    BY <1>2 DEF CallsAreKnown, GatesWerePassed
  <1>4. PrivateIdsAreFree' /\ PrivateCallsAgree'
    BY <1>1 DEF OperationInvariant, PrivateIdsAreFree, PrivateCallsAgree, InFlight
  <1> QED
    BY <1>1, <1>3, <1>4 DEF OperationInvariant

LEMMA OperationStepKeepsInvariant ==
    OperationInvariant /\ [OperationNext]_allVars => OperationInvariant'
  <1> SUFFICES ASSUME OperationInvariant, [OperationNext]_allVars
               PROVE  OperationInvariant'
    OBVIOUS
  <1>1. RunInvariant' /\ EntryInvariant'
    BY HalvesKeepTheirInvariants
  <1>2. ASSUME NEW r \in Runs, NEW op \in Ops, NEW g \in Gens, NEW q \in Requests,
               Execute(r, op, g, q) \/ ExecuteUnsupported(r, op, g, q)
        PROVE  OperationInvariant'
    BY <1>1, <1>2, ExecuteKeepsInvariant
  <1>3. ASSUME NEW op \in Ops, ExecuteInvalid(op)
        PROVE  OperationInvariant'
    BY <1>1, <1>3, InvalidKeepsInvariant
  <1>4. ASSUME NEW r \in Runs, GoOn(r) \/ Refuse(r) \/ RunOut(r)
        PROVE  OperationInvariant'
    BY <1>1, <1>4, MoveKeepsInvariant
  <1>5. ASSUME NEW g \in Gens, CancelGeneration(g)
        PROVE  OperationInvariant'
    BY <1>1, <1>5, CancellationKeepsInvariant
  <1>6. CASE SetUpEntry
    <2>1. config' = Merged /\ Merged \in Forms
      BY <1>6, MergedIsAForm DEF SetUpEntry, LoadConfig, OperationInvariant
    <2>2. config' # NoConfig
      BY <2>1, EntryAssumption
    <2> QED
      BY <1>1, <1>6, <2>2, LoadingKeepsInvariant DEF SetUpEntry, SetUp
  <1>7. CASE UnloadEntry
    BY <1>1, <1>7, ClearingKeepsInvariant DEF UnloadEntry, ClearConfig
  <1>8. ASSUME NEW form \in Forms, SaveForm(form)
        PROVE  OperationInvariant'
    <2>1. config' = NoConfig
      BY <1>8 DEF SaveForm, Reconfigure, ChangeOptions
    <2>2. CASE loaded
      BY <1>1, <1>8, <2>1, <2>2, ClearingKeepsInvariant DEF SaveForm
    <2>3. CASE ~loaded
      BY <1>1, <1>8, <2>1, <2>3, LoadingKeepsInvariant DEF SaveForm, vars
    <2> QED
      BY <2>2, <2>3
  <1>9. CASE UNCHANGED allVars
    <2>1. UNCHANGED vars /\ UNCHANGED entryVars /\ UNCHANGED operationVars
      BY <1>9 DEF allVars
    <2>2. GatesWerePassed'
      <3> SUFFICES ASSUME NEW p \in Runs, InFlight(p)', run'[p].own
                   PROVE  /\ run'[p].stage > 1 =>
                                ValidationPasses(config'.generation, call'[p].request)
                          /\ run'[p].stage > 2 =>
                                QualityPasses(config'.generation, call'[p].request)
        BY DEF GatesWerePassed
      <3> QED
        BY <2>1 DEF OperationInvariant, GatesWerePassed, InFlight, vars, entryVars, operationVars
    <2> QED
      BY <1>1, <2>1, <2>2 DEF vars, entryVars, operationVars, OperationInvariant,
                              CallsAreKnown, PrivateIdsAreFree, PrivateCallsAgree, InFlight
  <1> QED
    BY <1>2, <1>3, <1>4, <1>5, <1>6, <1>7, <1>8, <1>9 DEF OperationNext

\* The histories of the operation and of the orchestrator, the configuration and
\* the calls in flight fit together in every reachable state.
THEOREM OperationKeepsItsInvariant == OperationSpec => []OperationInvariant
  BY InitOperationInvariant, OperationStepKeepsInvariant, PTL DEF OperationSpec
--------------------------------------------------------------------------------

\* Every reachable state of the operation is well typed, and there is a configuration
\* whenever there is an instance.
THEOREM OperationTypeCorrect == OperationSpec => []OperationTypeOK
  <1>1. OperationInvariant => OperationTypeOK
    <2> SUFFICES ASSUME OperationInvariant
                 PROVE  OperationTypeOK
      OBVIOUS
    <2>1. TypeOK
      BY DEF OperationInvariant, RunInvariant
    <2>2. DOMAIN options \subseteq Sections \/ options = <<>>
      <3>1. \A f \in Forms : DOMAIN f = Sections
        <4>1. \A f \in Forms : f = [s \in Sections |-> f[s]]
          BY EntryAssumption DEF FormAssumption
        <4> QED
          BY <4>1
      <3> QED
        BY <3>1 DEF OperationInvariant, EntryInvariant
    <2>3. EntryTypeOK
      BY <2>2, MergedIsAForm DEF OperationInvariant, EntryInvariant, EntryTypeOK
    <2> QED
      BY <2>1, <2>3 DEF OperationInvariant, OperationTypeOK, CallRecord
  <1> QED
    BY <1>1, OperationKeepsItsInvariant, PTL

\* Both status look-ups tell the same of a call that had its ids to itself (execute
\* and _map_failure, against _build_failure).
THEOREM LookUpsAgree == OperationSpec => []StatusesAgree
  <1>1. OperationInvariant => StatusesAgree
    BY DEF OperationInvariant, PrivateCallsAgree, StatusesAgree
  <1> QED
    BY <1>1, OperationKeepsItsInvariant, PTL

\* No order of forms, reloads and calls leaves an entry that the set-up refuses.
COROLLARY FormsLoadUnderCalls == OperationSpec => []AcceptedFormsLoad
  BY OperationKeepsTheEntry, FormsLoad, PTL

\* A run that ends in a step of the operation ends by moving.
LEMMA CallsEndThemselves ==
    ASSUME OperationInvariant, [OperationNext]_allVars,
           NEW r \in Runs, InFlight(r), run'[r].stage = 0
    PROVE  GoOn(r) \/ Refuse(r) \/ RunOut(r)
  <1>1. ASSUME NEW q \in Runs, NEW op \in Ops, NEW g \in Gens, NEW p \in Requests,
               Execute(q, op, g, p) \/ ExecuteUnsupported(q, op, g, p)
        PROVE  FALSE
    <2>1. Generate(q, g) \/ GenerateUnsupported(q, g)
      BY <1>1 DEF Execute, ExecuteUnsupported
    <2>2. PICK h, stage : Begins(q, g, h, stage)
      BY <2>1, GenerateBegins DEF OperationInvariant
    <2> QED
      BY <2>2 DEF Begins, InFlight
  <1>2. ASSUME NEW q \in Runs, GoOn(q) \/ Refuse(q) \/ RunOut(q)
        PROVE  q = r
    <2>1. PICK h, x : Moves(q, h, x)
      BY <1>2, CallsMove DEF OperationInvariant
    <2> QED
      BY <2>1 DEF Moves, Advances, InFlight
  <1>3. ASSUME NEW g \in Gens, CancelGeneration(g)
        PROVE  FALSE
    <2>1. run'[r].stage = run[r].stage
      BY <1>3 DEF CancelGeneration, Cancel, OperationInvariant, RunInvariant, TypeOK, Run
    <2> QED
      BY <2>1 DEF InFlight
  <1>4. ~Clear
    <2> SUFFICES ASSUME Clear
                 PROVE  FALSE
      OBVIOUS
    <2>1. run'[r] = [run[r] EXCEPT !.own = FALSE, !.asked = FALSE]
      BY DEF Clear
    <2>2. run'[r].stage = run[r].stage
      BY <2>1 DEF OperationInvariant, RunInvariant, TypeOK, Run
    <2> QED
      BY <2>2 DEF InFlight
  <1>5. run' # run
    BY DEF InFlight
  <1>6. ~UnloadEntry /\ ~SetUpEntry
    BY <1>4, <1>5 DEF UnloadEntry, SetUpEntry, SetUp
  <1>7. \A form \in Forms : ~SaveForm(form)
    BY <1>4, <1>5 DEF SaveForm, vars
  <1>8. \A op \in Ops : ~ExecuteInvalid(op)
    BY <1>5 DEF ExecuteInvalid, vars
  <1>9. ~UNCHANGED allVars
    BY <1>5 DEF allVars, vars
  <1> QED
    BY <1>1, <1>2, <1>3, <1>6, <1>7, <1>8, <1>9 DEF OperationNext

\* Whenever the orchestrator returns a result, execute finds the entry of _status it
\* appends to (execute and clear of the operation, clear of the orchestrator).
THEOREM ResultsAreRecorded == OperationSpec => ResultsFindTheirStatus
  <1> DEFINE Found == \A r \in Runs : EndsWith(r, Terminal) => status[call[r].op] # <<>>
  <1>1. OperationInvariant /\ [OperationNext]_allVars => [Found]_allVars
    <2> SUFFICES ASSUME OperationInvariant, [OperationNext]_allVars, NEW r \in Runs,
                        EndsWith(r, Terminal)
                 PROVE  status[call[r].op] # <<>>
      OBVIOUS
    <2>1. InFlight(r) /\ run'[r].stage = 0 /\ run'[r].ended \in Terminal
      BY DEF EndsWith
    <2>2. PICK h, x : Moves(r, h, x)
      BY <2>1, CallsEndThemselves, CallsMove DEF OperationInvariant
    <2>3. run'[r] = x
      BY <2>2 DEF Moves, Advances, OperationInvariant, RunInvariant, TypeOK
    <2>4. run[r].own
      BY <2>1, <2>2, <2>3 DEF Moves, Advances, Terminal
    <2> QED
      BY <2>1, <2>4 DEF OperationInvariant, CallsAreKnown
  <1> QED
    BY <1>1, OperationKeepsItsInvariant, PTL DEF OperationSpec, ResultsFindTheirStatus

\* What completes meets the configuration in effect when it completes, although forms
\* may reload the integration at any moment (validate, score, clear).
THEOREM CompletedMeet == OperationSpec => CompletedMeetTheConfiguration
  <1> DEFINE Meets ==
        \A r \in Runs :
            EndsWith(r, {"completed"}) =>
                LET request == call[r].request IN
                /\ config # NoConfig
                /\ Cardinality(Range(request.samples)) \in
                        config.generation.min_sample_count .. config.generation.max_sample_count
                /\ Score(config.generation, request) >= config.generation.quality_threshold
  <1>1. OperationInvariant /\ [OperationNext]_allVars => [Meets]_allVars
    <2> SUFFICES ASSUME OperationInvariant, [OperationNext]_allVars, NEW r \in Runs,
                        EndsWith(r, {"completed"})
                 PROVE  /\ config # NoConfig
                        /\ Cardinality(Range(call[r].request.samples)) \in
                                config.generation.min_sample_count .. config.generation.max_sample_count
                        /\ Score(config.generation, call[r].request)
                                >= config.generation.quality_threshold
      OBVIOUS
    <2> DEFINE request == call[r].request
    <2>1. InFlight(r) /\ run'[r].stage = 0 /\ run'[r].ended = "completed"
      BY DEF EndsWith
    <2>2. GoOn(r) \/ Refuse(r) \/ RunOut(r)
      BY <2>1, CallsEndThemselves
    <2>3. PICK h, x : Moves(r, h, x)
      BY <2>2, CallsMove DEF OperationInvariant
    <2>4. run'[r] = x
      BY <2>3 DEF Moves, Advances, OperationInvariant, RunInvariant, TypeOK
    <2>5. run[r].own
      BY <2>1, <2>3, <2>4 DEF Moves, Advances
    <2>6. Complete(r)
      <3>1. ASSUME NEW s \in {"failed", "cancelled"}, EndWith(r, s)
            PROVE  FALSE
        <4>1. \E own, o : o # "completed" /\ run'[r] = Over(run[r].gen, own, o)
          BY <3>1 DEF EndWith, Return, OperationInvariant, RunInvariant, TypeOK
        <4> QED
          BY <2>1, <4>1 DEF Over
      <3>2. ~StagePasses(r)
        <4>1. StagePasses(r) => run'[r] = [run[r] EXCEPT !.stage = @ + 1]
          BY DEF StagePasses, OperationInvariant, RunInvariant, TypeOK
        <4> QED
          BY <2>1, <4>1 DEF OperationInvariant, RunInvariant, TypeOK, Run
      <3> QED
        BY <2>2, <3>1, <3>2 DEF GoOn, Refuse, RunOut, StageFails, StageCancelled,
                                StageOutOfOrder, Timeout
    <2>7. /\ loaded /\ config # NoConfig
          /\ request \in Requests
          /\ ValidationPasses(config.generation, request)
          /\ QualityPasses(config.generation, request)
      BY <2>1, <2>5, <2>6, StageNames
         DEF OperationInvariant, CallsAreKnown, GatesWerePassed, Complete
    <2>8. request.samples \in Seq(Samples)
      BY <2>7, RequestAssumption DEF IsRequest
    <2> HIDE DEF request
    <2>9. /\ Cardinality(Range(request.samples)) \in Nat
          /\ Len(request.samples) \in Nat
          /\ Len(request.samples) - Cardinality(Range(request.samples)) = 0
      BY <2>7, <2>8, RangeIsFinite DEF ValidationPasses, Duplicates
    <2>10. Cardinality(Range(request.samples)) = Len(request.samples)
      BY <2>9
    <2>11. /\ config.generation.min_sample_count \in Nat
           /\ config.generation.max_sample_count \in Nat
      <3> DEFINE min == config.generation.min_sample_count
                 max == config.generation.max_sample_count
      <3>1. GenerationValid(config.generation)
        BY <2>7, MergedIsAForm DEF OperationInvariant, EntryInvariant, Valid
      <3>2. min \in 1 .. 64 /\ max \in min .. 128
        BY <3>1 DEF GenerationValid
      <3> HIDE DEF min, max
      <3>3. min \in Nat /\ max \in Nat
        BY <3>2
      <3> QED
        BY <3>3 DEF min, max
    <2>12. Cardinality(Range(request.samples)) \in
                config.generation.min_sample_count .. config.generation.max_sample_count
      BY <2>7, <2>9, <2>10, <2>11 DEF ValidationPasses
    <2> QED
      BY <2>7, <2>12 DEF QualityPasses, request
  <1> QED
    BY <1>1, OperationKeepsItsInvariant, PTL DEF OperationSpec, CompletedMeetTheConfiguration

================================================================================
