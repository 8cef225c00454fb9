----------------------------- MODULE GenerationGates -----------------------------
(***************************************************************************)
(* What the first three stages of the generation workflow decide about a   *)
(* request under a configuration: sample_validation.py, quality_scoring.py *)
(* and model_execution.py as functions.  Scores are in ten-thousandths, as *)
(* the source rounds them; a configuration is one of EntryConfiguration.   *)
(***************************************************************************)
EXTENDS Integers, Sequences, FiniteSets, Functions

CONSTANTS
    Samples,        \* sample references
    SourceOf,       \* _source_key: per sample the prefix of its reference
    WellFormed,     \* _is_valid_reference: the samples that have the form of one
    NoPreference    \* a request that names no model

ASSUME SampleAssumption == DOMAIN SourceOf = Samples /\ WellFormed \subseteq Samples

\* What of a request the gates look at.  A request is identified, has a source
\* and, if it has a timeout, a positive one: GenerationRequest.create sees to the
\* first two, and generate_voiceprint takes another timeout for none.
IsRequest(request) ==
    /\ request.samples \in Seq(Samples)
    /\ request.enrolled \in {"none", "well_formed", "malformed"}  \* enrollment references
    /\ request.traced \in BOOLEAN       \* there is a correlation or request id
    /\ request.prepared \in BOOLEAN     \* there are prepared inputs

--------------------------------------------------------------------------------

\* _resolve_model_preference: the request's, or the configuration's.
SelectedModel(generation, request) ==
    IF request.model = NoPreference THEN generation.model_preference ELSE request.model

Supported(generation, request) ==
    SelectedModel(generation, request) \in generation.supported_models

\* _duplicate_count
Duplicates(samples) == Len(samples) - Cardinality(Range(samples))

\* validate: there is no blocking finding.  That no enrollment reference is given
\* is a warning, a malformed one is an error.
ValidationPasses(generation, request) ==
    /\ request.samples # <<>>
    /\ Len(request.samples) >= generation.min_sample_count
    /\ Len(request.samples) <= generation.max_sample_count
    /\ Duplicates(request.samples) = 0
    /\ Range(request.samples) \subseteq WellFormed
    /\ request.enrolled # "malformed"
    /\ Supported(generation, request)

--------------------------------------------------------------------------------

\* weight * _clamp(part / whole)
Share(weight, part, whole) ==
    IF part >= whole THEN weight ELSE (weight * part) \div whole

\* _compute_overall_score of the breakdown in score
Score(generation, request) ==
    LET n == Len(request.samples) IN
      Share(3000, n, generation.min_sample_count)
    + (IF n > 0 THEN Share(2000, Cardinality(Range(request.samples)), n) ELSE 0)
    + Share(1000, Cardinality({SourceOf[s] : s \in Range(request.samples)}), 2)
    + (IF request.enrolled = "none" THEN 900 ELSE 1500)
    + (IF request.traced THEN 1000 ELSE 800)
    + (IF request.prepared THEN 1500 ELSE 1050)

\* _threshold_outcome is PASS or PASS_WITH_WARNING
QualityPasses(generation, request) ==
    Score(generation, request) >= generation.quality_threshold

\* generate: the backend of the configuration is the deterministic one, which is
\* available, or the one that is not.
ModelAvailable(features) == features.enable_experimental_models

================================================================================
