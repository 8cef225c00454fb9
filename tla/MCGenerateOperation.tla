--------------------------- MODULE MCGenerateOperation ---------------------------
(***************************************************************************)
(* Instances of GenerateOperation for TLC: three forms that are accepted,  *)
(* which differ in the sections that one check joins and in what the gates *)
(* ask for, and one that is not.  The first two requests tell the forms    *)
(* apart: each completes under some of them and is refused under the       *)
(* others, the first by one ten-thousandth of its score.                   *)
(***************************************************************************)
EXTENDS GenerateOperation

CONSTANTS s1, s2, m1, m2

Form(min, threshold, runtime, require) ==
    [generation |-> [min_sample_count |-> min, max_sample_count |-> 2,
                     quality_threshold |-> threshold, supported_models |-> {m1},
                     model_preference |-> m1],
     diagnostics |-> [allowlist_only |-> TRUE],
     feature_flags |-> [enable_runtime_attribution |-> runtime,
                        enable_experimental_models |-> TRUE],
     attribution |-> [require_attribution_for_identity_context |-> require]]

MCForms == {Form(2, 8750, TRUE, FALSE), Form(2, 8750, TRUE, TRUE),
            Form(1, 8751, FALSE, FALSE), Form(1, 8751, FALSE, TRUE)}

Request(samples, enrolled, known, model) ==
    [samples |-> samples, enrolled |-> enrolled, traced |-> known, prepared |-> known,
     model |-> model]

MCRequests == {Request(<<s1, s2>>, "none", FALSE, NoPreference),    \* scores 8750
               Request(<<s1>>, "none", TRUE, NoPreference),         \* one sample, scores 8900
               Request(<<s1, s1>>, "well_formed", TRUE, NoPreference),
               Request(<<s1, s2>>, "malformed", TRUE, NoPreference),
               Request(<<s1, s2>>, "well_formed", TRUE, m2)}        \* a model not supported

MCSourceOf == [s \in Samples |-> s]

================================================================================
