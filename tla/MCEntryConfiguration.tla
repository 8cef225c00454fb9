-------------------------- MODULE MCEntryConfiguration --------------------------
(***************************************************************************)
(* An instance of EntryConfiguration for TLC: two valid forms.             *)
(***************************************************************************)
EXTENDS EntryConfiguration

Form(min) ==
    [generation |-> [min_sample_count |-> min, max_sample_count |-> 12,
                     quality_threshold |-> 7500, supported_models |-> {"ecapa_v1"},
                     model_preference |-> "ecapa_v1"],
     diagnostics |-> [allowlist_only |-> TRUE],
     feature_flags |-> [enable_runtime_attribution |-> FALSE,
                        enable_experimental_models |-> FALSE],
     attribution |-> [require_attribution_for_identity_context |-> FALSE]]

TwoForms == {Form(6), Form(8)}

================================================================================
