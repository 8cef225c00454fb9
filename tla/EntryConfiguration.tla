--------------------------- MODULE EntryConfiguration ---------------------------
(***************************************************************************)
(* The configuration entry (config_flow.py) and the configuration that an  *)
(* instance of the integration runs with (configuration.py).               *)
(*                                                                         *)
(* Home Assistant keeps two parts of an entry, data and options.  The user *)
(* and reconfigure forms write the first, the options form the second, and *)
(* each validates what it writes on top of data.  A set-up validates again,*)
(* what it gets by merging the options over the data.                      *)
(*                                                                         *)
(* A section of the entry is a record; only the keys that some check, or   *)
(* the generation workflow, compares with another one are kept.  Scores    *)
(* are in ten-thousandths.                                                 *)
(***************************************************************************)
EXTENDS Naturals, FiniteSets

CONSTANTS
    Forms,          \* what is entered into the forms, already normalized
    NoConfig        \* no entry, no configuration loaded

VARIABLES
    data,           \* entry.data
    options,        \* entry.options
    config          \* _config of the instance's configuration manager

entryVars == <<data, options, config>>

Sections == {"generation", "diagnostics", "feature_flags", "attribution"}

\* Every form has every section with all its keys: _normalize_form_data fills in
\* what was not entered.
FormAssumption ==
    \A f, g \in Forms :
        /\ f = [s \in Sections |-> f[s]]
        /\ \A s \in Sections : f[s] = [k \in DOMAIN g[s] |-> f[s][k]]

ASSUME EntryAssumption == FormAssumption /\ NoConfig \notin Forms

--------------------------------------------------------------------------------

\* _build_generation: the ranges, and the one check that compares two keys.  That
\* the preferred model is a supported one is not checked.
GenerationValid(g) ==
    /\ g.min_sample_count \in 1 .. 64
    /\ g.max_sample_count \in g.min_sample_count .. 128
    /\ g.quality_threshold \in Nat /\ g.quality_threshold <= 10000
    /\ g.supported_models # {}

\* validate: every section, and the check across two of them.
Valid(raw) ==
    /\ GenerationValid(raw.generation)
    /\ raw.diagnostics.allowlist_only
    /\ raw.attribution.require_attribution_for_identity_context
            => raw.feature_flags.enable_runtime_attribution

\* dict(base) updated with override.
Overlay(base, override) ==
    [k \in DOMAIN base \cup DOMAIN override |->
        IF k \in DOMAIN override THEN override[k] ELSE base[k]]

\* _deep_merge_dicts: key by key inside a section that both have.
DeepMerge(base, override) ==
    [s \in DOMAIN base \cup DOMAIN override |->
        IF s \in DOMAIN base \cap DOMAIN override THEN Overlay(base[s], override[s])
        ELSE Overlay(base, override)[s]]
\* Mutant: the form shows the data only.
DefaultsOfData(base, override) == base

\* _form_defaults: what a form shows of an entry; a section of the options hides
\* the one of the data.
FormDefaults(base, override) == Overlay(base, override)

\* What the next set-up loads.
Merged == DeepMerge(data, options)

--------------------------------------------------------------------------------

\* async_step_user: the entry exists from the first form that is accepted.
EntryInit ==
    /\ data \in {f \in Forms : Valid(f)}
    /\ options = <<>>
    /\ config = NoConfig

\* async_setup_entry: load_from_entry.
LoadConfig ==
    /\ config = NoConfig
    /\ Valid(Merged)
    /\ config' = Merged
    /\ UNCHANGED <<data, options>>

\* async_unload_entry: the manager is cleared.
ClearConfig ==
    /\ config # NoConfig
    /\ config' = NoConfig
    /\ UNCHANGED <<data, options>>

\* async_step_reconfigure.  The entry is unloaded to be set up again; what runs
\* in between does not read it.
Reconfigure(form) ==
    /\ Valid(Overlay(data, form))
    /\ data' = Overlay(data, form)
    /\ config' = NoConfig
    /\ UNCHANGED options
\* Mutant: only the sections that differ from the data are kept.
KeepChangedSections(form) ==
    /\ Valid(Overlay(data, form))
    /\ form # options
    /\ options' = [s \in {t \in Sections : form[t] # data[t]} |-> form[s]]
    /\ config' = NoConfig
    /\ UNCHANGED data

\* async_step_init of the options flow.  The update listener reloads the entry
\* when the options have changed.
ChangeOptions(form) ==
    /\ Valid(Overlay(data, form))
    /\ form # options
    /\ options' = form
    /\ config' = NoConfig
    /\ UNCHANGED data

EntryNext ==
    \/ LoadConfig
    \/ ClearConfig
    \/ \E form \in Forms : Reconfigure(form) \/ ChangeOptions(form)

EntrySpec == EntryInit /\ [][EntryNext]_entryVars

--------------------------------------------------------------------------------

EntryTypeOK ==
    /\ Valid(data)
    /\ options = <<>> \/ DOMAIN options \subseteq Sections
    /\ config = NoConfig \/ Valid(config)

\* A set-up never refuses what the forms accepted, although a form is validated
\* over the data and the set-up validates the options over the data: no order of
\* forms joins sections that exclude each other (config_flow.py _is_payload_valid
\* and async_step_init, against configuration.py load_from_entry).
AcceptedFormsLoad == Valid(Merged)

\* A form shows the configuration that runs: the two ways to merge the entry, by
\* section for the forms and by key for the set-up, agree (config_flow.py
\* _form_defaults, configuration.py _deep_merge_dicts).
FormsShowWhatRuns == config # NoConfig => FormDefaults(data, options) = config

\* A form that the reconfigure step accepts is what the next set-up loads
\* (config_flow.py async_step_reconfigure).
ReconfigureTakesEffect ==
    [][\A form \in Forms : Reconfigure(form) => Merged' = form]_entryVars

================================================================================
