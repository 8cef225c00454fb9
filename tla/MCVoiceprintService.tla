-------------------------- MODULE MCVoiceprintService --------------------------
(***************************************************************************)
(* Instances of VoiceprintService for TLC.  The .cfg files choose the      *)
(* tasks, the disturbances and what is checked; ids, subjects and tasks    *)
(* are model values that nothing orders, so permuting them changes no      *)
(* safety property.                                                        *)
(***************************************************************************)
EXTENDS VoiceprintRefinement, TLC

Symmetry == Permutations(Vids) \cup Permutations(Subjects) \cup Permutations(Tasks)

================================================================================
