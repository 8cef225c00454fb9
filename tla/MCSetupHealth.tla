------------------------------ MODULE MCSetupHealth ------------------------------
(***************************************************************************)
(* Instances of SetupHealth for TLC.                                       *)
(***************************************************************************)
EXTENDS SetupHealth

================================================================================
