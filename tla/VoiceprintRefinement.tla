-------------------------- MODULE VoiceprintRefinement --------------------------
(***************************************************************************)
(* The voiceprint operations implement the catalogue.  Before the          *)
(* integration is set up the catalogue is what the Store holds.            *)
(***************************************************************************)
EXTENDS VoiceprintInvariant

Catalogue ==
    INSTANCE VoiceprintCatalogue WITH catalogue <- IF loaded THEN records ELSE disk

\* To a reader of list_records the concurrent, cancelled and interrupted
\* operations are a catalogue that changes one record at a time along the
\* lifecycle and never has two active records in a lineage.  As long as the
\* integration is up no record goes back and none is lost; only a crash can take
\* changes back, and then every record is as it was or as it was before, never
\* another (voiceprint_registry.py register_record and update_record,
\* voiceprint_lifecycle.py).
ImplementsCatalogue == Catalogue!CatalogueSpec

================================================================================
