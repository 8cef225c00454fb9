--------------------------- MODULE MCConciergeProfile ---------------------------
(***************************************************************************)
(* Instances of ConciergeProfile for TLC.  A profile is served for one     *)
(* unit of time after the one it was stored in, a discovery is not, and    *)
(* the cache holds one profile: entries are fresh, old enough to matter    *)
(* and too old, and the second voiceprint evicts the first.                *)
(***************************************************************************)
EXTENDS ConciergeProfile

================================================================================
