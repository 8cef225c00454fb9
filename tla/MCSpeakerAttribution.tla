------------------------- MODULE MCSpeakerAttribution -------------------------
(***************************************************************************)
(* Instances of SpeakerAttribution for TLC.  Persons, conversations and    *)
(* places are model values that nothing orders, and the scopes and         *)
(* bindings a .cfg chooses are closed under permuting them.                *)
(***************************************************************************)
EXTENDS SpeakerAttribution, TLC

CONSTANTS k1, k2

MCRooms == {k1, k2}

\* A conversation is in the first room, whether the request says so or not; requests
\* outside one are made in the second room, or say nothing at all.
OneRoomEach ==
    [conv : Convs, place : Places, room : {k1}]
    \cup [conv : {None}, place : Places, room : {k2}]
    \cup [conv : Convs \cup {None}, place : {None}, room : {None}]

OneNamed == {{p} : p \in Persons}

AnyNamed == SUBSET Persons

Symmetry == Permutations(Persons) \cup Permutations(Convs) \cup Permutations(Places)

================================================================================
