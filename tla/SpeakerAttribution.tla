--------------------------- MODULE SpeakerAttribution ---------------------------
(***************************************************************************)
(* The runtime attribution context: the short-lived records that tell text *)
(* consumers who spoke last (attribution_context_store.py), what           *)
(* attribute_speaker and get_identity_context write to it (services.py),   *)
(* and the verdicts of the attribution foundation (attribution_service.py).*)
(*                                                                         *)
(* Nothing the two handlers await suspends: the diagnostics and health     *)
(* providers are coroutines without an await of their own.  So a handler   *)
(* is one step.  Every window in the code is a multiple of 5 seconds, the  *)
(* unit of time here, and the code only compares times with each other and *)
(* with the clock, so a record carries its age and the time it has left.   *)
(* A place is the pair of a device and a satellite, which the store only   *)
(* ever compares together.                                                 *)
(***************************************************************************)
EXTENDS Naturals, FiniteSets

CONSTANTS
    Persons,        \* subjects that have a voiceprint, one each
    Convs,          \* conversation ids
    Places,         \* device and satellite pairs
    Rooms,          \* room ids
    Bindings,       \* the bindings callers give; all, or those of one room per conversation
    Scopes,         \* the candidate scopes callers give; the empty one means everybody
    AcceptedBands,  \* confidence bands at or above the configured threshold
    None,
    MaxIssued       \* bound on the number of attributions

ASSUME NoneIsNothing == None \notin Persons \cup Convs \cup Places \cup Rooms

ASSUME BandsAssumption == AcceptedBands \subseteq {"low", "medium", "high"}

ASSUME MaxIssuedAssumption == MaxIssued \in Nat

VARIABLES
    active,     \* persons with an ACTIVE voiceprint in the registry
    context,    \* InMemoryAttributionContextStore._records
    issued,     \* how many records were issued; a record's id is its place in that order
    heard,      \* history: who was last identified in a conversation
    retired     \* history: how long a person has had no active voiceprint, as far as it matters

vars == <<active, context, issued, heard, retired>>

Binding ==
    [conv : Convs \cup {None}, place : Places \cup {None}, room : Rooms \cup {None}]

ASSUME BindingsAssumption == Bindings \subseteq Binding

\* Mutant: an unknown speaker is remembered for a while.
TtlOfUnknown(verdict) ==
    CASE verdict.state = "unavailable" -> 0
      [] verdict.state \in {"unknown", "ambiguous"} \/ verdict.band = "low" -> 1
      [] verdict.band = "medium" -> 3
      [] OTHER -> 6

\* compute_default_attribution_ttl_seconds
Ttl(verdict) ==
    CASE verdict.state \in {"unknown", "unavailable"} -> 0
      [] verdict.state = "ambiguous" \/ verdict.band = "low" -> 1
      [] verdict.band = "medium" -> 3
      [] OTHER -> 6

LongestTtl == 6

FallbackWindow == 2

Record ==
    [id     : 1 .. MaxIssued,
     age    : 0 .. FallbackWindow + 1,      \* now - issued_at_utc, as far as it matters
     left   : 0 .. LongestTtl,              \* expires_at_utc - now, and 0 once expired
     bound  : Binding,
     state  : {"known", "ambiguous"},       \* the others expire as they are stored
     person : Persons \cup {None}]

\* resolve_current_speaker returns a record or None, never both.
ASSUME NoneIsNoRecord == None \notin Record

TypeOK ==
    /\ active \subseteq Persons
    /\ context \subseteq Record
    /\ issued \in 0 .. MaxIssued
    /\ heard \in [Convs -> Persons \cup {None}]
    /\ retired \in [Persons -> 0 .. LongestTtl]
    /\ \A r \in context : r.state = "known" <=> r.person # None

Init ==
    /\ active \in SUBSET Persons
    /\ context = {}
    /\ issued = 0
    /\ heard = [c \in Convs |-> None]
    /\ retired = [p \in Persons |-> 0]

--------------------------------------------------------------------------------
(***************************************************************************)
(* The store.                                                              *)
(***************************************************************************)

\* sweep_expired
Unexpired(records) == {r \in records : r.left > 0}

RoomFits(r, room) == room = None \/ r.bound.room \in {None, room}

Eligible(records) ==
    {r \in Unexpired(records) : r.state \notin {"unknown", "unavailable"}}

InConversation(records, b) ==
    {r \in Eligible(records) :
        b.conv # None /\ r.bound.conv = b.conv /\ RoomFits(r, b.room)}

\* The fallback.  A request without device and satellite matches the records
\* without them.
AtPlace(records, b) ==
    {r \in Eligible(records) :
        /\ r.bound.place = b.place
        /\ RoomFits(r, b.room)
        /\ r.age <= FallbackWindow}

\* _latest.  Records are stored as they are issued, so the id decides.
Latest(records) == CHOOSE r \in records : \A q \in records : q.id <= r.id

\* resolve_current_speaker
Found(records, b) ==
    IF InConversation(records, b) # {} THEN Latest(InConversation(records, b))
    ELSE IF AtPlace(records, b) # {} THEN Latest(AtPlace(records, b))
    ELSE None
\* Mutant: the place is looked at before the conversation.
InvalidatedAtPlace(records, b) ==
    IF b.place # None THEN {r \in records : r.bound.place # b.place}
    ELSE IF b.conv # None THEN {r \in records : r.bound.conv # b.conv}
    ELSE records

\* invalidate_by_conversation, or invalidate_by_device_satellite for a request
\* without a conversation.
Invalidated(records, b) ==
    IF b.conv # None THEN {r \in records : r.bound.conv # b.conv}
    ELSE IF b.place # None THEN {r \in records : r.bound.place # b.place}
    ELSE records

--------------------------------------------------------------------------------
(***************************************************************************)
(* The verdict of attribute().                                             *)
(***************************************************************************)
\* Mutant: a named candidate need not be active.
CandidatesNamed(scope) == IF scope = {} THEN active ELSE scope

\* _active_candidates
Candidates(scope) == IF scope = {} THEN active ELSE active \cap scope

Unavailable == [state |-> "unavailable", person |-> None, band |-> "unavailable"]

Unknown == [state |-> "unknown", person |-> None, band |-> "unknown"]

Ambiguous == [state |-> "ambiguous", person |-> None, band |-> "ambiguous"]

Known(p, band) == [state |-> "known", person |-> p, band |-> band]

\* The service may be unavailable or the handler may fail; the audio decides
\* how confident a match is, and too little is no match.
Verdicts(scope, audio) ==
    {Unavailable} \cup
        IF ~audio \/ Candidates(scope) = {} THEN {Unknown}
        ELSE IF Cardinality(Candidates(scope)) > 1 THEN {Ambiguous}
        ELSE {Unknown} \cup {Known(p, band) : p \in Candidates(scope), band \in AcceptedBands}

--------------------------------------------------------------------------------
(***************************************************************************)
(* The handlers.                                                           *)
(***************************************************************************)

\* Whom the record contradicts: the speaker resolved so far is another one.
Contradicts(verdict, earlier) ==
    /\ verdict.person # None
    /\ earlier # None
    /\ earlier.person # None
    /\ earlier.person # verdict.person

\* build_runtime_attribution_record
Issue(b, verdict) ==
    [id |-> issued + 1, age |-> 0, left |-> Ttl(verdict), bound |-> b,
     state |-> verdict.state, person |-> verdict.person]

\* _persist_runtime_record
Persist(b, verdict) ==
    LET swept == Unexpired(context)
        kept  == IF \/ verdict.state \in {"unknown", "unavailable"}
                    \/ Contradicts(verdict, Found(swept, b))
                 THEN Invalidated(swept, b)
                 ELSE swept
    IN  /\ issued < MaxIssued
        /\ issued' = issued + 1
        /\ context' = Unexpired(kept \cup {Issue(b, verdict)})
        /\ heard' = IF b.conv = None \/ verdict.state = "ambiguous" THEN heard
                    ELSE [heard EXCEPT ![b.conv] = verdict.person]
        /\ UNCHANGED <<active, retired>>

AttributeSpeaker(b, scope, audio) ==
    \E verdict \in Verdicts(scope, audio) : Persist(b, verdict)

\* get_identity_context answers from the store, or says that it knows nothing ...
AnswerContext(b, audio) ==
    /\ Found(context, b) # None \/ ~audio
    /\ context' = Unexpired(context)
    /\ UNCHANGED <<active, issued, heard, retired>>

\* ... or attributes the audio it was given.
AttributeContext(b, scope) ==
    /\ Found(context, b) = None
    /\ \E verdict \in Verdicts(scope, TRUE) : Persist(b, verdict)

\* A new instance has an empty store.
Reload ==
    /\ context # {}
    /\ context' = {}
    /\ heard' = [c \in Convs |-> None]
    /\ UNCHANGED <<active, issued, retired>>

\* The registry gains or loses an active voiceprint.
Activate(p) ==
    /\ p \notin active
    /\ active' = active \cup {p}
    /\ retired' = [retired EXCEPT ![p] = 0]
    /\ UNCHANGED <<context, issued, heard>>

Retire(p) ==
    /\ p \in active
    /\ active' = active \ {p}
    /\ UNCHANGED <<context, issued, heard, retired>>

Capped(n, most) == IF n > most THEN most ELSE n

Evidence(p, records) == {r \in Unexpired(records) : r.person = p}

\* 5 seconds pass.  A retired person of whom no evidence is left is done with:
\* waiting longer changes nothing.
Tick ==
    /\ context' = {[r EXCEPT !.age = Capped(r.age + 1, FallbackWindow + 1),
                            !.left = IF r.left = 0 THEN 0 ELSE r.left - 1] : r \in context}
    /\ retired' = [p \in Persons |->
                      IF p \in active THEN 0
                      ELSE IF Evidence(p, context') = {} THEN LongestTtl
                      ELSE Capped(retired[p] + 1, LongestTtl)]
    /\ UNCHANGED <<active, issued, heard>>

Next ==
    \/ \E b \in Bindings, scope \in Scopes, audio \in BOOLEAN : AttributeSpeaker(b, scope, audio)
    \/ \E b \in Bindings, audio \in BOOLEAN : AnswerContext(b, audio)
    \/ \E b \in Bindings, scope \in Scopes : AttributeContext(b, scope)
    \/ \E p \in Persons : Activate(p) \/ Retire(p)
    \/ Reload
    \/ Tick

Spec == Init /\ [][Next]_vars

--------------------------------------------------------------------------------

\* A speaker hand-off is final, for callers that name one candidate and give one
\* room per conversation, if any: once a conversation's speaker was identified as
\* somebody else, or could not be identified, the earlier speaker's evidence is
\* never again what the conversation resolves to, whatever room is asked for, also
\* when the later evidence expires first (services.py _persist_runtime_record).
HandoffIsFinal ==
    \A c \in Convs, b \in Binding :
        LET r == Found(context, [b EXCEPT !.conv = c])
        IN  (r # None /\ r.bound.conv = c /\ r.person # None) => r.person = heard[c]

\* A person whose voiceprint was retired stops being resolved as the evidence
\* expires, within the longest time to live (30 s), and is not resolved again:
\* no verdict is reached from a voiceprint that is not active, and no record is
\* prolonged (attribution_service.py _active_candidates,
\* attribution_context_store.py sweep_expired).
RetiredSpeakerFades ==
    \A b \in Binding :
        LET r == Found(context, b)
        IN  (r # None /\ r.person # None /\ r.person \notin active)
                => retired[r.person] < LongestTtl

================================================================================
