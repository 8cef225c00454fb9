---------------------------- MODULE ConciergeProfile ----------------------------
(***************************************************************************)
(* What the Concierge is told about a voiceprint:                          *)
(* concierge_voiceprofile_metadata_integration.py on top of                *)
(* concierge_discovery_integration.py and the status and capability        *)
(* operations, each of the two integrations with a cache of its own,       *)
(* while the catalogue changes, time passes and the entry is reloaded with *)
(* other options.                                                          *)
(*                                                                         *)
(* Nothing that `resolve` and `discover` await ever suspends, so a request *)
(* is one step.  Time is counted in units; the source's times to live are  *)
(* 180 and 120 seconds and it compares whole seconds.  Its profile cache   *)
(* holds 128 entries, its discovery cache 8.  Versions are reduced to      *)
(* supported or not: a projection is only ever cached for the supported    *)
(* ones, so a profile's cache key is its voiceprint id and the discovery   *)
(* cache holds at most one entry.                                          *)
(***************************************************************************)
EXTENDS VoiceprintCatalogue, SequencesExt

CONSTANTS
    ProfileTtl,         \* _DEFAULT_CACHE_TTL_SECONDS of the profile cache
    DiscoveryTtl,       \* _DEFAULT_CACHE_TTL_SECONDS of the discovery cache
    CacheSize,          \* _DEFAULT_CACHE_MAX_ENTRIES of the profile cache
    Withdrawals         \* the lifecycle moves, besides those to active and superseded

ASSUME TtlAssumption == ProfileTtl \in Nat /\ DiscoveryTtl \in Nat

ASSUME CacheSizeAssumption == CacheSize \in Nat \ {0}

ASSUME WithdrawalsAssumption == Withdrawals \subseteq {"failed", "deleted"}

VARIABLES
    enabled,    \* service.enabled in the configuration of the instance
    health,     \* the set-up's validate_health of the profile integration
    discovered, \* the discovery cache
    profiles,   \* the profile cache, the oldest entry first
    answer,     \* what the last step told the Concierge, if anything
    lastActive, \* history: how long ago the voiceprint was active
    shown       \* history: how far along its life this instance has shown it

settings == <<enabled, loaded, health>>
caches == <<discovered, profiles>>
history == <<lastActive, shown>>
profileVars == <<catalogue, settings, caches, answer, history>>

--------------------------------------------------------------------------------

Voiceprints == Vids \cup {None}

\* The voiceprint asked for, force_refresh, and the version in the request that
\* is not supported, if one is not.
Request ==
    [vid : Voiceprints, forced : BOOLEAN, unsupported : {"none", "discovery", "metadata"}]

ProfileStates == {"active", "superseded", "retired", "enrolled", "unknown"}

Failures == {"operation_not_loaded", "voice_identity_incompatible",
             "voice_profile_unavailable", "enrollment_required",
             "voice_profile_not_found", "operation_internal_error"}

Silence == [vid |-> None, said |-> "nothing"]

\* A profile, or the failure category of an answer without one.
Told(v, said) == [vid |-> v, said |-> said]

Refusal(category) == Told(None, category)

\* The longest age that is told from the ones below it.
TooOld(ttl) == ttl + 1

Older(age, ttl) == IF age > ttl THEN age ELSE age + 1

ProfileTypeOK ==
    /\ catalogue \in Registry
    /\ enabled \in BOOLEAN /\ loaded \in BOOLEAN
    /\ health \in {"healthy", "degraded", "unavailable"}
    /\ discovered \in {None} \cup [capable : BOOLEAN, age : 0 .. TooOld(DiscoveryTtl)]
    /\ profiles \in Seq([vid : Vids, state : ProfileStates, age : 0 .. TooOld(ProfileTtl)])
    /\ Len(profiles) <= CacheSize
    /\ \A i, j \in DOMAIN profiles : profiles[i].vid = profiles[j].vid => i = j
    /\ answer \in [vid : Voiceprints, said : ProfileStates \cup Failures \cup {"nothing"}]
    /\ lastActive \in [Vids -> 0 .. TooOld(ProfileTtl)]
    /\ shown \in [Vids -> 0 .. 3]

ProfileInit ==
    /\ CatalogueInit
    /\ enabled = TRUE
    /\ health = "unavailable"
    /\ discovered = None
    /\ profiles = <<>>
    /\ answer = Silence
    /\ lastActive = [v \in Vids |-> TooOld(ProfileTtl)]
    /\ shown = [v \in Vids |-> 0]

--------------------------------------------------------------------------------
(***************************************************************************)
(* The discovery integration.                                              *)
(***************************************************************************)

\* Mutant: what is supported counts as enabled.
CapableIfSupported(service) == TRUE

\* _metadata_capability_available of a new projection: the operation on status
\* and metadata is implemented, so it is enabled when the service is.
Capable(service) == service

FreshDiscovery == [capable |-> Capable(enabled), age |-> 0]

DiscoveryHit(r) == ~r.forced /\ discovered # None /\ discovered.age <= DiscoveryTtl

\* discover: from the cache, or from the operations and then into the cache.
\* Unsupported versions fail at get_versions and leave the cache alone.
Discovery(r) ==
    IF r.unsupported = "discovery" \/ DiscoveryHit(r) THEN discovered ELSE FreshDiscovery

--------------------------------------------------------------------------------
(***************************************************************************)
(* The status operation and the projection of its metadata.                *)
(***************************************************************************)

\* _state_from_metadata of _public_lifecycle_status
StateOf(rec) ==
    IF rec.state = "active" THEN "active"
    ELSE IF rec.state = "superseded" \/ rec.next # None THEN "superseded"
    ELSE IF rec.state = "deleted" THEN "retired"
    ELSE IF rec.state \in {"pending", "inactive"} THEN "enrolled"
    ELSE "unknown"

\* How far along its life a voiceprint in that state is.
Progress(state) ==
    CASE state = "enrolled" -> 1
      [] state = "active" -> 2
      [] OTHER -> 3

\* profile_ready: readiness is READY
Ready(said) == said = "active"

\* get_metadata as _map_metadata_failure reports it; "none" when it succeeds.  An
\* invalid lineage raises in _revision_count.
MetadataFailure(r) ==
    IF r.unsupported = "metadata" THEN "voice_profile_unavailable"
    ELSE IF ~Present(catalogue, r.vid) THEN "voice_profile_not_found"
    ELSE IF ~ValidLineage(catalogue, catalogue[r.vid].root) THEN "operation_internal_error"
    ELSE "none"

--------------------------------------------------------------------------------
(***************************************************************************)
(* The profile cache.                                                      *)
(***************************************************************************)

CachedUnder(v) == {i \in DOMAIN profiles : profiles[i].vid = v}

\* Mutant: an entry is still served when its time is over.
ProfileHitTooLong(r) ==
    /\ ~r.forced /\ r.unsupported = "none"
    /\ \E i \in CachedUnder(r.vid) : profiles[i].age <= ProfileTtl + 1

\* _InMemoryCacheBackend.get finds the entry and does not find it too old.
ProfileHit(r) ==
    /\ ~r.forced /\ r.unsupported = "none"
    /\ \E i \in CachedUnder(r.vid) : profiles[i].age <= ProfileTtl

\* Where the voiceprint's entry is: a dict has one under a key.
IndexOf(v) == CHOOSE i \in CachedUnder(v) : TRUE

Without(v) == IF CachedUnder(v) = {} THEN profiles ELSE RemoveAt(profiles, IndexOf(v))

\* get, when it misses: an entry that is too old goes.
AfterMiss(r) == IF ~r.forced /\ r.unsupported = "none" THEN Without(r.vid) ELSE profiles
\* Mutant: a hit makes the entry young again.
TouchRefreshed(v) == Append(Without(v), [profiles[IndexOf(v)] EXCEPT !.age = 0])

\* move_to_end: a hit does not make the entry younger.
Touch(v) == Append(Without(v), profiles[IndexOf(v)])

\* Mutant: nothing is evicted.
StoreAll(v, state) == Append(Without(v), [vid |-> v, state |-> state, age |-> 0])

\* set, and the eviction of the oldest entry.
Store(v, state) ==
    LET filled == Append(Without(v), [vid |-> v, state |-> state, age |-> 0]) IN
    IF Len(filled) > CacheSize THEN Tail(filled) ELSE filled

--------------------------------------------------------------------------------
(***************************************************************************)
(* resolve, one action for each way it ends.                               *)
(***************************************************************************)

Refuse(category) ==
    /\ answer' = Refusal(category)
    /\ UNCHANGED <<catalogue, settings, history>>

Show(v, state) ==
    /\ answer' = Told(v, state)
    /\ shown' = [shown EXCEPT ![v] = Progress(state)]
    /\ UNCHANGED <<catalogue, settings, lastActive>>

\* A consumer that kept the integration of an unloaded instance.
ResolveNotLoaded(r) ==
    /\ ~loaded
    /\ Refuse("operation_not_loaded")
    /\ UNCHANGED caches

ResolveIncompatible(r) ==
    /\ loaded
    /\ r.unsupported = "discovery"
    /\ Refuse("voice_identity_incompatible")
    /\ UNCHANGED caches

\* Past the discovery: what it cached stays cached, however resolve goes on.
Discover(r) ==
    /\ loaded
    /\ r.unsupported # "discovery"
    /\ discovered' = Discovery(r)

\* The cache is asked before the capability.
ResolveCached(r) ==
    /\ Discover(r)
    /\ ProfileHit(r)
    /\ Show(r.vid, profiles[IndexOf(r.vid)].state)
    /\ profiles' = Touch(r.vid)

ResolveUnavailable(r) ==
    /\ Discover(r)
    /\ ~ProfileHit(r)
    /\ ~Discovery(r).capable
    /\ Refuse("voice_profile_unavailable")
    /\ profiles' = AfterMiss(r)

ResolveNotEnrolled(r) ==
    /\ Discover(r)
    /\ Discovery(r).capable
    /\ r.vid = None
    /\ Refuse("enrollment_required")
    /\ UNCHANGED profiles

\* A failure is not cached, and does not take the cached profile away.
ResolveFails(r) ==
    /\ Discover(r)
    /\ ~ProfileHit(r)
    /\ Discovery(r).capable
    /\ r.vid # None
    /\ MetadataFailure(r) # "none"
    /\ Refuse(MetadataFailure(r))
    /\ profiles' = AfterMiss(r)
\* Mutant: a forced refresh is not stored.
ResolveUnstored(r) ==
    /\ Discover(r)
    /\ ~ProfileHit(r)
    /\ Discovery(r).capable
    /\ r.vid # None
    /\ MetadataFailure(r) = "none"
    /\ Show(r.vid, StateOf(catalogue[r.vid]))
    /\ profiles' = IF r.forced THEN profiles ELSE Store(r.vid, StateOf(catalogue[r.vid]))

ResolveFresh(r) ==
    /\ Discover(r)
    /\ ~ProfileHit(r)
    /\ Discovery(r).capable
    /\ r.vid # None
    /\ MetadataFailure(r) = "none"
    /\ Show(r.vid, StateOf(catalogue[r.vid]))
    /\ profiles' = Store(r.vid, StateOf(catalogue[r.vid]))

Resolve(r) ==
    \/ ResolveNotLoaded(r)
    \/ ResolveIncompatible(r)
    \/ ResolveCached(r)
    \/ ResolveUnavailable(r)
    \/ ResolveNotEnrolled(r)
    \/ ResolveFails(r)
    \/ ResolveFresh(r)

--------------------------------------------------------------------------------
(***************************************************************************)
(* The surroundings: time, the catalogue and the config entry.             *)
(***************************************************************************)

Quietly == answer' = Silence

\* A minute passes.  Ages stop growing when they are too old.
Tick ==
    /\ discovered' = IF discovered = None THEN None
                     ELSE [discovered EXCEPT !.age = Older(@, DiscoveryTtl)]
    /\ profiles' = [i \in DOMAIN profiles |->
                        [profiles[i] EXCEPT !.age = Older(@, ProfileTtl)]]
    /\ lastActive' = [v \in Vids |->
                        IF Active(catalogue, v) THEN 0 ELSE Older(lastActive[v], ProfileTtl)]
    /\ Quietly
    /\ UNCHANGED <<catalogue, settings, shown>>

\* When the voiceprints were active last, after a change of the catalogue.
Aged ==
    [v \in Vids |-> IF Active(catalogue, v) \/ Active(catalogue', v) THEN 0 ELSE lastActive[v]]

\* An operation writes a record; nothing tells the caches.  Without an instance it
\* is an operation left behind by the last one, and what it writes is loaded next.
CatalogueChanges ==
    /\ Write(Withdrawals)
    /\ lastActive' = Aged
    /\ Quietly
    /\ UNCHANGED <<enabled, health, caches, shown>>

\* async_setup_entry: the registry is read from its Store, and the integrations are
\* new, on a configuration that the options flow may have changed.  Their
\* validate_health discovers, with a forced refresh.
Load(service) ==
    /\ SetUp
    /\ enabled' = service
    /\ discovered' = [capable |-> Capable(service), age |-> 0]
    /\ health' = IF Capable(service) THEN "healthy" ELSE "degraded"
    /\ profiles' = <<>>
    /\ Quietly
    /\ UNCHANGED history

\* async_unload_entry clears the registry and both integrations.  What the registry
\* held and no write has brought to the disk is lost, be it because a write failed
\* or because an older snapshot was written over it; and so it is in a crash.
Unload ==
    /\ Stop(Withdrawals)
    /\ health' = "unavailable"
    /\ discovered' = None
    /\ profiles' = <<>>
    /\ lastActive' = Aged
    /\ shown' = [v \in Vids |-> 0]
    /\ Quietly
    /\ UNCHANGED enabled

ProfileNext ==
    \/ \E r \in Request : Resolve(r)
    \/ Tick
    \/ CatalogueChanges
    \/ \E service \in BOOLEAN : Load(service)
    \/ Unload

ProfileSpec == ProfileInit /\ [][ProfileNext]_profileVars

\* The Concierge's ordinary question.
Ask(v) == Resolve([vid |-> v, forced |-> FALSE, unsupported |-> "none"])

\* Time passes, and the Concierge keeps asking.
FairProfileSpec ==
    ProfileSpec /\ WF_profileVars(Tick) /\ \A v \in Vids : WF_profileVars(Ask(v))

--------------------------------------------------------------------------------

\* A voiceprint that is told to be READY was the active one within the cache's
\* time to live, whatever was deleted, superseded or reloaded since: the hits on
\* an entry do not prolong it (_InMemoryCacheBackend.get of the metadata
\* integration, and the cache it reads before the registry).
ReadyWasActive ==
    Ready(answer.said) => lastActive[answer.vid] <= ProfileTtl

\* As long as an instance is set up its answers about a voiceprint never go back
\* along its life: after a forced refresh has told of a supersession or a deletion
\* no cached profile says otherwise (resolve, its cache and the request's
\* force_refresh).  The next instance may load an older registry, and then tells
\* what that says.
AnswersNeverGoBack ==
    [][(loaded /\ loaded') => \A v \in Vids : shown'[v] >= shown[v]]_profileVars

\* An instance whose configuration switches the service off tells of no READY
\* voiceprint, although resolve asks its cache before it asks for the capability,
\* and whenever it does tell of one its set-up had reported the integration
\* HEALTHY (resolve, validate_health and _metadata_capability_available).
SwitchedOffIsSilent ==
    Ready(answer.said) => enabled /\ health = "healthy"

\* A voiceprint that stays active is told to be READY at last by a service that
\* stays up and switched on, although the profile of its time before, and
\* the Concierge's own questions, are in the cache (resolve, the cache's get).
ActiveBecomesReady ==
    \A v \in Vids :
        LET Servable == /\ loaded /\ enabled
                        /\ Active(catalogue, v)
                        /\ ValidLineage(catalogue, catalogue[v].root)
        IN  Servable ~> (answer = Told(v, "active") \/ ~Servable)

================================================================================
