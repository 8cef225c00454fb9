--------------------------- MODULE AttributionProofs ---------------------------
(***************************************************************************)
(* What the attribution context never answers, for every set of persons,   *)
(* conversations and places.                                               *)
(***************************************************************************)
EXTENDS SpeakerAttribution, FiniteSetTheorems, WellFoundedInduction, TLAPS

(***************************************************************************)
(* The latest record.                                                      *)
(***************************************************************************)

\* The largest of bounded numbers.
LEMMA LargestOf ==
    ASSUME NEW n \in Nat, NEW I, I \subseteq 1 .. n, I # {}
    PROVE  \E m \in I : \A k \in I : k <= m
<1> DEFINE T == {n - k : k \in I}
           R == OpToRel(<, Nat)
<1>1. T \subseteq Nat
  BY SMT
<1>2. PICK i \in I : TRUE
  OBVIOUS
<1>3. n - i \in T
  BY <1>2
<1>4. IsWellFoundedOn(R, Nat)
  BY NatLessThanWellFounded
<1>5. \E x \in T : \A y \in T : ~ (<<y, x>> \in R)
  <2> HIDE DEF T, R
  <2> QED BY <1>1, <1>3, <1>4, WFMin
<1>6. PICK x \in T : \A y \in T : ~ (y < x)
  BY <1>1, <1>5 DEF OpToRel
<1>7. PICK m \in I : x = n - m
  OBVIOUS
<1>8. ASSUME NEW k \in I PROVE k <= m
  <2>1. n - k \in T
    OBVIOUS
  <2>2. ~ (n - k < n - m)
    BY <1>6, <1>7, <2>1
  <2>3. k \in Nat /\ m \in Nat
    OBVIOUS
  <2> HIDE DEF T
  <2> QED BY <2>2, <2>3
<1> QED BY <1>8

\* _latest returns one of the records it is given.
LEMMA LatestIsOne ==
    ASSUME NEW records, records \subseteq Record, records # {}
    PROVE  Latest(records) \in records
<1> DEFINE ids == {r.id : r \in records}
<1>1. ids \subseteq 1 .. MaxIssued /\ ids # {}
  BY DEF Record
<1>2. PICK m \in ids : \A k \in ids : k <= m
  BY <1>1, LargestOf, MaxIssuedAssumption
<1>3. \E r \in records : \A q \in records : q.id <= r.id
  BY <1>2
<1> QED BY <1>3 DEF Latest

\* What a request resolves to is an unexpired record: of its conversation, when that
\* has one.
LEMMA FoundIsStored ==
    ASSUME NEW records, records \subseteq Record, NEW b, Found(records, b) # None
    PROVE  /\ Found(records, b) \in Unexpired(records)
           /\ InConversation(records, b) # {} => Found(records, b) \in InConversation(records, b)
<1>1. /\ InConversation(records, b) \subseteq Unexpired(records)
      /\ AtPlace(records, b) \subseteq Unexpired(records)
      /\ Unexpired(records) \subseteq Record
  BY DEF InConversation, AtPlace, Eligible, Unexpired
<1> QED BY <1>1, LatestIsOne DEF Found

(***************************************************************************)
(* The invariants.                                                         *)
(***************************************************************************)

\* The evidence of somebody whose voiceprint was retired runs out in time.
EvidenceRunsOut ==
    /\ \A p \in active : retired[p] = 0
    /\ \A r \in Unexpired(context) :
        (r.person # None /\ r.person \notin active)
            => retired[r.person] + r.left <= LongestTtl

\* When every caller names its candidate, nobody is ambiguous, and when no two of
\* them put a conversation into different rooms, what was heard of it is found ...
OneCandidate ==
    /\ \A scope \in Scopes : \E p \in Persons : scope = {p}
    /\ \A a, b \in Bindings :
        a.conv = b.conv /\ a.conv # None => a.room = None \/ b.room \in {None, a.room}

\* ... so all that is remembered of a conversation is who was heard last.
OnlyTheLastSpeaker ==
    \A r \in Unexpired(context) :
        /\ r.state = "known"
        /\ r.bound \in Bindings
        /\ r.bound.conv # None => r.person = heard[r.bound.conv]

(***************************************************************************)
(* The types.                                                              *)
(***************************************************************************)

\* What a verdict can be.
VerdictOK(verdict) ==
    \/ verdict \in {Unavailable, Unknown, Ambiguous}
    \/ \E p \in active, band \in AcceptedBands : verdict = Known(p, band)

LEMMA VerdictsAreOK ==
    ASSUME NEW scope, NEW audio, NEW verdict \in Verdicts(scope, audio)
    PROVE  VerdictOK(verdict)
BY DEF Verdicts, VerdictOK, Candidates

\* The record of a verdict is one, or has no time to live.
LEMMA IssuedType ==
    ASSUME TypeOK, issued < MaxIssued, NEW b \in Binding, NEW verdict, VerdictOK(verdict),
           verdict \notin {Unavailable, Unknown}
    PROVE  /\ Issue(b, verdict) \in Record
           /\ Issue(b, verdict).person = verdict.person
           /\ Issue(b, verdict).state = "known" <=> verdict.person # None
<1>1. issued + 1 \in 1 .. MaxIssued
  BY MaxIssuedAssumption DEF TypeOK
<1>2. CASE verdict = Ambiguous
  <2>1. Ttl(verdict) = 1
    BY <1>2 DEF Ttl, Ambiguous
  <2> QED BY <1>1, <1>2, <2>1 DEF Issue, Ambiguous, Record, LongestTtl, FallbackWindow
<1>3. ASSUME NEW p \in active, NEW band \in AcceptedBands, verdict = Known(p, band)
      PROVE  /\ Issue(b, verdict) \in Record
             /\ Issue(b, verdict).person = verdict.person
             /\ Issue(b, verdict).state = "known" <=> verdict.person # None
  <2>1. Ttl(verdict) \in {1, 3, 6}
    BY <1>3 DEF Ttl, Known
  <2>2. p \in Persons /\ p # None
    BY NoneIsNothing DEF TypeOK
  <2> QED BY <1>1, <1>3, <2>1, <2>2 DEF Issue, Known, Record, LongestTtl, FallbackWindow
<1> QED BY <1>2, <1>3 DEF VerdictOK

\* What Persist leaves in the store: some of what was there, and the record if it is
\* one.
LEMMA PersistStores ==
    ASSUME TypeOK, NEW b \in Binding, NEW verdict, VerdictOK(verdict), Persist(b, verdict)
    PROVE  \A r \in context' :
               \/ r \in Unexpired(context)
               \/ /\ r = Issue(b, verdict)
                  /\ verdict \notin {Unavailable, Unknown}
                  /\ r \in Record
                  /\ r.left > 0
                  /\ r.person = verdict.person
                  /\ r.state = "known" <=> r.person # None
<1> TAKE r \in context'
<1>1. /\ r \in Unexpired(context) \/ r = Issue(b, verdict)
      /\ r.left > 0
      /\ issued < MaxIssued
  BY DEF Persist, Unexpired, Invalidated
<1>2. CASE verdict \in {Unavailable, Unknown}
  <2>1. Issue(b, verdict).left = 0
    BY <1>2 DEF Issue, Ttl, Unavailable, Unknown
  <2> QED BY <1>1, <2>1
<1>3. CASE verdict \notin {Unavailable, Unknown}
  BY <1>1, <1>3, IssuedType
<1> QED BY <1>2, <1>3

LEMMA PersistType ==
    ASSUME TypeOK, NEW b \in Binding, NEW verdict, VerdictOK(verdict), Persist(b, verdict)
    PROVE  TypeOK'
<1>1. context' \subseteq Record /\ \A r \in context' : r.state = "known" <=> r.person # None
  BY PersistStores DEF TypeOK, Unexpired
<1>2. issued' \in 0 .. MaxIssued
  BY MaxIssuedAssumption DEF Persist, TypeOK
<1>3. verdict.person \in Persons \cup {None}
  BY DEF VerdictOK, Unavailable, Unknown, Ambiguous, Known, TypeOK
<1>4. heard' \in [Convs -> Persons \cup {None}]
  BY <1>3 DEF Persist, TypeOK, Binding
<1> QED BY <1>1, <1>2, <1>4 DEF Persist, TypeOK

\* Time passes for a record.
Older(r) == [r EXCEPT !.age = Capped(r.age + 1, FallbackWindow + 1),
                      !.left = IF r.left = 0 THEN 0 ELSE r.left - 1]

LEMMA OlderType ==
    ASSUME NEW r \in Record
    PROVE  /\ Older(r) \in Record
           /\ Older(r).left = IF r.left = 0 THEN 0 ELSE r.left - 1
           /\ Older(r).person = r.person
           /\ Older(r).state = r.state
           /\ Older(r).bound = r.bound
<1> DEFINE age == Capped(r.age + 1, FallbackWindow + 1)
           left == IF r.left = 0 THEN 0 ELSE r.left - 1
<1>1. age \in 0 .. FallbackWindow + 1
  BY DEF Record, Capped, FallbackWindow
<1>2. left \in 0 .. LongestTtl
  BY DEF Record, LongestTtl
<1>3. r = [id |-> r.id, age |-> r.age, left |-> r.left, bound |-> r.bound,
           state |-> r.state, person |-> r.person]
  BY DEF Record
<1>4. Older(r) = [r EXCEPT !.age = age, !.left = left]
  BY DEF Older
<1> HIDE DEF age, left
<1>5. Older(r) = [id |-> r.id, age |-> age, left |-> left, bound |-> r.bound,
                  state |-> r.state, person |-> r.person]
  BY <1>3, <1>4
<1>6. Older(r) \in Record
  BY <1>1, <1>2, <1>5 DEF Record
<1> QED BY <1>5, <1>6 DEF left

LEMMA TickType ==
    ASSUME TypeOK, Tick
    PROVE  TypeOK'
<1>1. context' = {Older(r) : r \in context}
  BY DEF Tick, Older
<1>2. context' \subseteq Record /\ \A r \in context' : r.state = "known" <=> r.person # None
  BY <1>1, OlderType DEF TypeOK
<1>3. retired' \in [Persons -> 0 .. LongestTtl]
  <2>1. ASSUME NEW p \in Persons
        PROVE  Capped(retired[p] + 1, LongestTtl) \in 0 .. LongestTtl
    <3>1. retired[p] \in 0 .. LongestTtl
      BY DEF TypeOK
    <3> QED BY <3>1 DEF Capped, LongestTtl
  <2>2. 0 \in 0 .. LongestTtl /\ LongestTtl \in 0 .. LongestTtl
    BY DEF LongestTtl
  <2> QED BY <2>1, <2>2 DEF Tick
<1> QED BY <1>2, <1>3 DEF Tick, TypeOK

\* The kinds of steps.
LEMMA AttributionKinds ==
    ASSUME [Next]_vars
    PROVE  \/ \E b \in Bindings, scope \in Scopes, audio \in BOOLEAN :
                \E verdict \in Verdicts(scope, audio) : Persist(b, verdict)
           \/ context' = Unexpired(context) /\ UNCHANGED <<active, issued, heard, retired>>
           \/ \E p \in Persons : Activate(p) \/ Retire(p)
           \/ Reload
           \/ Tick
           \/ UNCHANGED vars
BY DEF Next, AttributeSpeaker, AttributeContext, AnswerContext

LEMMA AttributionTypeStep ==
    ASSUME TypeOK, [Next]_vars
    PROVE  TypeOK'
<1>1. CASE context' = Unexpired(context) /\ UNCHANGED <<active, issued, heard, retired>>
  BY <1>1 DEF Unexpired, TypeOK
<1>2. ASSUME NEW p \in Persons, Activate(p) \/ Retire(p)
      PROVE  TypeOK'
  BY <1>2 DEF Activate, Retire, TypeOK, LongestTtl
<1>3. CASE Reload
  BY <1>3 DEF Reload, TypeOK
<1>4. CASE UNCHANGED vars
  BY <1>4 DEF vars, TypeOK
<1> QED BY <1>1, <1>2, <1>3, <1>4, AttributionKinds, VerdictsAreOK, PersistType, TickType,
           BindingsAssumption

\* Whatever is attributed, answered and forgotten, the store holds records that can
\* be answered, each with its time.
THEOREM AttributionTypeCorrect == Spec => []TypeOK
<1>1. Init => TypeOK
  BY MaxIssuedAssumption DEF Init, TypeOK, LongestTtl
<1> QED BY <1>1, AttributionTypeStep, PTL DEF Spec

(***************************************************************************)
(* A retired speaker fades.                                                *)
(***************************************************************************)

LEMMA EvidencePersist ==
    ASSUME TypeOK, EvidenceRunsOut, NEW b \in Binding, NEW verdict, VerdictOK(verdict),
           Persist(b, verdict)
    PROVE  EvidenceRunsOut'
<1>1. UNCHANGED <<active, retired>>
  BY DEF Persist
<1>2. ASSUME NEW r \in context', r.left > 0, r.person # None, r.person \notin active
      PROVE  retired[r.person] + r.left <= LongestTtl
  <2>1. CASE r \in Unexpired(context)
    BY <1>2, <2>1 DEF EvidenceRunsOut
  <2>2. CASE r.person = verdict.person
    BY <1>2, <2>2 DEF VerdictOK, Unavailable, Unknown, Ambiguous, Known
  <2> QED BY <2>1, <2>2, PersistStores
<1> QED BY <1>1, <1>2 DEF EvidenceRunsOut, Unexpired

LEMMA EvidenceTick ==
    ASSUME TypeOK, EvidenceRunsOut, Tick
    PROVE  EvidenceRunsOut'
<1>1. active' = active /\ active \subseteq Persons
  BY DEF Tick, TypeOK
<1>2. \A p \in active : retired'[p] = 0
  BY <1>1 DEF Tick
<1>3. ASSUME NEW q \in context', q.left > 0, q.person # None, q.person \notin active
      PROVE  retired'[q.person] + q.left <= LongestTtl
  <2>1. PICK r \in context : q = Older(r)
    BY DEF Tick, Older
  <2>2. r \in Record
    BY DEF TypeOK
  <2>3. /\ q.person = r.person
        /\ r.left \in 1 .. LongestTtl
        /\ q.left = r.left - 1
    BY <1>3, <2>1, <2>2, OlderType DEF Record, LongestTtl
  <2>4. r \in Unexpired(context)
    BY <2>3 DEF Unexpired, LongestTtl
  <2>5. retired[q.person] + r.left <= LongestTtl
    BY <1>3, <2>3, <2>4 DEF EvidenceRunsOut
  <2>6. q.person \in Persons
    BY <1>3, <2>2, <2>3 DEF Record
  <2>7. q \in Evidence(q.person, context')
    BY <1>3 DEF Evidence, Unexpired
  <2>8. retired'[q.person] = Capped(retired[q.person] + 1, LongestTtl)
    BY <1>3, <2>6, <2>7 DEF Tick
  <2>9. retired[q.person] \in 0 .. LongestTtl
    BY <2>6 DEF TypeOK
  <2> QED BY <2>3, <2>5, <2>8, <2>9 DEF Capped, LongestTtl
<1> QED BY <1>1, <1>2, <1>3 DEF EvidenceRunsOut, Unexpired

LEMMA EvidenceStep ==
    ASSUME TypeOK, EvidenceRunsOut, [Next]_vars
    PROVE  EvidenceRunsOut'
<1>1. CASE context' = Unexpired(context) /\ UNCHANGED <<active, issued, heard, retired>>
  BY <1>1 DEF EvidenceRunsOut, Unexpired
<1>2. ASSUME NEW p \in Persons, Activate(p)
      PROVE  EvidenceRunsOut'
  <2>1. \A q \in Persons : retired'[q] = IF q = p THEN 0 ELSE retired[q]
    BY <1>2 DEF Activate, TypeOK
  <2>2. \A q \in active' : retired'[q] = 0
    BY <1>2, <2>1 DEF Activate, EvidenceRunsOut, TypeOK
  <2>3. ASSUME NEW r \in Unexpired(context), r.person # None, r.person \notin active'
        PROVE  retired'[r.person] + r.left <= LongestTtl
    <3>1. r.person \in Persons
      BY <2>3 DEF TypeOK, Record, Unexpired
    <3>2. r.person # p /\ r.person \notin active
      BY <1>2, <2>3 DEF Activate
    <3> QED BY <2>1, <2>3, <3>1, <3>2 DEF EvidenceRunsOut
  <2> QED BY <1>2, <2>2, <2>3 DEF Activate, EvidenceRunsOut, Unexpired
<1>3. ASSUME NEW p \in Persons, Retire(p)
      PROVE  EvidenceRunsOut'
  <2>1. ASSUME NEW r \in Unexpired(context), r.person # None, r.person \notin active'
        PROVE  retired[r.person] + r.left <= LongestTtl
    <3>1. CASE r.person \in active
      <4>1. retired[r.person] = 0
        BY <3>1 DEF EvidenceRunsOut
      <4>2. r.left \in 0 .. LongestTtl
        BY DEF TypeOK, Record, Unexpired
      <4> QED BY <4>1, <4>2 DEF LongestTtl
    <3>2. CASE r.person \notin active
      BY <2>1, <3>2 DEF EvidenceRunsOut
    <3> QED BY <3>1, <3>2
  <2> QED BY <1>3, <2>1 DEF Retire, EvidenceRunsOut, Unexpired
<1>4. CASE Reload
  BY <1>4 DEF Reload, EvidenceRunsOut, Unexpired
<1>5. CASE UNCHANGED vars
  BY <1>5 DEF vars, EvidenceRunsOut, Unexpired
<1> QED BY <1>1, <1>2, <1>3, <1>4, <1>5, AttributionKinds, VerdictsAreOK, EvidencePersist,
           EvidenceTick, BindingsAssumption

\* Whatever callers ask and whenever voiceprints come and go, a speaker whose
\* voiceprint was retired is not resolved once the longest time to live is over.
THEOREM SpeakersFade == Spec => []RetiredSpeakerFades
<1>1. Init => TypeOK /\ EvidenceRunsOut
  BY MaxIssuedAssumption DEF Init, TypeOK, EvidenceRunsOut, Unexpired, LongestTtl
<1>2. TypeOK /\ EvidenceRunsOut /\ [Next]_vars => TypeOK' /\ EvidenceRunsOut'
  BY AttributionTypeStep, EvidenceStep
<1>3. ASSUME TypeOK, EvidenceRunsOut
      PROVE  RetiredSpeakerFades
  <2>1. ASSUME NEW b \in Binding, NEW r, r = Found(context, b), r # None, r.person # None,
               r.person \notin active
        PROVE  retired[r.person] < LongestTtl
    <3>1. r \in Unexpired(context)
      BY <1>3, <2>1, FoundIsStored DEF TypeOK
    <3>2. r \in Record /\ r.left > 0
      BY <1>3, <3>1 DEF Unexpired, TypeOK
    <3>3. r.person \in Persons /\ r.left \in 1 .. LongestTtl
      BY <2>1, <3>2 DEF Record, LongestTtl
    <3>4. retired[r.person] \in 0 .. LongestTtl
      BY <1>3, <3>3 DEF TypeOK
    <3>5. retired[r.person] + r.left <= LongestTtl
      BY <1>3, <2>1, <3>1 DEF EvidenceRunsOut
    <3> QED BY <3>3, <3>4, <3>5 DEF LongestTtl
  <2> QED BY <2>1 DEF RetiredSpeakerFades
<1> QED BY <1>1, <1>2, <1>3, PTL DEF Spec

(***************************************************************************)
(* A hand-off is final.                                                    *)
(***************************************************************************)

\* Somebody or nobody, never one of several.
LEMMA NobodyIsAmbiguous ==
    ASSUME TypeOK, OneCandidate, NEW scope \in Scopes, NEW audio,
           NEW verdict \in Verdicts(scope, audio)
    PROVE  \/ verdict \in {Unavailable, Unknown}
           \/ verdict.state = "known" /\ verdict.person \in Persons /\ verdict.person # None
<1>1. PICK p \in Persons : scope = {p}
  BY DEF OneCandidate
<1>2. Candidates(scope) \subseteq {p} /\ Candidates(scope) \subseteq active
  BY <1>1 DEF Candidates
<1>3. ~ (Candidates(scope) # {} /\ Cardinality(Candidates(scope)) > 1)
  <2>1. CASE Candidates(scope) = {p}
    BY <2>1, FS_Singleton
  <2> QED BY <1>2, <2>1
<1>4. \/ verdict \in {Unavailable, Unknown}
      \/ \E q \in Candidates(scope), band \in AcceptedBands : verdict = Known(q, band)
  BY <1>3 DEF Verdicts
<1> QED BY <1>2, <1>4, NoneIsNothing DEF Known, TypeOK

\* What is left of a conversation that somebody was identified in: the evidence of
\* that very person.
LEMMA LeftOfConversation ==
    ASSUME TypeOK, OneCandidate, OnlyTheLastSpeaker, NEW b \in Bindings, NEW verdict,
           Persist(b, verdict), b.conv # None,
           \/ verdict \in {Unavailable, Unknown}
           \/ verdict.state = "known" /\ verdict.person \in Persons /\ verdict.person # None,
           NEW r \in context', r \in Unexpired(context), r # Issue(b, verdict),
           r.bound.conv = b.conv
    PROVE  verdict.state = "known" /\ r.person = verdict.person
<1> DEFINE swept == Unexpired(context)
           speaker == Found(swept, b)
<1>1. r \notin Invalidated(swept, b)
  BY DEF Invalidated
<1>2. verdict.state \notin {"unknown", "unavailable"} /\ ~ Contradicts(verdict, speaker)
  BY <1>1 DEF Persist, Unexpired
<1>3. verdict.state = "known" /\ verdict.person # None
  BY <1>2 DEF Unavailable, Unknown
<1>4. RoomFits(r, b.room)
  <2>1. r.bound \in Bindings
    BY DEF OnlyTheLastSpeaker
  <2> QED BY <2>1 DEF OneCandidate, RoomFits
<1>5. r \in Record /\ r.left > 0 /\ r.state = "known"
  BY DEF Unexpired, TypeOK, OnlyTheLastSpeaker
<1>6. r \in InConversation(swept, b)
  BY <1>4, <1>5 DEF InConversation, Eligible, Unexpired
<1>7. swept \subseteq Record /\ InConversation(swept, b) \subseteq swept
  BY DEF TypeOK, InConversation, Eligible, Unexpired
<1>8. speaker \in InConversation(swept, b)
  BY <1>6, <1>7, LatestIsOne DEF Found
<1>9. speaker # None /\ speaker \in swept /\ speaker.bound.conv = b.conv
  BY <1>7, <1>8, NoneIsNoRecord DEF InConversation
<1>10. speaker.person = heard[b.conv] /\ speaker.state = "known"
  BY <1>9 DEF OnlyTheLastSpeaker
<1>11. speaker.person # None
  BY <1>9, <1>10 DEF TypeOK, Unexpired
<1>12. speaker.person = verdict.person
  BY <1>2, <1>3, <1>9, <1>11 DEF Contradicts
<1> QED BY <1>3, <1>10, <1>12 DEF OnlyTheLastSpeaker

LEMMA HandoffPersist ==
    ASSUME TypeOK, OneCandidate, OnlyTheLastSpeaker, NEW b \in Bindings, NEW scope \in Scopes,
           NEW audio, NEW verdict \in Verdicts(scope, audio), Persist(b, verdict)
    PROVE  OnlyTheLastSpeaker'
<1>1. \/ verdict \in {Unavailable, Unknown}
      \/ verdict.state = "known" /\ verdict.person \in Persons /\ verdict.person # None
  BY NobodyIsAmbiguous
<1>2. VerdictOK(verdict) /\ b \in Binding
  BY VerdictsAreOK, BindingsAssumption
<1>3. verdict.state # "ambiguous"
  BY <1>1 DEF Unavailable, Unknown
<1>4. heard \in [Convs -> Persons \cup {None}]
  BY DEF TypeOK
<1>5. b.conv # None => b.conv \in Convs /\ heard'[b.conv] = verdict.person
  BY <1>2, <1>3, <1>4 DEF Persist, Binding
<1>6. \A c \in Convs : c # b.conv => heard'[c] = heard[c]
  BY <1>4 DEF Persist
<1>7. ASSUME NEW r \in context'
      PROVE  /\ r.state = "known"
             /\ r.bound \in Bindings
             /\ r.bound.conv # None => r.person = heard'[r.bound.conv]
  <2>1. CASE r = Issue(b, verdict)
    <3>1. r.left > 0 /\ r.bound = b /\ r.state = verdict.state /\ r.person = verdict.person
      BY <2>1 DEF Persist, Unexpired, Issue
    <3>2. verdict \notin {Unavailable, Unknown}
      BY <2>1, <3>1 DEF Issue, Ttl, Unavailable, Unknown
    <3> QED BY <1>1, <1>5, <3>1, <3>2
  <2>2. CASE r # Issue(b, verdict)
    <3>1. r \in Unexpired(context)
      BY <1>2, <2>2, PersistStores
    <3>2. /\ r.state = "known"
          /\ r.bound \in Bindings
          /\ r.bound.conv # None => r.person = heard[r.bound.conv]
      BY <3>1 DEF OnlyTheLastSpeaker
    <3>3. r.bound.conv \in Convs \cup {None}
      BY <3>1 DEF Unexpired, TypeOK, Record, Binding
    <3>4. CASE r.bound.conv # b.conv
      BY <1>6, <3>2, <3>3, <3>4
    <3>5. CASE r.bound.conv = b.conv /\ b.conv # None
      BY <1>1, <1>5, <2>2, <3>1, <3>2, <3>5, LeftOfConversation
    <3> QED BY <3>2, <3>4, <3>5
  <2> QED BY <2>1, <2>2
<1> QED BY <1>7 DEF OnlyTheLastSpeaker, Unexpired

LEMMA HandoffStep ==
    ASSUME TypeOK, OneCandidate, OnlyTheLastSpeaker, [Next]_vars
    PROVE  OnlyTheLastSpeaker'
<1>1. CASE context' = Unexpired(context) /\ UNCHANGED <<active, issued, heard, retired>>
  BY <1>1 DEF OnlyTheLastSpeaker, Unexpired
<1>2. ASSUME NEW p \in Persons, Activate(p) \/ Retire(p)
      PROVE  OnlyTheLastSpeaker'
  BY <1>2 DEF Activate, Retire, OnlyTheLastSpeaker, Unexpired
<1>3. CASE Reload
  BY <1>3 DEF Reload, OnlyTheLastSpeaker, Unexpired
<1>4. CASE Tick
  <2>1. ASSUME NEW q \in context', q.left > 0
        PROVE  /\ q.state = "known"
               /\ q.bound \in Bindings
               /\ q.bound.conv # None => q.person = heard[q.bound.conv]
    <3>1. PICK r \in context : q = Older(r)
      BY <1>4 DEF Tick, Older
    <3>2. r \in Record
      BY DEF TypeOK
    <3>3. /\ q.person = r.person /\ q.state = r.state /\ q.bound = r.bound
          /\ r.left > 0
      BY <2>1, <3>1, <3>2, OlderType DEF Record, LongestTtl
    <3> QED BY <3>3 DEF OnlyTheLastSpeaker, Unexpired
  <2> QED BY <1>4, <2>1 DEF Tick, OnlyTheLastSpeaker, Unexpired
<1>5. CASE UNCHANGED vars
  BY <1>5 DEF vars, OnlyTheLastSpeaker, Unexpired
<1> QED BY <1>1, <1>2, <1>3, <1>4, <1>5, AttributionKinds, HandoffPersist

\* When each caller names its candidate and a conversation stays in one room, its
\* earlier speaker is never again what it resolves to.
THEOREM HandoffsAreFinal == OneCandidate /\ Spec => []HandoffIsFinal
<1> SUFFICES ASSUME OneCandidate PROVE Spec => []HandoffIsFinal
  OBVIOUS
<1>1. Init => TypeOK /\ OnlyTheLastSpeaker
  BY MaxIssuedAssumption DEF Init, TypeOK, OnlyTheLastSpeaker, Unexpired, LongestTtl
<1>2. TypeOK /\ OnlyTheLastSpeaker /\ [Next]_vars => TypeOK' /\ OnlyTheLastSpeaker'
  BY AttributionTypeStep, HandoffStep
<1>3. ASSUME TypeOK, OnlyTheLastSpeaker
      PROVE  HandoffIsFinal
  <2>1. ASSUME NEW c \in Convs, NEW b \in Binding, NEW r,
               r = Found(context, [b EXCEPT !.conv = c]), r # None, r.bound.conv = c
        PROVE  r.person = heard[c]
    <3>1. r \in Unexpired(context)
      BY <1>3, <2>1, FoundIsStored DEF TypeOK
    <3>2. c # None
      BY NoneIsNothing
    <3> QED BY <1>3, <2>1, <3>1, <3>2 DEF OnlyTheLastSpeaker
  <2> QED BY <2>1 DEF HandoffIsFinal
<1> QED BY <1>1, <1>2, <1>3, PTL DEF Spec

================================================================================
