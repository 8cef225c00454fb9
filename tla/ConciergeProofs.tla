---------------------------- MODULE ConciergeProofs ----------------------------
(***************************************************************************)
(* What the Concierge is told, for every set of voiceprints, every time to *)
(* live and every size of the caches: the types, and the three safety      *)
(* properties of ConciergeProfile.                                         *)
(***************************************************************************)
EXTENDS ConciergeProfile, SequenceTheorems, TLAPS

(***************************************************************************)
(* The inductive invariant.                                                *)
(***************************************************************************)

\* Nothing in reach of the Concierge is inactive, and a successor is only named by
\* what it has succeeded.
LivesForward ==
    \A v \in Vids :
        /\ catalogue[v].state # "inactive"
        /\ catalogue[v].next # None => catalogue[v].state \in {"superseded", "deleted"}

\* The active voiceprint is active now.
ActiveIsNow == \A v \in Vids : Active(catalogue, v) => lastActive[v] = 0

\* The caches belong to an instance whose service is switched on.
CachesMatchSettings ==
    /\ health = "healthy" <=> loaded /\ enabled
    /\ discovered # None => loaded /\ discovered.capable = enabled
    /\ profiles # <<>> => loaded /\ enabled

\* An entry is not older than its voiceprint's last activity, and says neither
\* less than the Concierge was told nor more than the catalogue says.
Truthful(e) ==
    /\ Ready(e.state) => lastActive[e.vid] <= e.age
    /\ Present(catalogue, e.vid)
    /\ shown[e.vid] <= Progress(e.state)
    /\ Progress(e.state) <= Progress(StateOf(catalogue[e.vid]))

EntriesAreTruthful == \A i \in DOMAIN profiles : Truthful(profiles[i])

\* This instance has told nothing that the catalogue does not say by now.
ShownIsTrue ==
    \A v \in Vids :
        shown[v] <= (IF Present(catalogue, v) THEN Progress(StateOf(catalogue[v])) ELSE 0)

ProfileInv ==
    /\ ProfileTypeOK
    /\ LivesForward
    /\ ActiveIsNow
    /\ CachesMatchSettings
    /\ EntriesAreTruthful
    /\ ShownIsTrue
    /\ ReadyWasActive
    /\ SwitchedOffIsSilent

(***************************************************************************)
(* The caches.                                                             *)
(***************************************************************************)

Entry == [vid : Vids, state : ProfileStates, age : 0 .. TooOld(ProfileTtl)]

OnePerVid(s) == \A i, j \in DOMAIN s : s[i].vid = s[j].vid => i = j

GoodCache(s) == s \in Seq(Entry) /\ Len(s) <= CacheSize /\ OnePerVid(s)

\* What is in the cache was in it before, but for the entry of v.
OthersWereThere(s, v) ==
    \A j \in DOMAIN s : s[j].vid # v => \E i \in DOMAIN profiles : s[j] = profiles[i]

\* The type invariant says so of the cache.
LEMMA CacheType ==
    ASSUME ProfileTypeOK
    PROVE  /\ GoodCache(profiles)
           /\ Len(profiles) \in Nat
           /\ DOMAIN profiles = 1 .. Len(profiles)
           /\ \A i \in DOMAIN profiles : profiles[i] \in Entry
<1>1. GoodCache(profiles)
  BY DEF ProfileTypeOK, GoodCache, OnePerVid, Entry
<1> QED BY <1>1, LenProperties, ElementOfSeq DEF GoodCache

\* And of what was shown.
LEMMA ShownType ==
    ASSUME ProfileTypeOK
    PROVE  \A v \in Vids : shown[v] \in Nat /\ shown[v] >= shown[v]
<1>1. shown \in [Vids -> 0 .. 3]
  BY DEF ProfileTypeOK
<1> QED BY <1>1

\* Taking an entry out.
LEMMA WithoutIsGood ==
    ASSUME GoodCache(profiles), NEW v
    PROVE  /\ GoodCache(Without(v))
           /\ CachedUnder(v) # {} => Len(Without(v)) < Len(profiles)
           /\ \A j \in DOMAIN Without(v) :
                /\ Without(v)[j].vid # v
                /\ \E i \in DOMAIN profiles : Without(v)[j] = profiles[i]
<1>1. /\ profiles \in Seq(Entry)
      /\ Len(profiles) \in Nat
      /\ DOMAIN profiles = 1 .. Len(profiles)
      /\ \A i \in 1 .. Len(profiles) : profiles[i] \in Entry
  BY LenProperties, ElementOfSeq DEF GoodCache
<1>2. CASE CachedUnder(v) = {}
  BY <1>1, <1>2 DEF Without, CachedUnder
<1>3. CASE CachedUnder(v) # {}
  <2> DEFINE n == IndexOf(v)
             head == SubSeq(profiles, 1, n - 1)
             tail == SubSeq(profiles, n + 1, Len(profiles))
             rest == head \o tail
  <2>1. n \in 1 .. Len(profiles) /\ profiles[n].vid = v
    BY <1>1, <1>3 DEF IndexOf, CachedUnder
  <2> HIDE DEF n
  <2>2. /\ head \in Seq(Entry)
        /\ Len(head) = n - 1
        /\ \A i \in 1 .. n - 1 : head[i] = profiles[i]
    <3>1. n \in Int /\ 1 \in Int /\ n - 1 \in Int /\ \A i \in 1 .. n - 1 : profiles[i] \in Entry
      BY <1>1, <2>1
    <3>2. /\ SubSeq(profiles, 1, n - 1) \in Seq(Entry)
          /\ Len(SubSeq(profiles, 1, n - 1)) = IF 1 <= n - 1 THEN (n - 1) - 1 + 1 ELSE 0
          /\ \A i \in 1 .. (n - 1) - 1 + 1 : SubSeq(profiles, 1, n - 1)[i] = profiles[1 + i - 1]
      BY <3>1, SubSeqProperties
    <3> QED BY <1>1, <2>1, <3>2
  <2>3. /\ tail \in Seq(Entry)
        /\ Len(tail) = Len(profiles) - n
        /\ \A i \in 1 .. Len(profiles) - n : tail[i] = profiles[n + i]
    <3>1. n + 1 \in Int /\ Len(profiles) \in Int
          /\ \A i \in n + 1 .. Len(profiles) : profiles[i] \in Entry
      BY <1>1, <2>1
    <3>2. /\ SubSeq(profiles, n + 1, Len(profiles)) \in Seq(Entry)
          /\ Len(SubSeq(profiles, n + 1, Len(profiles))) =
                IF n + 1 <= Len(profiles) THEN Len(profiles) - (n + 1) + 1 ELSE 0
          /\ \A i \in 1 .. Len(profiles) - (n + 1) + 1 :
                SubSeq(profiles, n + 1, Len(profiles))[i] = profiles[(n + 1) + i - 1]
      BY <3>1, SubSeqProperties
    <3>3. Len(profiles) - (n + 1) + 1 = Len(profiles) - n
      BY <1>1, <2>1
    <3>4. \A i \in 1 .. Len(profiles) - n : (n + 1) + i - 1 = n + i
      BY <1>1, <2>1
    <3>5. \A i \in 1 .. Len(profiles) - n : tail[i] = profiles[n + i]
      BY <3>2, <3>3, <3>4
    <3>6. \A l \in Nat : \A k \in 1 .. l :
            IF k + 1 <= l THEN l - (k + 1) + 1 = l - k ELSE 0 = l - k
      OBVIOUS
    <3>7. Len(tail) = Len(profiles) - n
      BY <1>1, <2>1, <3>2, <3>6
    <3> QED BY <3>2, <3>5, <3>7
  <2> HIDE DEF head, tail
  <2>4. /\ rest \in Seq(Entry)
        /\ Len(rest) = Len(profiles) - 1
        /\ DOMAIN rest = 1 .. Len(profiles) - 1
        /\ \A j \in 1 .. Len(profiles) - 1 :
            rest[j] = IF j < n THEN profiles[j] ELSE profiles[j + 1]
    <3>1. /\ head \o tail \in Seq(Entry)
          /\ Len(head \o tail) = Len(head) + Len(tail)
          /\ \A i \in 1 .. Len(head) + Len(tail) :
                (head \o tail)[i] = IF i <= Len(head) THEN head[i] ELSE tail[i - Len(head)]
      BY <2>2, <2>3, ConcatProperties
    <3>2. Len(head) + Len(tail) = Len(profiles) - 1
      BY <1>1, <2>1, <2>2, <2>3
    <3>3. DOMAIN rest = 1 .. Len(rest)
      BY <3>1, LenProperties
    <3>4. ASSUME NEW j \in 1 .. Len(profiles) - 1
          PROVE  rest[j] = IF j < n THEN profiles[j] ELSE profiles[j + 1]
      <4>1. CASE j < n
        BY <1>1, <2>1, <2>2, <3>1, <3>2, <4>1
      <4>2. CASE ~(j < n)
        <5>1. j - (n - 1) \in 1 .. Len(profiles) - n /\ n + (j - (n - 1)) = j + 1
          BY <1>1, <2>1, <4>2
        <5>2. rest[j] = tail[j - Len(head)]
          BY <1>1, <2>1, <2>2, <3>1, <3>2, <4>2
        <5>3. tail[j - (n - 1)] = profiles[n + (j - (n - 1))]
          BY <2>3, <5>1
        <5> QED BY <2>2, <4>2, <5>1, <5>2, <5>3
      <4> QED BY <4>1, <4>2
    <3> QED BY <3>1, <3>2, <3>3, <3>4
  <2>5. Without(v) = rest
    BY <1>3 DEF Without, RemoveAt, n, head, tail
  <2> HIDE DEF rest
  <2>6. \A j \in 1 .. Len(profiles) - 1 :
            \E i \in DOMAIN profiles : /\ i # n
                                       /\ rest[j] = profiles[i]
                                       /\ i = IF j < n THEN j ELSE j + 1
    BY <1>1, <2>1, <2>4
  <2>7. \A j \in 1 .. Len(profiles) - 1 : rest[j].vid # v
    BY <1>1, <2>1, <2>6 DEF GoodCache, OnePerVid
  <2>8. OnePerVid(rest)
    <3> SUFFICES ASSUME NEW j \in 1 .. Len(profiles) - 1, NEW k \in 1 .. Len(profiles) - 1,
                        rest[j].vid = rest[k].vid
                 PROVE  j = k
      BY <2>4 DEF OnePerVid
    <3>1. PICK i \in DOMAIN profiles : rest[j] = profiles[i] /\ i = IF j < n THEN j ELSE j + 1
      BY <2>6
    <3>2. PICK l \in DOMAIN profiles : rest[k] = profiles[l] /\ l = IF k < n THEN k ELSE k + 1
      BY <2>6
    <3>3. i = l
      BY <3>1, <3>2 DEF GoodCache, OnePerVid
    <3> QED BY <1>1, <2>1, <3>1, <3>2, <3>3
  <2> QED BY <1>1, <2>1, <2>4, <2>5, <2>6, <2>7, <2>8, CacheSizeAssumption DEF GoodCache
<1> QED BY <1>2, <1>3

\* Putting an entry at the end, in the place of the one its voiceprint had.
LEMMA AppendIsGood ==
    ASSUME GoodCache(profiles), NEW e \in Entry
    PROVE  LET s == Append(Without(e.vid), e)
           IN  /\ s \in Seq(Entry)
               /\ OnePerVid(s)
               /\ Len(s) <= CacheSize + 1
               /\ CachedUnder(e.vid) # {} => Len(s) <= CacheSize
               /\ \A j \in DOMAIN s : s[j].vid = e.vid => s[j] = e
               /\ OthersWereThere(s, e.vid)
<1> DEFINE old == Without(e.vid)
           s == Append(old, e)
<1>1. /\ GoodCache(old)
      /\ CachedUnder(e.vid) # {} => Len(old) < Len(profiles)
      /\ \A j \in DOMAIN old : old[j].vid # e.vid /\ \E i \in DOMAIN profiles : old[j] = profiles[i]
  BY WithoutIsGood
<1> HIDE DEF old
<1>2. old \in Seq(Entry) /\ Len(old) \in Nat /\ DOMAIN old = 1 .. Len(old)
  BY <1>1, LenProperties DEF GoodCache
<1>3. /\ s \in Seq(Entry)
      /\ Len(s) = Len(old) + 1
      /\ \A i \in 1 .. Len(old) : s[i] = old[i]
      /\ s[Len(old) + 1] = e
  BY <1>2, AppendProperties
<1>4. DOMAIN s = 1 .. Len(old) + 1
  BY <1>3, LenProperties
<1> HIDE DEF s
<1>5. \A j \in DOMAIN s : j = Len(old) + 1 \/ j \in DOMAIN old
  BY <1>2, <1>4
<1>6. OnePerVid(s)
  BY <1>1, <1>2, <1>3, <1>4, <1>5 DEF GoodCache, OnePerVid
<1>7. \A j \in DOMAIN s : s[j].vid = e.vid => s[j] = e
  BY <1>1, <1>2, <1>3, <1>5
<1>8. OthersWereThere(s, e.vid)
  BY <1>1, <1>2, <1>3, <1>5 DEF OthersWereThere
<1>9. Len(s) <= CacheSize + 1 /\ (CachedUnder(e.vid) # {} => Len(s) <= CacheSize)
  <2>1. profiles \in Seq(Entry) /\ Len(profiles) \in Nat /\ Len(profiles) <= CacheSize
    BY LenProperties DEF GoodCache
  <2> QED BY <1>1, <1>2, <1>3, <2>1, CacheSizeAssumption DEF GoodCache
<1> QED BY <1>3, <1>6, <1>7, <1>8, <1>9 DEF s, old

\* set, with its eviction.
LEMMA StoreIsGood ==
    ASSUME GoodCache(profiles), NEW v \in Vids, NEW state \in ProfileStates
    PROVE  /\ GoodCache(Store(v, state))
           /\ \A j \in DOMAIN Store(v, state) :
                Store(v, state)[j].vid = v =>
                    Store(v, state)[j] = [vid |-> v, state |-> state, age |-> 0]
           /\ OthersWereThere(Store(v, state), v)
<1> DEFINE e == [vid |-> v, state |-> state, age |-> 0]
           filled == Append(Without(v), e)
<1>1. e \in Entry /\ e.vid = v
  BY TtlAssumption DEF Entry, TooOld
<1> HIDE DEF e
<1>2. /\ filled \in Seq(Entry)
      /\ OnePerVid(filled)
      /\ Len(filled) <= CacheSize + 1
      /\ \A j \in DOMAIN filled : filled[j].vid = v => filled[j] = e
      /\ OthersWereThere(filled, v)
  BY <1>1, AppendIsGood
<1> HIDE DEF filled
<1>3. Len(filled) \in Nat /\ DOMAIN filled = 1 .. Len(filled)
  BY <1>2, LenProperties
<1>4. Store(v, state) = IF Len(filled) > CacheSize THEN Tail(filled) ELSE filled
  BY DEF Store, filled, e
<1>5. CASE Len(filled) > CacheSize
  <2>1. filled # <<>>
    BY <1>2, <1>3, <1>5, EmptySeq, CacheSizeAssumption
  <2>2. /\ Tail(filled) \in Seq(Entry)
        /\ Len(Tail(filled)) = Len(filled) - 1
        /\ \A i \in 1 .. Len(Tail(filled)) : Tail(filled)[i] = filled[i + 1]
    BY <1>2, <2>1, HeadTailProperties
  <2>3. DOMAIN Tail(filled) = 1 .. Len(filled) - 1
    BY <2>2, LenProperties
  <2>4. Store(v, state) = Tail(filled)
    BY <1>4, <1>5
  <2> DEFINE s == Tail(filled)
  <2> HIDE DEF s
  <2>5. \A j \in DOMAIN s : j + 1 \in DOMAIN filled /\ s[j] = filled[j + 1]
    BY <1>3, <2>2, <2>3 DEF s
  <2>6. OnePerVid(s)
    BY <1>2, <1>3, <2>3, <2>5 DEF OnePerVid, s
  <2>7. \A j \in DOMAIN s : s[j].vid = v => s[j] = e
    BY <1>2, <2>5
  <2>8. OthersWereThere(s, v)
    BY <1>2, <2>5 DEF OthersWereThere
  <2>9. GoodCache(s)
    BY <1>2, <1>3, <2>2, <2>6, CacheSizeAssumption DEF GoodCache, s
  <2> QED BY <2>4, <2>7, <2>8, <2>9 DEF s, e
<1>6. CASE ~(Len(filled) > CacheSize)
  BY <1>2, <1>3, <1>4, <1>6, CacheSizeAssumption DEF GoodCache, e
<1> QED BY <1>5, <1>6

\* get, when it hits.
LEMMA TouchIsGood ==
    ASSUME GoodCache(profiles), NEW v \in Vids, CachedUnder(v) # {}
    PROVE  /\ IndexOf(v) \in DOMAIN profiles
           /\ profiles[IndexOf(v)] \in Entry
           /\ profiles[IndexOf(v)].vid = v
           /\ \A i \in CachedUnder(v) : i = IndexOf(v)
           /\ GoodCache(Touch(v))
           /\ \A j \in DOMAIN Touch(v) : \E i \in DOMAIN profiles : Touch(v)[j] = profiles[i]
           /\ \A j \in DOMAIN Touch(v) :
                Touch(v)[j].vid = v => Touch(v)[j] = profiles[IndexOf(v)]
<1>1. IndexOf(v) \in DOMAIN profiles /\ profiles[IndexOf(v)].vid = v
  BY DEF IndexOf, CachedUnder
<1>2. \A i \in CachedUnder(v) : i = IndexOf(v)
  BY <1>1 DEF CachedUnder, GoodCache, OnePerVid
<1> DEFINE e == profiles[IndexOf(v)]
           s == Append(Without(v), e)
<1>3. e \in Entry
  BY <1>1, ElementOfSeq, LenProperties DEF GoodCache
<1>4. e.vid = v
  BY <1>1
<1> HIDE DEF e
<1>5. /\ s \in Seq(Entry)
      /\ OnePerVid(s)
      /\ Len(s) <= CacheSize
      /\ \A j \in DOMAIN s : s[j].vid = v => s[j] = e
      /\ OthersWereThere(s, v)
  BY <1>3, <1>4, AppendIsGood
<1> HIDE DEF s
<1>6. Touch(v) = s
  BY DEF Touch, s, e
<1>7. \A j \in DOMAIN s : \E i \in DOMAIN profiles : s[j] = profiles[i]
  BY <1>1, <1>5 DEF OthersWereThere, e
<1> QED BY <1>1, <1>2, <1>3, <1>4, <1>5, <1>6, <1>7 DEF GoodCache, e

(***************************************************************************)
(* The catalogue.                                                          *)
(***************************************************************************)

LEMMA ProgressType ==
    /\ \A state : Progress(state) \in 1 .. 3
    /\ \A rec \in Record : StateOf(rec) \in ProfileStates
BY DEF Progress, StateOf, ProfileStates

\* How far along its life a record is.
LEMMA ProgressOfRecord ==
    ASSUME NEW rec \in Record
    PROVE  /\ rec.state = "pending" /\ rec.next = None => Progress(StateOf(rec)) = 1
           /\ rec.state = "active" => Progress(StateOf(rec)) = 2
           /\ rec.state \in {"superseded", "failed", "deleted"} => Progress(StateOf(rec)) = 3
<1>1. /\ rec.state = "pending" /\ rec.next = None => StateOf(rec) = "enrolled"
      /\ rec.state = "active" => StateOf(rec) = "active"
      /\ rec.state \in {"superseded", "failed", "deleted"}
            => StateOf(rec) \in {"superseded", "retired", "unknown"}
  BY DEF StateOf
<1> QED BY <1>1 DEF Progress

\* A record as it may become: it stays where it is in its life, or moves on.
Onward(old, new) ==
    /\ new.state \notin {"absent", "inactive"}
    /\ new.next # None => new.state \in {"superseded", "deleted"}
    /\ old.state # "absent" => Progress(StateOf(old)) <= Progress(StateOf(new))

\* What the writes do to the catalogue, when nothing deactivates a voiceprint.
LEMMA WritesMoveOnward ==
    ASSUME catalogue \in Registry, LivesForward, Write(Withdrawals)
    PROVE  /\ catalogue' \in Registry
           /\ LivesForward'
           /\ \A v \in Vids : Present(catalogue, v) =>
                /\ Present(catalogue', v)
                /\ Progress(StateOf(catalogue[v])) <= Progress(StateOf(catalogue'[v]))
<1>1. \A v \in Vids : catalogue[v] \in Record
  BY DEF Registry
<1>2. ASSUME NEW w \in Vids, NEW rec \in Record, catalogue' = [catalogue EXCEPT ![w] = rec],
             Onward(catalogue[w], rec)
      PROVE  /\ catalogue' \in Registry
             /\ LivesForward'
             /\ \A v \in Vids : Present(catalogue, v) =>
                    /\ Present(catalogue', v)
                    /\ Progress(StateOf(catalogue[v])) <= Progress(StateOf(catalogue'[v]))
  <2>1. catalogue'[w] = rec /\ \A v \in Vids : v # w => catalogue'[v] = catalogue[v]
    BY <1>2 DEF Registry
  <2>2. catalogue' \in Registry
    BY <1>2 DEF Registry
  <2>3. LivesForward'
    BY <1>2, <2>1 DEF LivesForward, Onward
  <2>4. ASSUME NEW v \in Vids, Present(catalogue, v)
        PROVE  /\ Present(catalogue', v)
               /\ Progress(StateOf(catalogue[v])) <= Progress(StateOf(catalogue'[v]))
    <3>1. CASE v = w
      BY <1>2, <2>1, <2>4, <3>1 DEF Onward, Present
    <3>2. CASE v # w
      BY <2>1, <2>4, <3>2, ProgressType DEF Present
    <3> QED BY <3>1, <3>2
  <2> QED BY <2>2, <2>3, <2>4
<1>3. ASSUME NEW v \in Vids, Enter(v)
      PROVE  \E w \in Vids, rec \in Record :
                catalogue' = [catalogue EXCEPT ![w] = rec] /\ Onward(catalogue[w], rec)
  <2>1. PICK rec \in {InitialRecord(v, s) : s \in Subjects}
                     \cup {NextRecord(catalogue, p) : p \in {q \in Vids : Present(catalogue, q)}} :
            catalogue' = [catalogue EXCEPT ![v] = rec]
    BY <1>3 DEF Enter
  <2>2. rec \in Record /\ rec.state = "pending" /\ rec.next = None
    BY <1>1, <2>1 DEF InitialRecord, NextRecord, Record, LifecycleStates
  <2>3. catalogue[v].state = "absent"
    BY <1>3 DEF Enter, Present
  <2> QED BY <2>1, <2>2, <2>3 DEF Onward
<1>4. ASSUME NEW v \in Vids, Promote(v)
      PROVE  \E w \in Vids, rec \in Record :
                catalogue' = [catalogue EXCEPT ![w] = rec] /\ Onward(catalogue[w], rec)
  <2> DEFINE rec == WithState(catalogue[v], "active")
  <2>1. catalogue[v].state = "pending" /\ catalogue[v].next = None
    BY <1>1, <1>4 DEF Promote, CanMove, AllowedTransitions, LivesForward, Record, LifecycleStates
  <2>2. rec \in Record /\ rec.state = "active" /\ rec.next = None
    BY <1>1, <2>1 DEF WithState, Record, LifecycleStates
  <2>3. catalogue' = [catalogue EXCEPT ![v] = rec]
    BY <1>4 DEF Promote, Registry
  <2> HIDE DEF rec
  <2>4. Onward(catalogue[v], rec)
    BY <1>1, <2>1, <2>2, ProgressOfRecord DEF Onward
  <2> QED BY <2>2, <2>3, <2>4
<1>5. ASSUME NEW p \in Vids, NEW v \in Vids, HandOver(p, v)
      PROVE  \E w \in Vids, rec \in Record :
                catalogue' = [catalogue EXCEPT ![w] = rec] /\ Onward(catalogue[w], rec)
  <2> DEFINE rec == SupersededBy(catalogue[p], v)
  <2>1. catalogue[p].state = "active"
    BY <1>5 DEF HandOver, Active
  <2>2. rec \in Record /\ rec.state = "superseded"
    BY <1>1 DEF SupersededBy, Record, LifecycleStates
  <2>3. catalogue' = [catalogue EXCEPT ![p] = rec]
    BY <1>5 DEF HandOver, Registry
  <2> HIDE DEF rec
  <2>4. Onward(catalogue[p], rec)
    BY <1>1, <2>1, <2>2, ProgressOfRecord DEF Onward
  <2> QED BY <2>2, <2>3, <2>4
<1>6. ASSUME NEW v \in Vids, NEW state \in Withdrawals, Withdraw(v, state)
      PROVE  \E w \in Vids, rec \in Record :
                catalogue' = [catalogue EXCEPT ![w] = rec] /\ Onward(catalogue[w], rec)
  <2> DEFINE rec == WithState(catalogue[v], state)
  <2>1. state \in {"failed", "deleted"}
    BY WithdrawalsAssumption
  <2>2. rec \in Record /\ rec.state = state /\ rec.next = catalogue[v].next
    BY <1>1, <2>1 DEF WithState, Record, LifecycleStates
  <2>3. catalogue' = [catalogue EXCEPT ![v] = rec]
    BY <1>6 DEF Withdraw, Registry
  <2>4. rec.next # None => rec.state = "deleted"
    <3>1. state = "failed" => catalogue[v].state = "pending"
      BY <1>1, <1>6 DEF Withdraw, CanMove, AllowedTransitions, Record, LifecycleStates
    <3> QED BY <2>1, <2>2, <3>1 DEF LivesForward
  <2>5. Progress(StateOf(rec)) = 3
    BY <2>1, <2>2, ProgressOfRecord
  <2>6. Progress(StateOf(catalogue[v])) <= 3
    BY ProgressType
  <2> HIDE DEF rec
  <2> QED BY <2>1, <2>2, <2>3, <2>4, <2>5, <2>6 DEF Onward
<1> QED BY <1>2, <1>3, <1>4, <1>5, <1>6 DEF Write

(***************************************************************************)
(* The steps.                                                              *)
(***************************************************************************)

\* What every step keeps, and what it may do to what an instance has told.
Keeps == ProfileInv' /\ (loaded /\ loaded' => \A v \in Vids : shown'[v] >= shown[v])

DiscoveredKeeps ==
    /\ discovered' \in {None} \cup [capable : BOOLEAN, age : 0 .. TooOld(DiscoveryTtl)]
    /\ discovered' # None => loaded /\ discovered'.capable = enabled

\* An answer without a profile: entries at most leave the cache.
LEMMA RefuseKeeps ==
    ASSUME ProfileInv, NEW category \in Failures, Refuse(category), DiscoveredKeeps,
           GoodCache(profiles'), profiles' # <<>> => profiles # <<>>,
           \A j \in DOMAIN profiles' : \E i \in DOMAIN profiles : profiles'[j] = profiles[i]
    PROVE  Keeps
<1>1. UNCHANGED <<catalogue, enabled, loaded, health, lastActive, shown>>
      /\ answer' = [vid |-> None, said |-> category]
  BY DEF Refuse, settings, history, Refusal, Told
<1>2. ProfileTypeOK'
  BY <1>1 DEF ProfileInv, ProfileTypeOK, DiscoveredKeeps, GoodCache, OnePerVid, Entry, Voiceprints
<1>3. LivesForward' /\ ActiveIsNow' /\ ShownIsTrue'
  BY <1>1 DEF ProfileInv, LivesForward, ActiveIsNow, ShownIsTrue
<1>4. CachesMatchSettings'
  BY <1>1 DEF ProfileInv, CachesMatchSettings, DiscoveredKeeps
<1>5. EntriesAreTruthful'
  BY <1>1 DEF ProfileInv, EntriesAreTruthful, Truthful
<1>6. ReadyWasActive' /\ SwitchedOffIsSilent'
  BY <1>1 DEF ReadyWasActive, SwitchedOffIsSilent, Ready, Failures
<1>7. \A v \in Vids : shown'[v] >= shown[v]
  BY <1>1, ShownType DEF ProfileInv
<1> QED BY <1>2, <1>3, <1>4, <1>5, <1>6, <1>7 DEF Keeps, ProfileInv

\* An answer with a profile, which is in the cache as it was shown, if it is.
LEMMA ShowKeeps ==
    ASSUME ProfileInv, NEW v \in Vids, NEW state \in ProfileStates, Show(v, state),
           loaded, enabled, DiscoveredKeeps, GoodCache(profiles'),
           OthersWereThere(profiles', v),
           \A j \in DOMAIN profiles' : profiles'[j].vid = v =>
                /\ profiles'[j].state = state
                /\ Ready(state) => lastActive[v] <= profiles'[j].age,
           Present(catalogue, v),
           shown[v] <= Progress(state),
           Progress(state) <= Progress(StateOf(catalogue[v])),
           Ready(state) => lastActive[v] <= ProfileTtl
    PROVE  Keeps
<1>1. UNCHANGED <<catalogue, enabled, loaded, health, lastActive>>
      /\ answer' = [vid |-> v, said |-> state]
  BY DEF Show, settings, Told
<1>2. /\ shown' \in [Vids -> 0 .. 3]
      /\ shown'[v] = Progress(state)
      /\ \A w \in Vids : w # v => shown'[w] = shown[w]
  BY ProgressType DEF Show, ProfileInv, ProfileTypeOK
<1>3. ProfileTypeOK'
  BY <1>1, <1>2 DEF ProfileInv, ProfileTypeOK, DiscoveredKeeps, GoodCache, OnePerVid, Entry,
                    Voiceprints
<1>4. LivesForward' /\ ActiveIsNow'
  BY <1>1 DEF ProfileInv, LivesForward, ActiveIsNow
<1>5. ShownIsTrue'
  BY <1>1, <1>2 DEF ProfileInv, ShownIsTrue
<1>6. CachesMatchSettings'
  BY <1>1 DEF ProfileInv, CachesMatchSettings, DiscoveredKeeps
<1>7. EntriesAreTruthful'
  <2> SUFFICES ASSUME NEW j \in DOMAIN profiles'
               PROVE  Truthful(profiles[j])'
    BY DEF EntriesAreTruthful
  <2>1. CASE profiles'[j].vid = v
    BY <1>1, <1>2, <2>1, ProgressType DEF Truthful
  <2>2. CASE profiles'[j].vid # v
    <3>1. PICK i \in DOMAIN profiles : profiles'[j] = profiles[i]
      BY <2>2 DEF OthersWereThere
    <3>2. profiles[i] \in Entry
      BY <3>1, CacheType DEF ProfileInv
    <3>3. profiles[i].vid \in Vids
      BY <3>2 DEF Entry
    <3>4. Truthful(profiles[i])
      BY DEF ProfileInv, EntriesAreTruthful
    <3> QED BY <1>1, <1>2, <2>2, <3>1, <3>3, <3>4 DEF Truthful
  <2> QED BY <2>1, <2>2
<1>8. ReadyWasActive' /\ SwitchedOffIsSilent'
  BY <1>1 DEF ProfileInv, ReadyWasActive, SwitchedOffIsSilent, CachesMatchSettings, Ready
<1>9. \A w \in Vids : shown'[w] >= shown[w]
  <2>1. shown'[v] >= shown[v]
    BY <1>2, ProgressType, ShownType DEF ProfileInv
  <2> QED BY <1>2, <2>1, ShownType DEF ProfileInv
<1> QED BY <1>3, <1>4, <1>5, <1>6, <1>7, <1>8, <1>9 DEF Keeps, ProfileInv

\* The discovery that resolve begins with.
LEMMA DiscoverKeeps ==
    ASSUME ProfileInv, NEW r \in Request, Discover(r)
    PROVE  DiscoveredKeeps /\ Discovery(r).capable = enabled
<1>1. FreshDiscovery \in [capable : BOOLEAN, age : 0 .. TooOld(DiscoveryTtl)]
      /\ FreshDiscovery.capable = enabled
  BY TtlAssumption DEF FreshDiscovery, Capable, TooOld, ProfileInv, ProfileTypeOK
<1>2. CASE DiscoveryHit(r)
  BY <1>2 DEF Discover, Discovery, DiscoveryHit, DiscoveredKeeps, ProfileInv, ProfileTypeOK,
              CachesMatchSettings
<1>3. CASE ~DiscoveryHit(r)
  BY <1>1, <1>3 DEF Discover, Discovery, DiscoveredKeeps
<1> QED BY <1>2, <1>3

\* resolve, however it ends.
LEMMA ResolveKeeps ==
    ASSUME ProfileInv, NEW r \in Request, Resolve(r)
    PROVE  Keeps
<1>1. GoodCache(profiles)
  BY CacheType DEF ProfileInv
<1>2. r.vid \in Voiceprints
  BY DEF Request
<1>3. CASE ResolveNotLoaded(r) \/ ResolveIncompatible(r)
  <2>1. \E category \in Failures : Refuse(category)
    BY <1>3 DEF ResolveNotLoaded, ResolveIncompatible, Failures
  <2>2. UNCHANGED <<discovered, profiles>>
    BY <1>3 DEF ResolveNotLoaded, ResolveIncompatible, caches
  <2>3. DiscoveredKeeps
    BY <2>2 DEF DiscoveredKeeps, ProfileInv, ProfileTypeOK, CachesMatchSettings
  <2> QED BY <1>1, <2>1, <2>2, <2>3, RefuseKeeps
<1>4. AfterMiss(r) = profiles \/ AfterMiss(r) = Without(r.vid)
  BY DEF AfterMiss
<1>5. CASE ResolveUnavailable(r) \/ ResolveNotEnrolled(r) \/ ResolveFails(r)
  <2>1. \E category \in Failures : Refuse(category)
    <3>1. MetadataFailure(r) # "none" => MetadataFailure(r) \in Failures
      BY DEF MetadataFailure, Failures
    <3> QED BY <1>5, <3>1 DEF ResolveUnavailable, ResolveNotEnrolled, ResolveFails, Failures
  <2>2. DiscoveredKeeps
    BY <1>5, DiscoverKeeps DEF ResolveUnavailable, ResolveNotEnrolled, ResolveFails
  <2>3. CASE profiles' = profiles
    BY <1>1, <2>1, <2>2, <2>3, RefuseKeeps
  <2>4. CASE profiles' = Without(r.vid)
    <3>1. /\ GoodCache(profiles')
          /\ \A j \in DOMAIN profiles' : \E i \in DOMAIN profiles : profiles'[j] = profiles[i]
      BY <1>1, <2>4, WithoutIsGood
    <3>2. profiles = <<>> => profiles' = <<>>
      BY <2>4 DEF Without, CachedUnder
    <3> QED BY <2>1, <2>2, <3>1, <3>2, RefuseKeeps
  <2> QED BY <1>4, <1>5, <2>3, <2>4 DEF ResolveUnavailable, ResolveNotEnrolled, ResolveFails
<1>6. CASE ResolveCached(r)
  <2> DEFINE v == r.vid
             e == profiles[IndexOf(v)]
  <2>1. PICK i \in CachedUnder(v) : profiles[i].age <= ProfileTtl
    BY <1>6 DEF ResolveCached, ProfileHit
  <2>2. i \in DOMAIN profiles /\ profiles[i].vid = v
    BY <2>1 DEF CachedUnder
  <2>3. v \in Vids
    <3>1. profiles[i] \in Entry
      BY <1>1, <2>2, ElementOfSeq, LenProperties DEF GoodCache
    <3> QED BY <2>2, <3>1 DEF Entry
  <2>4. /\ i = IndexOf(v)
        /\ e \in Entry
        /\ e.vid = v
        /\ GoodCache(Touch(v))
        /\ \A j \in DOMAIN Touch(v) : \E k \in DOMAIN profiles : Touch(v)[j] = profiles[k]
        /\ \A j \in DOMAIN Touch(v) : Touch(v)[j].vid = v => Touch(v)[j] = e
    BY <1>1, <2>1, <2>3, TouchIsGood
  <2>5. Truthful(e)
    BY <2>2, <2>4 DEF ProfileInv, EntriesAreTruthful
  <2>6. loaded /\ enabled
    <3>1. profiles # <<>>
      BY <2>2
    <3> QED BY <3>1 DEF ProfileInv, CachesMatchSettings
  <2>7. profiles' = Touch(v) /\ Show(v, e.state) /\ DiscoveredKeeps
    BY <1>6, DiscoverKeeps DEF ResolveCached
  <2>8. e.age <= ProfileTtl /\ e.age \in Nat /\ e.state \in ProfileStates /\ lastActive[v] \in Nat
    BY <2>1, <2>3, <2>4, TtlAssumption DEF Entry, TooOld, ProfileInv, ProfileTypeOK
  <2>9. OthersWereThere(profiles', v)
    BY <2>4, <2>7 DEF OthersWereThere
  <2> HIDE DEF e
  <2>10. Ready(e.state) => lastActive[v] <= ProfileTtl
    BY <2>4, <2>5, <2>8, TtlAssumption DEF Truthful
  <2> QED BY <2>3, <2>4, <2>5, <2>6, <2>7, <2>8, <2>9, <2>10, ShowKeeps DEF Truthful
<1>7. CASE ResolveFresh(r)
  <2> DEFINE v == r.vid
             state == StateOf(catalogue[v])
  <2>1. v \in Vids /\ Present(catalogue, v)
    BY <1>2, <1>7 DEF ResolveFresh, Voiceprints, MetadataFailure
  <2>2. state \in ProfileStates
    BY <2>1, ProgressType DEF ProfileInv, ProfileTypeOK, Registry
  <2>3. profiles' = Store(v, state) /\ Show(v, state) /\ DiscoveredKeeps /\ loaded /\ enabled
    BY <1>7, DiscoverKeeps DEF ResolveFresh, Discover
  <2>4. Ready(state) => lastActive[v] = 0
    BY <2>1 DEF Ready, StateOf, ProfileInv, ActiveIsNow, Active
  <2>5. shown[v] <= Progress(state) /\ Progress(state) <= Progress(state)
    BY <2>1, ProgressType DEF ProfileInv, ShownIsTrue
  <2> HIDE DEF state
  <2>6. /\ GoodCache(profiles')
        /\ \A j \in DOMAIN profiles' : profiles'[j].vid = v =>
                profiles'[j] = [vid |-> v, state |-> state, age |-> 0]
        /\ OthersWereThere(profiles', v)
    BY <1>1, <2>1, <2>2, <2>3, StoreIsGood
  <2>7. \A j \in DOMAIN profiles' : profiles'[j].vid = v =>
            /\ profiles'[j].state = state
            /\ Ready(state) => lastActive[v] <= profiles'[j].age
    BY <2>4, <2>6
  <2>8. Progress(state) <= Progress(StateOf(catalogue[v]))
    BY <2>5 DEF state
  <2> QED BY <2>1, <2>2, <2>3, <2>4, <2>5, <2>6, <2>7, <2>8, TtlAssumption, ShowKeeps
<1> QED BY <1>3, <1>5, <1>6, <1>7 DEF Resolve

\* A step that is not a request keeps quiet.
LEMMA QuietlyKeeps ==
    ASSUME Quietly
    PROVE  ReadyWasActive' /\ SwitchedOffIsSilent'
           /\ answer' \in [vid : Voiceprints, said : ProfileStates \cup Failures \cup {"nothing"}]
BY DEF Quietly, Silence, ReadyWasActive, SwitchedOffIsSilent, Ready, Voiceprints

\* Time passes.
LEMMA TickKeeps ==
    ASSUME ProfileInv, Tick
    PROVE  Keeps
<1>1. UNCHANGED <<catalogue, enabled, loaded, health, shown>> /\ Quietly
  BY DEF Tick, settings
<1>2. \A n \in 0 .. TooOld(ProfileTtl) : Older(n, ProfileTtl) \in 0 .. TooOld(ProfileTtl)
  BY TtlAssumption DEF Older, TooOld
<1>3. \A n \in 0 .. TooOld(DiscoveryTtl) : Older(n, DiscoveryTtl) \in 0 .. TooOld(DiscoveryTtl)
  BY TtlAssumption DEF Older, TooOld
<1>4. /\ profiles \in Seq(Entry)
      /\ Len(profiles) \in Nat
      /\ DOMAIN profiles = 1 .. Len(profiles)
      /\ \A i \in DOMAIN profiles : profiles[i] \in Entry
  BY CacheType DEF ProfileInv, GoodCache
<1>5. /\ DOMAIN profiles' = DOMAIN profiles
      /\ \A i \in DOMAIN profiles :
            /\ profiles'[i] \in Entry
            /\ profiles'[i].vid = profiles[i].vid
            /\ profiles'[i].state = profiles[i].state
            /\ profiles'[i].age = Older(profiles[i].age, ProfileTtl)
  <2>1. profiles' = [i \in DOMAIN profiles |->
                        [profiles[i] EXCEPT !.age = Older(profiles[i].age, ProfileTtl)]]
    BY <1>4 DEF Tick, Entry
  <2>2. \A e \in Entry :
            /\ [e EXCEPT !.age = Older(e.age, ProfileTtl)] \in Entry
            /\ [e EXCEPT !.age = Older(e.age, ProfileTtl)].vid = e.vid
            /\ [e EXCEPT !.age = Older(e.age, ProfileTtl)].state = e.state
            /\ [e EXCEPT !.age = Older(e.age, ProfileTtl)].age = Older(e.age, ProfileTtl)
    BY <1>2 DEF Entry
  <2> QED BY <1>4, <2>1, <2>2
<1>6. profiles' \in Seq(Entry) /\ Len(profiles') = Len(profiles)
  <2>1. profiles' \in [1 .. Len(profiles) -> Entry]
    BY <1>4, <1>5 DEF Tick
  <2>2. profiles' \in Seq(Entry)
    BY <1>4, <2>1, SeqDef
  <2>3. Len(profiles') \in Nat /\ 1 .. Len(profiles') = 1 .. Len(profiles)
    BY <1>4, <1>5, <2>2, LenProperties
  <2> QED BY <1>4, <2>2, <2>3
<1>7. /\ lastActive' \in [Vids -> 0 .. TooOld(ProfileTtl)]
      /\ \A v \in Vids : lastActive'[v] = IF Active(catalogue, v) THEN 0
                                          ELSE Older(lastActive[v], ProfileTtl)
  BY <1>2, TtlAssumption DEF Tick, ProfileInv, ProfileTypeOK, TooOld
<1>8. /\ discovered' \in {None} \cup [capable : BOOLEAN, age : 0 .. TooOld(DiscoveryTtl)]
      /\ discovered' # None => discovered # None /\ discovered'.capable = discovered.capable
  BY <1>3 DEF Tick, ProfileInv, ProfileTypeOK
<1>9. ProfileTypeOK'
  BY <1>1, <1>5, <1>6, <1>7, <1>8, QuietlyKeeps DEF ProfileInv, ProfileTypeOK, Entry
<1>10. LivesForward' /\ ShownIsTrue'
  BY <1>1 DEF ProfileInv, LivesForward, ShownIsTrue
<1>11. ActiveIsNow'
  BY <1>1, <1>7 DEF ActiveIsNow
<1>12. CachesMatchSettings'
  BY <1>1, <1>4, <1>6, <1>8, EmptySeq DEF ProfileInv, CachesMatchSettings
<1>13. EntriesAreTruthful'
  <2> SUFFICES ASSUME NEW i \in DOMAIN profiles
               PROVE  Truthful(profiles[i])'
    BY <1>5 DEF EntriesAreTruthful
  <2>1. Truthful(profiles[i])
    BY DEF ProfileInv, EntriesAreTruthful
  <2>2. profiles[i].vid \in Vids /\ profiles[i].age \in 0 .. TooOld(ProfileTtl)
    BY <1>4 DEF Entry
  <2>3. lastActive[profiles[i].vid] \in 0 .. TooOld(ProfileTtl)
    BY <2>2 DEF ProfileInv, ProfileTypeOK
  <2>4. \A m, n \in 0 .. TooOld(ProfileTtl) : m <= n =>
            /\ Older(m, ProfileTtl) <= Older(n, ProfileTtl)
            /\ 0 <= Older(n, ProfileTtl)
    BY TtlAssumption DEF Older, TooOld
  <2>5. Ready(profiles[i].state) => lastActive'[profiles[i].vid] <= profiles'[i].age
    BY <1>5, <1>7, <2>1, <2>2, <2>3, <2>4 DEF Truthful
  <2> QED BY <1>1, <1>5, <2>1, <2>5 DEF Truthful
<1>14. \A v \in Vids : shown'[v] >= shown[v]
  BY <1>1, ShownType DEF ProfileInv
<1> QED BY <1>1, <1>9, <1>10, <1>11, <1>12, <1>13, <1>14, QuietlyKeeps DEF Keeps, ProfileInv

\* An operation writes a record.
LEMMA CatalogueChangesKeeps ==
    ASSUME ProfileInv, CatalogueChanges
    PROVE  Keeps
<1>1. UNCHANGED <<enabled, loaded, health, discovered, profiles, shown>> /\ Quietly
  BY DEF CatalogueChanges, Write, caches
<1>2. /\ catalogue' \in Registry
      /\ LivesForward'
      /\ \A v \in Vids : Present(catalogue, v) =>
            /\ Present(catalogue', v)
            /\ Progress(StateOf(catalogue[v])) <= Progress(StateOf(catalogue'[v]))
  BY WritesMoveOnward DEF CatalogueChanges, ProfileInv, ProfileTypeOK
<1>3. /\ lastActive' \in [Vids -> 0 .. TooOld(ProfileTtl)]
      /\ \A v \in Vids : /\ lastActive'[v] <= lastActive[v]
                         /\ Active(catalogue', v) => lastActive'[v] = 0
  BY TtlAssumption DEF CatalogueChanges, Aged, ProfileInv, ProfileTypeOK, TooOld
<1>4. ProfileTypeOK'
  BY <1>1, <1>2, <1>3, QuietlyKeeps DEF ProfileInv, ProfileTypeOK
<1>5. ActiveIsNow' /\ CachesMatchSettings'
  BY <1>1, <1>3 DEF ProfileInv, ActiveIsNow, CachesMatchSettings
<1>6. EntriesAreTruthful'
  <2> SUFFICES ASSUME NEW i \in DOMAIN profiles
               PROVE  Truthful(profiles[i])'
    BY <1>1 DEF EntriesAreTruthful
  <2>1. Truthful(profiles[i])
    BY DEF ProfileInv, EntriesAreTruthful
  <2>2. profiles[i] \in Entry
    BY CacheType DEF ProfileInv
  <2>3. profiles[i].vid \in Vids /\ profiles[i].age \in Nat
    BY <2>2, TtlAssumption DEF Entry, TooOld
  <2>4. lastActive[profiles[i].vid] \in Nat /\ lastActive'[profiles[i].vid] \in Nat
    BY <1>3, <2>3, TtlAssumption DEF ProfileInv, ProfileTypeOK, TooOld
  <2>5. Ready(profiles[i].state) => lastActive'[profiles[i].vid] <= profiles[i].age
    BY <1>3, <2>1, <2>3, <2>4 DEF Truthful
  <2>6. /\ Present(catalogue', profiles[i].vid)
        /\ Progress(profiles[i].state) <= Progress(StateOf(catalogue'[profiles[i].vid]))
    BY <1>2, <2>1, <2>3, ProgressType DEF Truthful
  <2> QED BY <1>1, <2>1, <2>5, <2>6 DEF Truthful
<1>7. ShownIsTrue'
  <2> SUFFICES ASSUME NEW v \in Vids
               PROVE  shown[v] <= (IF Present(catalogue', v)
                                   THEN Progress(StateOf(catalogue'[v])) ELSE 0)
    BY <1>1 DEF ShownIsTrue
  <2>1. shown[v] \in Nat
    BY DEF ProfileInv, ProfileTypeOK
  <2>2. shown[v] <= (IF Present(catalogue, v) THEN Progress(StateOf(catalogue[v])) ELSE 0)
    BY DEF ProfileInv, ShownIsTrue
  <2> QED BY <1>2, <2>1, <2>2, ProgressType
<1>8. \A v \in Vids : shown'[v] >= shown[v]
  BY <1>1, ShownType DEF ProfileInv
<1> QED BY <1>1, <1>2, <1>4, <1>5, <1>6, <1>7, <1>8, QuietlyKeeps DEF Keeps, ProfileInv

\* The entry is set up: the caches begin empty.
LEMMA LoadKeeps ==
    ASSUME ProfileInv, NEW service \in BOOLEAN, Load(service)
    PROVE  Keeps
<1>1. /\ UNCHANGED <<catalogue, lastActive, shown>> /\ Quietly /\ profiles' = <<>>
      /\ ~loaded /\ loaded' = TRUE /\ enabled' = service
      /\ discovered' = [capable |-> service, age |-> 0]
      /\ health' = IF service THEN "healthy" ELSE "degraded"
  BY DEF Load, SetUp, history, Capable
<1>2. /\ profiles' \in Seq([vid : Vids, state : ProfileStates, age : 0 .. TooOld(ProfileTtl)])
      /\ Len(profiles') <= CacheSize
      /\ DOMAIN profiles' = {}
  BY <1>1, EmptySeq, CacheSizeAssumption
<1>3. 0 \in 0 .. TooOld(DiscoveryTtl)
  BY TtlAssumption DEF TooOld
<1>4. discovered' \in [capable : BOOLEAN, age : 0 .. TooOld(DiscoveryTtl)]
  <2>1. [capable |-> service, age |-> 0] \in [capable : BOOLEAN, age : 0 .. TooOld(DiscoveryTtl)]
    BY <1>3, Zenon
  <2> QED BY <1>1, <2>1, Zenon
<1>5. enabled' \in BOOLEAN /\ loaded' \in BOOLEAN
  BY <1>1, Zenon
<1>6. ProfileTypeOK'
  BY <1>1, <1>2, <1>4, <1>5, QuietlyKeeps DEF ProfileInv, ProfileTypeOK
<1>7. LivesForward' /\ ActiveIsNow' /\ ShownIsTrue' /\ EntriesAreTruthful'
  BY <1>1, <1>2 DEF ProfileInv, LivesForward, ActiveIsNow, ShownIsTrue, EntriesAreTruthful
<1>8. CachesMatchSettings'
  BY <1>1 DEF CachesMatchSettings
<1> QED BY <1>1, <1>6, <1>7, <1>8, QuietlyKeeps DEF Keeps, ProfileInv

\* What is left when the integration goes down is a registry in which nothing is
\* further along its life than the lifecycle allows.
LEMMA StopLeavesRegistry ==
    ASSUME catalogue \in Registry, Stop(Withdrawals)
    PROVE  catalogue' \in Registry /\ LivesForward'
<1>1. ASSUME NEW v \in Vids
      PROVE  /\ catalogue'[v] \in Record
             /\ catalogue'[v].state # "inactive"
             /\ catalogue'[v].next # None => catalogue'[v].state \in {"superseded", "deleted"}
  <2>1. catalogue'[v] \in Past(catalogue[v], Withdrawals)
    BY DEF Stop
  <2>2. catalogue[v] \in Record
    BY DEF Registry
  <2>3. CASE catalogue'[v] = Absent
    BY <2>3 DEF Absent, Record
  <2>4. CASE catalogue'[v] # Absent
    BY <2>1, <2>2, <2>4, WithdrawalsAssumption DEF Past, Earlier, Record, LifecycleStates
  <2> QED BY <2>3, <2>4
<1>2. catalogue' = [v \in Vids |-> catalogue'[v]]
  BY DEF Stop
<1> QED BY <1>1, <1>2 DEF Registry, LivesForward

\* The entry is unloaded, or the process dies: nothing is left of the instance but
\* an older registry, maybe, and the settings.
LEMMA UnloadKeeps ==
    ASSUME ProfileInv, Unload
    PROVE  Keeps
<1>1. /\ Quietly /\ profiles' = <<>> /\ discovered' = None
      /\ loaded /\ loaded' = FALSE /\ enabled' = enabled /\ health' = "unavailable"
      /\ shown' = [v \in Vids |-> 0] /\ lastActive' = Aged
  BY DEF Unload, Stop
<1>2. /\ profiles' \in Seq([vid : Vids, state : ProfileStates, age : 0 .. TooOld(ProfileTtl)])
      /\ Len(profiles') <= CacheSize
      /\ DOMAIN profiles' = {}
  BY <1>1, EmptySeq, CacheSizeAssumption
<1>3. catalogue' \in Registry /\ LivesForward'
  BY StopLeavesRegistry DEF Unload, ProfileInv, ProfileTypeOK
<1>4. /\ lastActive' \in [Vids -> 0 .. TooOld(ProfileTtl)]
      /\ \A v \in Vids : Active(catalogue', v) => lastActive'[v] = 0
  BY <1>1, TtlAssumption DEF Aged, ProfileInv, ProfileTypeOK, TooOld
<1>5. ProfileTypeOK'
  <2>1. \A i, j \in DOMAIN profiles' : profiles'[i].vid = profiles'[j].vid => i = j
    BY <1>2
  <2>2. shown' \in [Vids -> 0 .. 3]
    BY <1>1
  <2>3. enabled' \in BOOLEAN /\ loaded' \in BOOLEAN
    BY <1>1 DEF ProfileInv, ProfileTypeOK
  <2>4. answer' \in [vid : Voiceprints, said : ProfileStates \cup Failures \cup {"nothing"}]
    BY <1>1, QuietlyKeeps
  <2> QED BY <1>1, <1>2, <1>3, <1>4, <2>1, <2>2, <2>3, <2>4 DEF ProfileTypeOK
<1>6. ActiveIsNow' /\ EntriesAreTruthful'
  BY <1>2, <1>4 DEF ActiveIsNow, EntriesAreTruthful
<1>7. ShownIsTrue'
  BY <1>1, ProgressType DEF ShownIsTrue
<1>8. CachesMatchSettings'
  BY <1>1 DEF CachesMatchSettings
<1> QED BY <1>1, <1>3, <1>5, <1>6, <1>7, <1>8, QuietlyKeeps DEF Keeps, ProfileInv

--------------------------------------------------------------------------------

\* Every step keeps the invariant, and an instance takes back nothing it has shown.
LEMMA ProfileStep ==
    ASSUME ProfileInv, [ProfileNext]_profileVars
    PROVE  Keeps
<1>1. CASE UNCHANGED profileVars
  <2>1. UNCHANGED <<catalogue, enabled, loaded, health, discovered, profiles, answer,
                    lastActive, shown>>
    BY <1>1 DEF profileVars, settings, caches, history
  <2>2. ProfileInv'
    BY <2>1 DEF ProfileInv, ProfileTypeOK, LivesForward, ActiveIsNow, CachesMatchSettings,
                EntriesAreTruthful, Truthful, ShownIsTrue, ReadyWasActive, SwitchedOffIsSilent
  <2> QED BY <2>1, <2>2, ShownType DEF Keeps, ProfileInv
<1> QED BY <1>1, ResolveKeeps, TickKeeps, CatalogueChangesKeeps, LoadKeeps, UnloadKeeps
        DEF ProfileNext

LEMMA ProfileStart ==
    ASSUME ProfileInit
    PROVE  ProfileInv
<1>1. EmptyRegistry \in Registry /\ \A v \in Vids : EmptyRegistry[v] = Absent
  BY DEF EmptyRegistry, Registry, Absent, Record
<1>2. /\ profiles \in Seq([vid : Vids, state : ProfileStates, age : 0 .. TooOld(ProfileTtl)])
      /\ Len(profiles) <= CacheSize
      /\ DOMAIN profiles = {}
  BY EmptySeq, CacheSizeAssumption DEF ProfileInit
<1>3. ProfileTypeOK
  <2>1. lastActive \in [Vids -> 0 .. TooOld(ProfileTtl)] /\ shown \in [Vids -> 0 .. 3]
    BY TtlAssumption DEF ProfileInit, TooOld
  <2>2. answer \in [vid : Voiceprints, said : ProfileStates \cup Failures \cup {"nothing"}]
    BY DEF ProfileInit, Silence, Voiceprints
  <2> QED BY <1>1, <1>2, <2>1, <2>2 DEF ProfileInit, CatalogueInit, ProfileTypeOK
<1>4. LivesForward /\ ActiveIsNow
  BY <1>1 DEF ProfileInit, CatalogueInit, LivesForward, ActiveIsNow, Active, Absent
<1>5. CachesMatchSettings /\ EntriesAreTruthful
  BY <1>2 DEF ProfileInit, CatalogueInit, CachesMatchSettings, EntriesAreTruthful
<1>6. ShownIsTrue /\ ReadyWasActive /\ SwitchedOffIsSilent
  BY <1>1 DEF ProfileInit, CatalogueInit, ShownIsTrue, ReadyWasActive, SwitchedOffIsSilent,
              Silence, Ready, Present, Absent
<1> QED BY <1>3, <1>4, <1>5, <1>6 DEF ProfileInv

\* The invariant of the profile integration, for every set of voiceprints, every
\* time to live and every size of the cache.
THEOREM ProfileInvariantHolds == ProfileSpec => []ProfileInv
<1>1. ProfileInit => ProfileInv
  BY ProfileStart
<1>2. ProfileInv /\ [ProfileNext]_profileVars => ProfileInv'
  BY ProfileStep DEF Keeps
<1> QED BY <1>1, <1>2, PTL DEF ProfileSpec

\* The caches are never larger than they may be, and hold one entry a voiceprint.
THEOREM ProfileTypeCorrect == ProfileSpec => []ProfileTypeOK
<1>1. ProfileInv => ProfileTypeOK
  BY DEF ProfileInv
<1> QED BY <1>1, ProfileInvariantHolds, PTL

\* A voiceprint that is told to be READY was the active one within the cache's time
\* to live, whatever the time to live, the size of the cache and the evictions.
THEOREM ReadyMeansRecentlyActive == ProfileSpec => []ReadyWasActive
<1>1. ProfileInv => ReadyWasActive
  BY DEF ProfileInv
<1> QED BY <1>1, ProfileInvariantHolds, PTL

\* A service that is switched off tells of no READY voiceprint, although the cache
\* is asked before the capability.
THEOREM SilentWhenSwitchedOff == ProfileSpec => []SwitchedOffIsSilent
<1>1. ProfileInv => SwitchedOffIsSilent
  BY DEF ProfileInv
<1> QED BY <1>1, ProfileInvariantHolds, PTL

\* As long as an instance is set up, what it tells of a voiceprint never goes back
\* along its life, whatever is written meanwhile and whichever cache answers.
THEOREM ToldOnlyOnward == ProfileSpec => AnswersNeverGoBack
<1>1. ProfileInv /\ [ProfileNext]_profileVars
        => [loaded /\ loaded' => \A v \in Vids : shown'[v] >= shown[v]]_profileVars
  BY ProfileStep DEF Keeps
<1> QED BY <1>1, ProfileInvariantHolds, PTL DEF ProfileSpec, AnswersNeverGoBack

--------------------------------------------------------------------------------

\* What may be left when some withdrawals are made may be left when all are.
LEMMA StopAllowsMore ==
    ASSUME Stop(Withdrawals)
    PROVE  Stop(AllWithdrawals)
<1> DEFINE past == [v \in Vids |-> Past(catalogue[v], AllWithdrawals)]
<1>1. /\ \A v \in Vids : catalogue'[v] \in Past(catalogue[v], Withdrawals)
      /\ catalogue' = [v \in Vids |-> catalogue'[v]]
      /\ ParentsPresent(catalogue') /\ SuccessorsPresent(catalogue')
      /\ OneActivePerLineage(catalogue')
  BY DEF Stop
<1>2. \A now : Past(now, Withdrawals) \subseteq Past(now, AllWithdrawals)
  BY WithdrawalsAssumption DEF Past, AllWithdrawals
<1>3. \A v \in Vids : catalogue'[v] \in past[v]
  BY <1>1, <1>2
<1> HIDE DEF past
<1>4. catalogue' \in [Vids -> UNION {past[v] : v \in Vids}]
  BY <1>1, <1>3
<1>5. past \in {[v \in Vids |-> Past(catalogue[v], AllWithdrawals)]}
  BY DEF past
<1> QED BY <1>1, <1>3, <1>4, <1>5 DEF Stop

\* The Concierge reads the catalogue that the operations implement: asking changes no
\* record, nor do the caches, and no more is lost when the entry is unloaded than the
\* catalogue may lose.
THEOREM ConciergeReadsTheCatalogue == ProfileSpec => CatalogueSpec
<1>1. ProfileInit => CatalogueInit
  BY DEF ProfileInit
<1>2. ASSUME [ProfileNext]_profileVars
      PROVE  [CatalogueNext]_catalogueVars
  <2>1. ASSUME NEW r \in Request, Resolve(r)
        PROVE  UNCHANGED catalogueVars
    BY <2>1
       DEF Resolve, ResolveNotLoaded, ResolveIncompatible, ResolveCached, ResolveUnavailable,
           ResolveNotEnrolled, ResolveFails, ResolveFresh, Refuse, Show, settings, catalogueVars
  <2>2. CASE Tick
    BY <2>2 DEF Tick, settings, catalogueVars
  <2>3. CASE CatalogueChanges
    <3>1. Write(AllWithdrawals)
      BY <2>3, WithdrawalsAssumption DEF CatalogueChanges, Write, AllWithdrawals
    <3> QED BY <3>1 DEF CatalogueNext
  <2>4. ASSUME NEW service \in BOOLEAN, Load(service)
        PROVE  SetUp
    BY <2>4 DEF Load
  <2>5. CASE Unload
    BY <2>5, StopAllowsMore DEF Unload, CatalogueNext
  <2>6. CASE UNCHANGED profileVars
    BY <2>6 DEF profileVars, settings, catalogueVars
  <2> QED BY <1>2, <2>1, <2>2, <2>3, <2>4, <2>5, <2>6 DEF ProfileNext, CatalogueNext
<1> QED BY <1>1, <1>2, PTL DEF ProfileSpec, CatalogueSpec

================================================================================
