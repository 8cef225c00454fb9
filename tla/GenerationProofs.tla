--------------------------- MODULE GenerationProofs ---------------------------
(***************************************************************************)
(* The orchestrator's properties, for any number of ids and runs.          *)
(***************************************************************************)
EXTENDS GenerationOrchestrator, TLAPS

(***************************************************************************)
(* The inductive invariant: what a run may count on.                       *)
(***************************************************************************)

\* A request to cancel that a run can see was made while it ran.
RequestsAreFresh ==
    \A r \in Runs :
        (InFlight(r) /\ IsCancelled(r)) => run[r].asked

\* A run that is alone has no other one beside it.
AloneIsAlone ==
    \A r, q \in Runs :
        /\ InFlight(r) /\ run[r].own /\ run[r].alone
        /\ InFlight(q) /\ run[q].own /\ run[q].gen = run[r].gen
        => q = r

\* The history of a run that is alone stands where the run does.
AloneInStep ==
    \A r \in Runs :
        (InFlight(r) /\ run[r].own /\ run[r].alone) =>
            /\ history[run[r].gen] # <<>>
            /\ Last(history[run[r].gen]) = Stages[run[r].stage]

\* A run in flight has a generation id.
RunsHaveIds == \A r \in Runs : InFlight(r) => run[r].gen \in Gens

RunInvariant ==
    /\ TypeOK
    /\ RunsHaveIds
    /\ NoAbandonedHistory
    /\ RequestsAreFresh
    /\ AloneIsAlone
    /\ AloneInStep
--------------------------------------------------------------------------------

LEMMA StageNames ==
    /\ Len(Stages) = 5
    /\ Stages[1] = "validating"
    /\ Stages[2] = "quality_scoring"
    /\ Stages[3] = "generating"
    /\ Stages[4] = "persisting"
    /\ Stages[5] = "validating_integrity"
    /\ \A i \in 1 .. 5 : Stages[i] \in Status \ Terminal
  <1>1. /\ Len(Stages) = 5
        /\ DOMAIN Stages = 1 .. 5
        /\ Stages[1] = "validating"
        /\ Stages[2] = "quality_scoring"
        /\ Stages[3] = "generating"
        /\ Stages[4] = "persisting"
        /\ Stages[5] = "validating_integrity"
    BY DEF Stages
  <1>2. \A i \in 1 .. 5 : Stages[i] \in Range(Stages)
    BY <1>1 DEF Range
  <1>3. \A i \in 1 .. 5 : i = 1 \/ i = 2 \/ i = 3 \/ i = 4 \/ i = 5
    OBVIOUS
  <1>4. \A i \in 1 .. 5 : Stages[i] \notin Terminal
    BY <1>1, <1>3 DEF Terminal
  <1> QED
    BY <1>1, <1>2, <1>4 DEF Status

\* Every status but the terminal ones may be followed by a failure and by a
\* cancellation, the terminal ones by nothing.
LEMMA TransitionsOf ==
    ASSUME NEW s \in Status
    PROVE  /\ AllowedTransitions[s] \subseteq Status
           /\ s \in Terminal => AllowedTransitions[s] = {}
           /\ s \notin Terminal => {"cancelled", "failed"} \subseteq AllowedTransitions[s]
  <1>1. Terminal \subseteq Status
    BY DEF Status
  <1>2. \A t \in Status \ Terminal : t = "queued" \/ \E i \in 1 .. 5 : t = Stages[i]
    BY DEF Status, Range, Stages
  <1>3. {"queued", "validating", "quality_scoring", "generating", "persisting",
         "validating_integrity", "completed", "failed", "cancelled"} \subseteq Status
    <2>1. \A i \in 1 .. 5 : Stages[i] \in Status
      BY StageNames
    <2> QED
      BY <2>1, StageNames DEF Status, Terminal
  <1>4. CASE s \in Terminal
    BY <1>4 DEF AllowedTransitions, Terminal
  <1>5. CASE s = "queued"
    BY <1>3, <1>5 DEF AllowedTransitions, Terminal
  <1>6. CASE s \in {"validating", "quality_scoring", "generating", "persisting",
                    "validating_integrity"}
    BY <1>3, <1>6 DEF AllowedTransitions, Terminal
  <1> QED
    <2>1. \A i \in 1 .. 5 : i = 1 \/ i = 2 \/ i = 3 \/ i = 4 \/ i = 5
      OBVIOUS
    <2> QED
      BY <1>2, <1>4, <1>5, <1>6, <2>1, StageNames

\* What _transition does to a history that accepts the status.
LEMMA AcceptedStatus ==
    ASSUME NEW h \in Seq(Status), NEW s \in Status, Accepts(h, s)
    PROVE  /\ Recorded(h, s) \in Seq(Status)
           /\ Recorded(h, s) # <<>>
           /\ Last(Recorded(h, s)) = s
           /\ Last(h) \in Terminal => Recorded(h, s) = h
  <1>1. h # <<>> /\ Last(h) \in Status
    BY DEF Accepts, Last
  <1>2. CASE Last(h) = s
    BY <1>1, <1>2 DEF Recorded
  <1>3. CASE Last(h) # s
    <2>1. s \in AllowedTransitions[Last(h)]
      BY <1>3 DEF Accepts
    <2>2. Last(h) \notin Terminal
      BY <1>1, <2>1, TransitionsOf
    <2>3. Recorded(h, s) = Append(h, s)
      BY <1>3 DEF Recorded
    <2>4. /\ Append(h, s) \in Seq(Status)
          /\ Len(Append(h, s)) = Len(h) + 1
          /\ Append(h, s)[Len(h) + 1] = s
      OBVIOUS
    <2>5. Append(h, s) # <<>>
      BY <2>4
    <2> QED
      BY <2>2, <2>3, <2>4, <2>5 DEF Last
  <1> QED
    BY <1>2, <1>3

\* A history refuses a failure or a cancellation only when it is gone or final.
LEMMA RefusedStatus ==
    ASSUME NEW h \in Seq(Status), NEW s \in {"failed", "cancelled"}, ~Accepts(h, s)
    PROVE  h = <<>> \/ Last(h) \in Terminal
  <1> SUFFICES ASSUME h # <<>>
               PROVE  Last(h) \in Terminal
    OBVIOUS
  <1>1. Last(h) \in Status
    BY DEF Last
  <1> QED
    BY <1>1, TransitionsOf DEF Accepts
--------------------------------------------------------------------------------

\* What every step of a run in flight does, in terms of the history h and the run
\* x it leaves: the run is refused and raises, or it ends with a terminal status,
\* or it enters the next stage.
Advances(r, h, x) ==
    LET g == run[r].gen IN
    /\ h \in Seq(Status)
    /\ x \in Run /\ x.gen = g /\ x.own = run[r].own
    /\ history' = [history EXCEPT ![g] = h]
    /\ run' = [run EXCEPT ![r] = x]
    /\ UNCHANGED <<cancelled, loaded>>
    /\ (history[g] # <<>> /\ Last(history[g]) \in Terminal) => h = history[g]
    /\ \/ /\ h = history[g]
          /\ ~run[r].own \/ h = <<>> \/ Last(h) \in Terminal
          /\ x.stage = 0 /\ x.ended = "raised"
       \/ /\ run[r].own /\ h # <<>>
          /\ Last(h) \in Terminal
          /\ x.stage = 0 /\ x.ended = Last(h)
          /\ Last(h) = "cancelled" => IsCancelled(r)
       \/ /\ run[r].own /\ h # <<>>
          /\ run[r].stage \in 1 .. 4
          /\ Last(h) = Stages[run[r].stage + 1]
          /\ x = [run[r] EXCEPT !.stage = @ + 1]

\* The record of a call that is over.
LEMMA OverIsRun ==
    ASSUME NEW g \in Gens \cup {None}, NEW own \in BOOLEAN,
           NEW o \in Terminal \cup {"raised", "none"}
    PROVE  /\ Over(g, own, o) \in Run
           /\ Over(g, own, o).gen = g
           /\ Over(g, own, o).stage = 0
           /\ Over(g, own, o).own = own
           /\ Over(g, own, o).ended = o
  <1>1. 0 \in 0 .. Len(Stages)
    BY StageNames
  <1>2. Over(g, own, o) \in Run
    BY <1>1, Zenon DEF Over, Begun, Run
  <1> QED
    BY <1>2 DEF Over, Begun

LEMMA NoRunIsRun == NoRun \in Run /\ NoRun.stage = 0
  <1>1. 0 \in 0 .. Len(Stages)
    BY StageNames
  <1>2. NoRun \in Run
    BY <1>1, Zenon DEF NoRun, Over, Run
  <1> QED
    BY <1>2 DEF NoRun, Over

\* The record of a call that begins.
LEMMA BegunIsRun ==
    ASSUME NEW g \in Gens, NEW stage \in 0 .. Len(Stages), NEW alone \in BOOLEAN,
           NEW o \in Terminal \cup {"raised", "none"}
    PROVE  /\ Begun(g, stage, alone, o) \in Run
           /\ Begun(g, stage, alone, o).gen = g
           /\ Begun(g, stage, alone, o).stage = stage
           /\ Begun(g, stage, alone, o).own
           /\ Begun(g, stage, alone, o).alone = alone
  <1>1. g \in Gens \cup {None}
    OBVIOUS
  <1>2. Begun(g, stage, alone, o) \in Run
    BY <1>1, Zenon DEF Over, Begun, Run
  <1> QED
    BY <1>2, Zenon DEF Over, Begun

LEMMA EndingAdvances ==
    ASSUME TypeOK, RunsHaveIds, NEW r \in Runs, InFlight(r),
           NEW s \in {"failed", "cancelled"}, EndWith(r, s),
           s = "cancelled" => IsCancelled(r)
    PROVE  \E h, x : Advances(r, h, x)
  <1> DEFINE g == run[r].gen
             ends(o) == Over(g, run[r].own, o)
  <1>1. /\ g \in Gens
        /\ run[r] \in Run
        /\ history[g] \in Seq(Status)
        /\ s \in Status /\ s \in Terminal
    BY DEF TypeOK, RunsHaveIds, Status, Terminal
  <1>2. /\ ends(s) \in Run /\ ends(s).stage = 0 /\ ends(s).ended = s
        /\ ends(s).gen = g /\ ends(s).own = run[r].own
        /\ ends("raised") \in Run /\ ends("raised").stage = 0
        /\ ends("raised").ended = "raised"
        /\ ends("raised").gen = g /\ ends("raised").own = run[r].own
    <2>1. run[r].own \in BOOLEAN
      BY <1>1 DEF Run
    <2> QED
      BY <1>1, <2>1, OverIsRun
  <1>3. CASE Accepts(HistoryOf(r), s)
    <2>1. run[r].own /\ HistoryOf(r) = history[g]
      BY <1>3 DEF HistoryOf, Accepts
    <2>2. /\ history' = [history EXCEPT ![g] = Recorded(history[g], s)]
          /\ run' = [run EXCEPT ![r] = ends(s)]
          /\ UNCHANGED <<cancelled, loaded>>
      BY <1>3 DEF EndWith, Return
    <2>3. /\ Recorded(history[g], s) \in Seq(Status)
          /\ Recorded(history[g], s) # <<>>
          /\ Last(Recorded(history[g], s)) = s
          /\ Last(history[g]) \in Terminal => Recorded(history[g], s) = history[g]
      BY <1>1, <1>3, <2>1, AcceptedStatus
    <2> HIDE DEF ends
    <2>4. Advances(r, Recorded(history[g], s), ends(s))
      BY <1>1, <1>2, <2>1, <2>2, <2>3 DEF Advances
    <2> QED
      BY <2>4
  <1>4. CASE ~Accepts(HistoryOf(r), s)
    <2>1. /\ history' = [history EXCEPT ![g] = history[g]]
          /\ run' = [run EXCEPT ![r] = ends("raised")]
          /\ UNCHANGED <<cancelled, loaded>>
      <3>1. history = [history EXCEPT ![g] = history[g]]
        BY <1>1 DEF TypeOK
      <3> QED
        BY <1>4, <3>1 DEF EndWith, Return
    <2>2. ~run[r].own \/ history[g] = <<>> \/ Last(history[g]) \in Terminal
      BY <1>1, <1>4, RefusedStatus DEF HistoryOf
    <2> HIDE DEF ends
    <2>3. Advances(r, history[g], ends("raised"))
      BY <1>1, <1>2, <2>1, <2>2 DEF Advances
    <2> QED
      BY <2>3
  <1> QED
    BY <1>3, <1>4

LEMMA StepAdvances ==
    ASSUME TypeOK, RunsHaveIds, NEW r \in Runs, Step(r) \/ Timeout(r)
    PROVE  InFlight(r) /\ \E h, x : Advances(r, h, x)
  <1> DEFINE g == run[r].gen
  <1>1. CASE StageFails(r) \/ StageOutOfOrder(r) \/ Timeout(r)
    <2>1. InFlight(r) /\ EndWith(r, "failed")
      BY <1>1 DEF StageFails, StageOutOfOrder, Timeout
    <2> QED
      BY <2>1, EndingAdvances
  <1>2. CASE StageCancelled(r)
    <2>1. InFlight(r) /\ EndWith(r, "cancelled") /\ IsCancelled(r)
      BY <1>2 DEF StageCancelled
    <2> QED
      BY <2>1, EndingAdvances
  <1>3. CASE StagePasses(r)
    <2> DEFINE next == Stages[run[r].stage + 1]
               x == [run[r] EXCEPT !.stage = @ + 1]
    <2>1. /\ g \in Gens
          /\ run[r] \in Run
          /\ history[g] \in Seq(Status)
          /\ InFlight(r)
      BY <1>3 DEF StagePasses, TypeOK, RunsHaveIds
    <2>2. /\ run[r].stage \in 1 .. 4
          /\ next \in Status
      BY <1>3, <2>1, StageNames DEF StagePasses, InFlight, Run
    <2>3. run[r].own /\ HistoryOf(r) = history[g] /\ Accepts(history[g], next)
      BY <1>3 DEF StagePasses, HistoryOf, Accepts
    <2>4. /\ history' = [history EXCEPT ![g] = Recorded(history[g], next)]
          /\ run' = [run EXCEPT ![r] = x]
          /\ UNCHANGED <<cancelled, loaded>>
      BY <1>3 DEF StagePasses
    <2>5. /\ Recorded(history[g], next) \in Seq(Status)
          /\ Recorded(history[g], next) # <<>>
          /\ Last(Recorded(history[g], next)) = next
          /\ Last(history[g]) \in Terminal => Recorded(history[g], next) = history[g]
      BY <2>1, <2>2, <2>3, AcceptedStatus
    <2>6. x \in Run /\ x.gen = g /\ x.own = run[r].own
      BY <2>1, <2>2, StageNames DEF Run
    <2>7. Advances(r, Recorded(history[g], next), x)
      BY <2>2, <2>3, <2>4, <2>5, <2>6 DEF Advances
    <2> QED
      BY <2>1, <2>7
  <1>4. CASE Complete(r)
    <2> DEFINE x == Over(g, run[r].own, "completed")
    <2>1. InFlight(r) /\ run[r].own /\ HistoryOf(r) = history[g]
          /\ Accepts(history[g], "completed")
      BY <1>4, StageNames DEF Complete, HistoryOf, Accepts, InFlight
    <2>2. /\ g \in Gens
          /\ run[r] \in Run
          /\ history[g] \in Seq(Status)
          /\ "completed" \in Status /\ "completed" \in Terminal
      BY <2>1 DEF TypeOK, RunsHaveIds, Status, Terminal
    <2>3. /\ history' = [history EXCEPT ![g] = Recorded(history[g], "completed")]
          /\ run' = [run EXCEPT ![r] = x]
          /\ UNCHANGED <<cancelled, loaded>>
      BY <1>4 DEF Complete, Return
    <2>4. /\ Recorded(history[g], "completed") \in Seq(Status)
          /\ Recorded(history[g], "completed") # <<>>
          /\ Last(Recorded(history[g], "completed")) = "completed"
          /\ Last(history[g]) \in Terminal
                => Recorded(history[g], "completed") = history[g]
      BY <2>1, <2>2, AcceptedStatus
    <2>5. /\ x \in Run /\ x.stage = 0 /\ x.ended = "completed"
          /\ x.gen = g /\ x.own = run[r].own
      <3>1. run[r].own \in BOOLEAN
        BY <2>2 DEF Run
      <3> QED
        BY <2>2, <3>1, OverIsRun
    <2> HIDE DEF x
    <2>6. Advances(r, Recorded(history[g], "completed"), x)
      BY <2>1, <2>2, <2>3, <2>4, <2>5 DEF Advances
    <2> QED
      BY <2>1, <2>6
  <1> QED
    BY <1>1, <1>2, <1>3, <1>4 DEF Step
--------------------------------------------------------------------------------

LEMMA InitRunInvariant == Init => RunInvariant
  <1> SUFFICES ASSUME Init
               PROVE  RunInvariant
    OBVIOUS
  <1>1. NoRun \in Run /\ NoRun.stage = 0
    BY NoRunIsRun
  <1>2. \A r \in Runs : ~InFlight(r)
    BY <1>1 DEF Init, InFlight
  <1>3. TypeOK
    <2>1. history \in [Gens -> Seq(Status)]
      BY DEF Init
    <2>2. run \in [Runs -> Run]
      BY <1>1 DEF Init
    <2>3. cancelled \subseteq Gens /\ loaded \in BOOLEAN
      BY DEF Init
    <2> QED
      BY <2>1, <2>2, <2>3 DEF TypeOK
  <1>4. NoAbandonedHistory
    BY DEF Init, NoAbandonedHistory
  <1> QED
    BY <1>2, <1>3, <1>4
       DEF RunInvariant, RunsHaveIds, RequestsAreFresh, AloneIsAlone, AloneInStep

Others(r, g) == {q \in Runs \ {r} : InFlight(q) /\ run[q].own /\ run[q].gen = g}

\* What a call that begins does, in terms of the history h and the stage it leaves:
\* it is alone if no other run of its id is there, and no other one stays alone.
Begins(r, g, h, stage) ==
    /\ run[r].stage = 0
    /\ \/ stage = 1 /\ Last(h) = "validating"
       \/ stage = 0 /\ Last(h) = "failed"
    /\ h \in Seq(Status) /\ h # <<>>
    /\ history' = [history EXCEPT ![g] = h]
    /\ cancelled' = cancelled \ {g}
    /\ loaded' = loaded
    /\ run' \in [Runs -> Run]
    /\ run'[r].gen = g /\ run'[r].own /\ run'[r].stage = stage
    /\ run'[r].alone <=> Others(r, g) = {}
    /\ \A q \in Runs \ {r} :
            /\ run'[q].gen = run[q].gen
            /\ run'[q].stage = run[q].stage
            /\ run'[q].asked = run[q].asked
            /\ run'[q].own = run[q].own
            /\ run'[q].alone <=> (run[q].alone /\ q \notin Others(r, g))

LEMMA GenerateBegins ==
    ASSUME RunInvariant, NEW r \in Runs, NEW g \in Gens
    PROVE  /\ Generate(r, g) => \E h : Begins(r, g, h, 1)
           /\ GenerateUnsupported(r, g) => \E h : Begins(r, g, h, 0)
  <1> SUFFICES ASSUME NEW h \in {<<"queued", "validating">>,
                                 <<"queued", "validating", "failed">>},
                      NEW stage \in {0, 1}, NEW ended \in Terminal \cup {"raised", "none"},
                      history' = [history EXCEPT ![g] = h],
                      cancelled' = cancelled \ {g},
                      loaded' = loaded,
                      ~InFlight(r),
                      stage = 1 => Last(h) = "validating",
                      stage = 0 => Last(h) = "failed",
                      Begin(r, g, stage, ended)
               PROVE  Begins(r, g, h, stage)
    <2>1. /\ Last(<<"queued", "validating">>) = "validating"
          /\ Last(<<"queued", "validating", "failed">>) = "failed"
      BY DEF Last
    <2> QED
      BY <2>1 DEF Generate, GenerateUnsupported, Terminal
  <1>1. run[r].stage = 0
    BY DEF InFlight
  <1>2. h \in Seq(Status) /\ h # <<>>
    <2>1. Stages[1] \in Status /\ "validating" = Stages[1]
      BY StageNames
    <2>2. {"queued", "validating", "failed"} \subseteq Status
      BY <2>1 DEF Status, Terminal
    <2>3. CASE h = <<"queued", "validating">>
      BY <2>2, <2>3
    <2>4. CASE h = <<"queued", "validating", "failed">>
      BY <2>2, <2>4
    <2> QED
      BY <2>3, <2>4
  <1>3. /\ run'[r] = Begun(g, stage, Others(r, g) = {}, ended)
        /\ \A q \in Others(r, g) : run'[q] = [run[q] EXCEPT !.alone = FALSE]
        /\ \A q \in Runs \ ({r} \cup Others(r, g)) : run'[q] = run[q]
        /\ run' = [q \in Runs |-> run'[q]]
    BY DEF Begin, Others
  <1>4. /\ run'[r] \in Run
        /\ run'[r].gen = g
        /\ run'[r].stage = stage
        /\ run'[r].own
        /\ run'[r].alone <=> Others(r, g) = {}
    <2>1. stage \in 0 .. Len(Stages)
      BY StageNames
    <2> DEFINE isAlone == Others(r, g) = {}
    <2>2. isAlone \in BOOLEAN /\ run'[r] = Begun(g, stage, isAlone, ended)
      BY <1>3
    <2> HIDE DEF isAlone
    <2> DEFINE x == Begun(g, stage, isAlone, ended)
    <2>3. /\ x \in Run
          /\ x.gen = g
          /\ x.stage = stage
          /\ x.own
          /\ x.alone = isAlone
      BY <2>1, <2>2, BegunIsRun
    <2>4. run'[r] = x
      BY <2>2
    <2> HIDE DEF x
    <2> QED
      BY <2>3, <2>4 DEF isAlone
  <1>5. \A q \in Runs \ {r} :
            /\ run'[q] \in Run
            /\ run'[q].gen = run[q].gen
            /\ run'[q].stage = run[q].stage
            /\ run'[q].asked = run[q].asked
            /\ run'[q].own = run[q].own
            /\ run'[q].alone <=> (run[q].alone /\ q \notin Others(r, g))
    <2> TAKE q \in Runs \ {r}
    <2>1. run[q] \in Run
      BY DEF RunInvariant, TypeOK
    <2>2. CASE q \in Others(r, g)
      <3>1. run'[q] = [run[q] EXCEPT !.alone = FALSE]
        BY <1>3, <2>2
      <3>2. ~run'[q].alone
        BY <2>1, <3>1 DEF Run
      <3>3. /\ run'[q] \in Run
            /\ run'[q].gen = run[q].gen
            /\ run'[q].stage = run[q].stage
            /\ run'[q].asked = run[q].asked
            /\ run'[q].own = run[q].own
        BY <2>1, <3>1 DEF Run
      <3> QED
        BY <2>2, <3>2, <3>3
    <2>3. CASE q \notin Others(r, g)
      <3>1. run'[q] = run[q]
        BY <1>3, <2>3
      <3> QED
        BY <2>1, <2>3, <3>1
    <2> QED
      BY <2>2, <2>3
  <1>6. run' \in [Runs -> Run]
    BY <1>3, <1>4, <1>5
  <1> QED
    BY <1>1, <1>2, <1>4, <1>5, <1>6 DEF Begins

\* A new run of the id: a new history, and it is alone only if no other is there.
LEMMA GenerateKeepsRunInvariant ==
    ASSUME RunInvariant, NEW r \in Runs, NEW g \in Gens,
           Generate(r, g) \/ GenerateUnsupported(r, g)
    PROVE  RunInvariant'
  <1> DEFINE others == Others(r, g)
  <1>1. PICK h, stage : Begins(r, g, h, stage)
    BY GenerateBegins
  <1>2. /\ history' = [history EXCEPT ![g] = h]
        /\ h \in Seq(Status) /\ h # <<>>
        /\ \/ stage = 1 /\ Last(h) = Stages[1]
           \/ stage = 0 /\ Last(h) \in Terminal
    BY <1>1, StageNames DEF Begins, Terminal
  <1>3. /\ loaded' = loaded
        /\ cancelled' = cancelled \ {g}
        /\ run[r].stage = 0
    BY <1>1 DEF Begins
  <1>4. \A q \in Runs \ {r} : q \in others <=> InFlight(q) /\ run[q].own /\ run[q].gen = g
    BY DEF Others
  <1>5. \A q \in Runs \ {r} :
            /\ run'[q].gen = run[q].gen
            /\ run'[q].stage = run[q].stage
            /\ run'[q].asked = run[q].asked
            /\ run'[q].own = run[q].own
            /\ run'[q].alone => run[q].alone /\ q \notin others
    BY <1>1 DEF Begins
  <1>6. /\ run'[r].gen = g
        /\ run'[r].own
        /\ run'[r].stage = stage
        /\ run'[r].alone => others = {}
    BY <1>1 DEF Begins
  <1>7. TypeOK'
    BY <1>1 DEF Begins, RunInvariant, TypeOK
  <1> HIDE DEF others
  <1>8. RunsHaveIds'
    BY <1>5, <1>6 DEF RunInvariant, RunsHaveIds, InFlight
  <1>9. NoAbandonedHistory'
    <2> SUFFICES ASSUME NEW f \in Gens, history'[f] # <<>>, Last(history'[f]) \notin Terminal
                 PROVE  \E q \in Runs : InFlight(q)' /\ run'[q].own /\ run'[q].gen = f
      BY DEF NoAbandonedHistory
    <2>1. CASE f = g
      <3>1. history'[g] = h
        BY <1>2 DEF RunInvariant, TypeOK
      <3> QED
        BY <1>2, <1>6, <2>1, <3>1 DEF InFlight
    <2>2. CASE f # g
      <3>1. history'[f] = history[f]
        BY <1>2, <2>2 DEF RunInvariant, TypeOK
      <3>2. PICK q \in Runs : InFlight(q) /\ run[q].own /\ run[q].gen = f
        BY <3>1 DEF RunInvariant, NoAbandonedHistory
      <3>3. q # r
        BY <1>3, <3>2 DEF InFlight
      <3> QED
        BY <1>5, <3>2, <3>3 DEF InFlight
    <2> QED
      BY <2>1, <2>2
  <1>10. RequestsAreFresh'
    <2> SUFFICES ASSUME NEW q \in Runs, InFlight(q)', IsCancelled(q)'
                 PROVE  run'[q].asked
      BY DEF RequestsAreFresh
    <2>1. q # r
      BY <1>3, <1>6 DEF IsCancelled
    <2> QED
      BY <1>3, <1>5, <2>1 DEF RunInvariant, RequestsAreFresh, InFlight, IsCancelled
  <1>11. AloneIsAlone'
    <2> SUFFICES ASSUME NEW p \in Runs, NEW q \in Runs,
                        InFlight(p)', run'[p].own, run'[p].alone,
                        InFlight(q)', run'[q].own, run'[q].gen = run'[p].gen,
                        p # q
                 PROVE  FALSE
      BY DEF AloneIsAlone
    <2>1. CASE p = r
      BY <1>4, <1>5, <1>6, <2>1 DEF InFlight
    <2>2. CASE q = r
      BY <1>4, <1>5, <1>6, <2>2 DEF InFlight
    <2>3. CASE p # r /\ q # r
      BY <1>5, <2>3 DEF RunInvariant, AloneIsAlone, InFlight
    <2> QED
      BY <2>1, <2>2, <2>3
  <1>12. AloneInStep'
    <2> SUFFICES ASSUME NEW p \in Runs, InFlight(p)', run'[p].own, run'[p].alone
                 PROVE  /\ history'[run'[p].gen] # <<>>
                        /\ Last(history'[run'[p].gen]) = Stages[run'[p].stage]
      BY DEF AloneInStep
    <2>1. CASE p = r
      <3>1. history'[g] = h
        BY <1>2 DEF RunInvariant, TypeOK
      <3> QED
        BY <1>2, <1>6, <2>1, <3>1 DEF InFlight
    <2>2. CASE p # r
      <3>1. p \notin others /\ InFlight(p) /\ run[p].own /\ run[p].alone
        BY <1>5, <2>2 DEF InFlight
      <3>2. run[p].gen # g /\ run[p].gen \in Gens
        BY <1>4, <2>2, <3>1 DEF RunInvariant, RunsHaveIds
      <3>3. history'[run[p].gen] = history[run[p].gen]
        BY <1>2, <3>2 DEF RunInvariant, TypeOK
      <3> QED
        BY <1>5, <2>2, <3>1, <3>3 DEF RunInvariant, AloneInStep
    <2> QED
      BY <2>1, <2>2
  <1> QED
    BY <1>8, <1>9, <1>10, <1>11, <1>12, <1>7 DEF RunInvariant
\* A run that goes on or ends: whoever shares its id is not alone.
LEMMA StepKeepsRunInvariant ==
    ASSUME RunInvariant, NEW r \in Runs, Step(r) \/ Timeout(r)
    PROVE  RunInvariant'
  <1> DEFINE g == run[r].gen
  <1>1. InFlight(r) /\ g \in Gens
    BY StepAdvances DEF RunInvariant, RunsHaveIds
  <1>2. PICK h, x : Advances(r, h, x)
    BY StepAdvances DEF RunInvariant
  <1>3. /\ h \in Seq(Status) /\ x \in Run
        /\ history'[g] = h
        /\ \A f \in Gens \ {g} : history'[f] = history[f]
        /\ run'[r] = x
        /\ \A q \in Runs \ {r} : run'[q] = run[q]
        /\ cancelled' = cancelled /\ loaded' = loaded
    BY <1>1, <1>2 DEF Advances, RunInvariant, TypeOK
  <1>4. \/ x.stage = 0
        \/ /\ run[r].own
           /\ x.stage = run[r].stage + 1
           /\ h # <<>> /\ Last(h) = Stages[x.stage]
           /\ x.gen = g /\ x.own = run[r].own /\ x.alone = run[r].alone
           /\ x.asked = run[r].asked
    BY <1>2 DEF Advances, RunInvariant, TypeOK, Run
  <1>5. TypeOK'
    BY <1>1, <1>2, <1>3 DEF Advances, RunInvariant, TypeOK
  <1>6. RunsHaveIds'
    BY <1>1, <1>3, <1>4 DEF RunInvariant, RunsHaveIds, InFlight
  <1>7. NoAbandonedHistory'
    <2> SUFFICES ASSUME NEW f \in Gens, history'[f] # <<>>, Last(history'[f]) \notin Terminal
                 PROVE  \E q \in Runs : InFlight(q)' /\ run'[q].own /\ run'[q].gen = f
      BY DEF NoAbandonedHistory
    <2>1. CASE f # g
      <3>1. PICK q \in Runs : InFlight(q) /\ run[q].own /\ run[q].gen = f
        BY <1>3, <2>1 DEF RunInvariant, NoAbandonedHistory
      <3> QED
        BY <1>3, <2>1, <3>1 DEF InFlight
    <2>2. CASE f = g /\ x.stage = 0
      <3>1. h = history[g] /\ ~run[r].own
        <4>1. h # <<>> /\ Last(h) \notin Terminal
          BY <1>3, <2>2
        <4>2. run[r].stage \in 1 .. 4 /\ x = [run[r] EXCEPT !.stage = @ + 1]
                 => x.stage = run[r].stage + 1
          BY DEF RunInvariant, TypeOK, Run
        <4> QED
          BY <1>2, <2>2, <4>1, <4>2 DEF Advances
      <3>2. PICK q \in Runs : InFlight(q) /\ run[q].own /\ run[q].gen = g
        BY <1>1, <1>3, <2>2, <3>1 DEF RunInvariant, NoAbandonedHistory
      <3> QED
        BY <1>3, <2>2, <3>1, <3>2 DEF InFlight
    <2>3. CASE f = g /\ x.stage # 0
      BY <1>3, <1>4, <2>3 DEF InFlight
    <2> QED
      BY <2>1, <2>2, <2>3
  <1>8. RequestsAreFresh'
    <2> SUFFICES ASSUME NEW q \in Runs, InFlight(q)', IsCancelled(q)'
                 PROVE  run'[q].asked
      BY DEF RequestsAreFresh
    <2>1. CASE q = r
      BY <1>1, <1>3, <1>4, <2>1 DEF RunInvariant, RequestsAreFresh, InFlight, IsCancelled
    <2>2. CASE q # r
      BY <1>3, <2>2 DEF RunInvariant, RequestsAreFresh, InFlight, IsCancelled
    <2> QED
      BY <2>1, <2>2
  <1>9. AloneIsAlone'
    <2> SUFFICES ASSUME NEW p \in Runs, NEW q \in Runs,
                        InFlight(p)', run'[p].own, run'[p].alone,
                        InFlight(q)', run'[q].own, run'[q].gen = run'[p].gen
                 PROVE  q = p
      BY DEF AloneIsAlone
    <2>1. InFlight(p) /\ run[p].own /\ run[p].alone /\ run'[p].gen = run[p].gen
      BY <1>1, <1>3, <1>4 DEF InFlight
    <2>2. InFlight(q) /\ run[q].own /\ run'[q].gen = run[q].gen
      BY <1>1, <1>3, <1>4 DEF InFlight
    <2> QED
      BY <2>1, <2>2 DEF RunInvariant, AloneIsAlone
  <1>10. AloneInStep'
    <2> SUFFICES ASSUME NEW p \in Runs, InFlight(p)', run'[p].own, run'[p].alone
                 PROVE  /\ history'[run'[p].gen] # <<>>
                        /\ Last(history'[run'[p].gen]) = Stages[run'[p].stage]
      BY DEF AloneInStep
    <2>1. CASE p = r
      BY <1>3, <1>4, <2>1 DEF InFlight
    <2>2. CASE p # r
      <3>1. InFlight(p) /\ run[p].own /\ run[p].alone /\ run'[p] = run[p]
        BY <1>3, <2>2 DEF InFlight
      <3>2. run[p].gen \in Gens
        BY <3>1 DEF RunInvariant, RunsHaveIds
      <3>3. CASE run[p].gen # g
        BY <1>3, <3>1, <3>2, <3>3 DEF RunInvariant, AloneInStep
      <3>4. CASE run[p].gen = g
        <4>1. ~run[r].own
          BY <1>1, <2>2, <3>1, <3>4 DEF RunInvariant, AloneIsAlone
        <4>2. h = history[g]
          BY <1>2, <4>1 DEF Advances
        <4> QED
          BY <1>3, <3>1, <3>4, <4>2 DEF RunInvariant, AloneInStep
      <3> QED
        BY <3>3, <3>4
    <2> QED
      BY <2>1, <2>2
  <1> QED
    BY <1>5, <1>6, <1>7, <1>8, <1>9, <1>10 DEF RunInvariant

LEMMA CancelKeepsRunInvariant ==
    ASSUME RunInvariant, NEW g \in Gens, Cancel(g)
    PROVE  RunInvariant'
  <1> DEFINE asks(q) == InFlight(q) /\ run[q].own /\ run[q].gen = g
  <1>1. /\ history' = history /\ loaded' = loaded
        /\ cancelled' = cancelled \cup {g}
        /\ run' = [q \in Runs |-> IF asks(q) THEN [run[q] EXCEPT !.asked = TRUE] ELSE run[q]]
    BY DEF Cancel
  <1>2. \A q \in Runs :
            /\ run'[q] \in Run
            /\ run'[q].gen = run[q].gen
            /\ run'[q].stage = run[q].stage
            /\ run'[q].own = run[q].own
            /\ run'[q].alone = run[q].alone
            /\ run[q].asked \/ asks(q) => run'[q].asked
    <2> TAKE q \in Runs
    <2>1. run[q] \in Run
      BY DEF RunInvariant, TypeOK
    <2>2. CASE asks(q)
      <3>1. run'[q] = [run[q] EXCEPT !.asked = TRUE]
        BY <1>1, <2>2
      <3> QED
        BY <2>1, <3>1 DEF Run
    <2>3. CASE ~asks(q)
      <3>1. run'[q] = run[q]
        BY <1>1, <2>3
      <3> QED
        BY <2>1, <2>3, <3>1
    <2> QED
      BY <2>2, <2>3
  <1>3. TypeOK'
    <2>1. run' \in [Runs -> Run]
      BY <1>1, <1>2
    <2> QED
      BY <1>1, <2>1 DEF RunInvariant, TypeOK
  <1>4. RequestsAreFresh'
    BY <1>1, <1>2 DEF RunInvariant, RequestsAreFresh, InFlight, IsCancelled
  <1>5. RunsHaveIds' /\ NoAbandonedHistory' /\ AloneIsAlone' /\ AloneInStep'
    BY <1>1, <1>2
       DEF RunInvariant, RunsHaveIds, NoAbandonedHistory, AloneIsAlone, AloneInStep, InFlight
  <1> QED
    BY <1>3, <1>4, <1>5 DEF RunInvariant

\* After clear() no run in flight belongs to the instance.
LEMMA ClearKeepsRunInvariant ==
    ASSUME RunInvariant, Clear
    PROVE  RunInvariant'
  <1>1. /\ history' = [g \in Gens |-> <<>>]
        /\ cancelled' = {} /\ loaded' = FALSE
        /\ run' = [q \in Runs |-> IF InFlight(q)
                                  THEN [run[q] EXCEPT !.own = FALSE, !.asked = FALSE]
                                  ELSE NoRun]
    BY DEF Clear
  <1>2. \A q \in Runs :
            /\ run'[q] \in Run
            /\ InFlight(q)' => InFlight(q) /\ ~run'[q].own /\ run'[q].gen = run[q].gen
    <2> TAKE q \in Runs
    <2>1. CASE InFlight(q)
      <3>1. run'[q] = [run[q] EXCEPT !.own = FALSE, !.asked = FALSE]
        BY <1>1, <2>1
      <3>2. run[q] \in Run
        BY DEF RunInvariant, TypeOK
      <3> QED
        BY <2>1, <3>1, <3>2 DEF Run
    <2>2. CASE ~InFlight(q)
      <3>1. run'[q] = NoRun
        BY <1>1, <2>2
      <3>2. NoRun \in Run /\ NoRun.stage = 0
        BY NoRunIsRun
      <3> QED
        BY <3>1, <3>2 DEF InFlight
    <2> QED
      BY <2>1, <2>2
  <1>3. TypeOK'
    <2>1. run' \in [Runs -> Run]
      BY <1>1, <1>2
    <2>2. history' \in [Gens -> Seq(Status)]
      <3>1. <<>> \in Seq(Status)
        OBVIOUS
      <3> QED
        BY <1>1, <3>1
    <2>3. cancelled' \subseteq Gens /\ loaded' \in BOOLEAN
      BY <1>1
    <2> QED
      BY <2>1, <2>2, <2>3 DEF TypeOK
  <1>4. NoAbandonedHistory'
    BY <1>1 DEF NoAbandonedHistory
  <1> QED
    BY <1>2, <1>3, <1>4
       DEF RunInvariant, RunsHaveIds, RequestsAreFresh, AloneIsAlone, AloneInStep, IsCancelled

LEMMA NextKeepsRunInvariant ==
    RunInvariant /\ [Next]_vars => RunInvariant'
  <1> SUFFICES ASSUME RunInvariant, [Next]_vars
               PROVE  RunInvariant'
    OBVIOUS
  <1>1. ASSUME NEW r \in Runs, NEW g \in Gens, Generate(r, g) \/ GenerateUnsupported(r, g)
        PROVE  RunInvariant'
    BY <1>1, GenerateKeepsRunInvariant
  <1>2. ASSUME NEW r \in Runs, Step(r) \/ Timeout(r)
        PROVE  RunInvariant'
    BY <1>2, StepKeepsRunInvariant
  <1>3. ASSUME NEW g \in Gens, Cancel(g)
        PROVE  RunInvariant'
    BY <1>3, CancelKeepsRunInvariant
  <1>4. CASE Clear
    BY <1>4, ClearKeepsRunInvariant
  <1>5. CASE SetUp
    BY <1>5 DEF SetUp, RunInvariant, TypeOK, RunsHaveIds, NoAbandonedHistory,
                RequestsAreFresh, AloneIsAlone, AloneInStep, InFlight, IsCancelled
  <1>6. CASE UNCHANGED vars
    BY <1>6 DEF vars, RunInvariant, TypeOK, RunsHaveIds, NoAbandonedHistory,
                RequestsAreFresh, AloneIsAlone, AloneInStep, InFlight, IsCancelled
  <1> QED
    BY <1>1, <1>2, <1>3, <1>4, <1>5, <1>6 DEF Next

\* The invariant of the runs holds whatever ids they share and however they are
\* cancelled, timed out or torn down.
THEOREM RunsKeepTheirInvariant == Spec => []RunInvariant
  BY InitRunInvariant, NextKeepsRunInvariant, PTL DEF Spec
--------------------------------------------------------------------------------

\* Every reachable state of the orchestrator is well typed.
THEOREM OrchestratorTypeCorrect == Spec => []TypeOK
  <1>1. RunInvariant => TypeOK
    BY DEF RunInvariant
  <1> QED
    BY <1>1, RunsKeepTheirInvariant, PTL

\* No history is left without a run that ends it (generate_voiceprint,
\* _build_failure).
THEOREM HistoriesAreEnded == Spec => []NoAbandonedHistory
  <1>1. RunInvariant => NoAbandonedHistory
    BY DEF RunInvariant
  <1> QED
    BY <1>1, RunsKeepTheirInvariant, PTL

\* A run that is over has ended by a step of its own.
LEMMA RunsEndThemselves ==
    ASSUME RunInvariant, [Next]_vars, NEW r \in Runs, InFlight(r), run'[r].stage = 0
    PROVE  \E h, x : Advances(r, h, x)
  <1>1. CASE \E q \in Runs, g \in Gens : Generate(q, g) \/ GenerateUnsupported(q, g)
    <2>1. PICK q \in Runs, g \in Gens : Generate(q, g) \/ GenerateUnsupported(q, g)
      BY <1>1
    <2>2. q # r
      BY <2>1 DEF Generate, GenerateUnsupported
    <2>3. PICK stage, ended : Begin(q, g, stage, ended)
      BY <2>1 DEF Generate, GenerateUnsupported
    <2>4. run'[r].stage = run[r].stage
      BY <2>2, <2>3 DEF Begin, RunInvariant, TypeOK, Run
    <2> QED
      BY <2>4 DEF InFlight
  <1>2. CASE \E q \in Runs : Step(q) \/ Timeout(q)
    <2>1. PICK q \in Runs : Step(q) \/ Timeout(q)
      BY <1>2
    <2>2. PICK h, x : Advances(q, h, x)
      BY <2>1, StepAdvances DEF RunInvariant
    <2>3. q = r
      BY <2>2 DEF Advances, InFlight
    <2> QED
      BY <2>2, <2>3
  <1>3. CASE \E g \in Gens : Cancel(g)
    <2>1. run'[r].stage = run[r].stage
      BY <1>3 DEF Cancel, RunInvariant, TypeOK, Run
    <2> QED
      BY <2>1 DEF InFlight
  <1>4. CASE Clear
    <2>1. run'[r] = [run[r] EXCEPT !.own = FALSE, !.asked = FALSE]
      BY <1>4 DEF Clear
    <2>2. run'[r].stage = run[r].stage
      BY <2>1 DEF RunInvariant, TypeOK, Run
    <2> QED
      BY <2>2 DEF InFlight
  <1>5. CASE SetUp \/ UNCHANGED vars
    BY <1>5 DEF SetUp, vars, InFlight
  <1> QED
    BY <1>1, <1>2, <1>3, <1>4, <1>5 DEF Next

\* A run reported cancelled was asked to, since it began: an old request to cancel
\* stops nothing (generate_voiceprint, _check_cancelled).
THEOREM NoRunIsCancelledByAnOldRequest == Spec => NoStaleCancel
  <1> DEFINE Asked == \A r \in Runs : EndsWith(r, {"cancelled"}) => run[r].asked
  <1>1. RunInvariant /\ [Next]_vars => [Asked]_vars
    <2> SUFFICES ASSUME RunInvariant, [Next]_vars, NEW r \in Runs,
                        EndsWith(r, {"cancelled"})
                 PROVE  run[r].asked
      OBVIOUS
    <2>1. InFlight(r) /\ run'[r].stage = 0 /\ run'[r].ended = "cancelled"
      BY DEF EndsWith
    <2>2. PICK h, x : Advances(r, h, x)
      BY <2>1, RunsEndThemselves
    <2>3. run'[r] = x
      BY <2>2 DEF Advances, RunInvariant, TypeOK
    <2>4. run[r].stage \in 1 .. 4 /\ x = [run[r] EXCEPT !.stage = @ + 1]
             => x.stage = run[r].stage + 1
      BY DEF RunInvariant, TypeOK, Run
    <2>5. IsCancelled(r)
      BY <2>1, <2>2, <2>3, <2>4 DEF Advances
    <2> QED
      BY <2>1, <2>5 DEF RunInvariant, RequestsAreFresh
  <1> QED
    BY <1>1, RunsKeepTheirInvariant, PTL DEF Spec, NoStaleCancel

\* Only a call that shares its id, or outlives clear(), leaves generate_voiceprint
\* with an exception (_run_workflow, _build_failure).
THEOREM LoneRunsReturn == Spec => AloneRunsReturn
  <1> DEFINE Shared == \A r \in Runs : EndsWith(r, {"raised"}) => ~run[r].own \/ ~run[r].alone
  <1>1. RunInvariant /\ [Next]_vars => [Shared]_vars
    <2> SUFFICES ASSUME RunInvariant, [Next]_vars, NEW r \in Runs,
                        EndsWith(r, {"raised"}), run[r].own, run[r].alone
                 PROVE  FALSE
      OBVIOUS
    <2>1. InFlight(r) /\ run'[r].stage = 0 /\ run'[r].ended = "raised"
      BY DEF EndsWith
    <2>2. PICK h, x : Advances(r, h, x)
      BY <2>1, RunsEndThemselves
    <2>3. run'[r] = x
      BY <2>2 DEF Advances, RunInvariant, TypeOK
    <2>4. run[r].stage \in 1 .. 4 /\ x = [run[r] EXCEPT !.stage = @ + 1]
             => x.stage = run[r].stage + 1
      BY DEF RunInvariant, TypeOK, Run
    <2>5. /\ history[run[r].gen] # <<>>
          /\ Last(history[run[r].gen]) = Stages[run[r].stage]
      BY <2>1 DEF RunInvariant, AloneInStep
    <2>6. run[r].stage \in 1 .. 5
      BY <2>1, StageNames DEF RunInvariant, TypeOK, Run, InFlight
    <2>7. Last(history[run[r].gen]) \notin Terminal
      BY <2>5, <2>6, StageNames
    <2>8. "raised" \notin Terminal
      BY DEF Terminal
    <2> QED
      BY <2>1, <2>2, <2>3, <2>4, <2>5, <2>7, <2>8 DEF Advances
  <1> QED
    BY <1>1, RunsKeepTheirInvariant, PTL DEF Spec, AloneRunsReturn

\* A terminal status stays until a new run of the id, or clear(): a run that ends
\* late writes nothing over it (_transition).
THEOREM TerminalStatusStays == Spec => TerminalIsFinal
  <1> DEFINE Stays ==
        \A g \in Gens :
            (history[g] # <<>> /\ Last(history[g]) \in Terminal /\ history'[g] # history[g])
                => history'[g] = <<>> \/ \E r \in Runs : Generate(r, g) \/ GenerateUnsupported(r, g)
  <1>1. RunInvariant /\ [Next]_vars => [Stays]_vars
    <2> SUFFICES ASSUME RunInvariant, Next, NEW g \in Gens,
                        history[g] # <<>>, Last(history[g]) \in Terminal,
                        history'[g] # history[g]
                 PROVE  \/ history'[g] = <<>>
                        \/ \E r \in Runs : Generate(r, g) \/ GenerateUnsupported(r, g)
      BY DEF vars
    <2>1. ASSUME NEW r \in Runs, NEW f \in Gens, Generate(r, f) \/ GenerateUnsupported(r, f)
          PROVE  Generate(r, g) \/ GenerateUnsupported(r, g)
      <3>1. f # g => history'[g] = history[g]
        BY <2>1 DEF Generate, GenerateUnsupported, RunInvariant, TypeOK
      <3> QED
        BY <2>1, <3>1
    <2>2. ASSUME NEW r \in Runs, Step(r) \/ Timeout(r)
          PROVE  FALSE
      <3>1. PICK h, x : Advances(r, h, x)
        BY <2>2, StepAdvances DEF RunInvariant
      <3> QED
        BY <3>1 DEF Advances, RunInvariant, TypeOK
    <2>3. ASSUME NEW f \in Gens, Cancel(f)
          PROVE  FALSE
      BY <2>3 DEF Cancel
    <2>4. CASE Clear
      BY <2>4 DEF Clear
    <2>5. CASE SetUp
      BY <2>5 DEF SetUp
    <2> QED
      BY <2>1, <2>2, <2>3, <2>4, <2>5 DEF Next
  <1> QED
    BY <1>1, RunsKeepTheirInvariant, PTL DEF Spec, TerminalIsFinal

================================================================================
