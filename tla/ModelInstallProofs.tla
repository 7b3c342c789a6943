------------------------- MODULE ModelInstallProofs -------------------------
(***************************************************************************)
(* Theorems about installing models, for every number of models, presses   *)
(* of Install, sheets opened and requests that fail.                       *)
(*                                                                         *)
(* A watcher that works is on the list of its model unless a later one     *)
(* took over (Listed), and nothing says a model is installed before it is  *)
(* (Truthful): these two carry what the sheet and the pickers show.        *)
(***************************************************************************)
EXTENDS ModelInstall, TLAPS

Pulls == {"none"} \cup Active \cup Terminal
StartStages == {"sent", "plan", "apply", "started", "answered", "refused"}
Stages == StartStages \cup {"idle", "poll", "asked", "over"}
SheetRecord == [model : Models \cup {None}, preflight : Findings \cup {"none", "error"}, pull : Pulls,
                starting : BOOLEAN, consent : BOOLEAN]
WatchRecord == [model : Models \cup {None}, stage : Stages, aborted : BOOLEAN, got : Pulls]
GhostRecord == [reported : SUBSET Confirms, announced : SUBSET Models, spawnFailed : BOOLEAN,
                replanned : BOOLEAN, overlapped : BOOLEAN]

HostOK ==
    /\ record \in [Models -> Pulls]
    /\ threads \in [Models -> Nat]
    /\ plan \in [Confirms -> {"none", "draft", "applied", "finished", "failed"}]
    /\ modelPlans \in [Models -> Confirms \cup {None}]
    /\ installed \subseteq Models
WindowOK ==
    /\ sheet \in SheetRecord /\ checks \subseteq Models
    /\ offered \subseteq Models /\ refreshes \subseteq SUBSET Models
    /\ bounds \in [sheets : Nat, faults : Nat]
    /\ ghost \in GhostRecord
WatchOK ==
    /\ watch \in [Confirms -> WatchRecord]
    /\ watches \in [Models -> Confirms \cup {None}]
    /\ \A c \in Confirms : watch[c].stage # "idle" => watch[c].model \in Models
PlansOK == \A c \in Confirms : plan[c] # "none" => watch[c].stage # "idle"
TypeOK == scope \in {"local", "cloud"} /\ HostOK /\ WindowOK /\ WatchOK /\ PlansOK

-----------------------------------------------------------------------------
(* The inductive invariants. *)

Works(c) == watch[c].stage \notin {"idle", "over"} /\ ~watch[c].aborted

\* A watcher that works and was not taken over is the one on the list.
Listed == \A c \in Confirms : Works(c) => watches[watch[c].model] = c

\* While the sheet shows an installation its model has a watcher that works, which
\* has not had its first answer as long as the sheet says "starting".
Followed ==
    sheet.pull \in Active \/ sheet.starting =>
      /\ sheet.model \in Models
      /\ \E c \in Confirms :
           /\ watch[c].model = sheet.model /\ Works(c)
           /\ sheet.starting => watch[c].stage \in StartStages

\* Nothing says "installed" of a model that the executor does not have; a plan is
\* for the model it is polled for.
Truthful ==
    /\ \A m \in Models : record[m] = "installed" => m \in installed
    /\ \A m \in Models : modelPlans[m] # None =>
         watch[modelPlans[m]].stage # "idle" /\ watch[modelPlans[m]].model = m
    /\ \A c \in Confirms : plan[c] = "finished" => watch[c].model \in installed
    /\ \A c \in Confirms : watch[c].got = "installed" => watch[c].model \in installed
    /\ sheet.pull = "installed" => sheet.model \in installed

\* Of answers to the pickers that do not overlap at most one is on its way, and it
\* holds everything that was announced.
Offers ==
    /\ offered \subseteq installed
    /\ refreshes \subseteq SUBSET installed
    /\ ghost.announced \subseteq installed
    /\ ~ghost.overlapped =>
         \/ refreshes = {} /\ ghost.announced \subseteq offered
         \/ \E seen \in refreshes : refreshes = {seen} /\ ghost.announced \subseteq seen

InstallInv == TypeOK /\ Listed /\ Followed /\ Truthful /\ Offers /\ OnePullPerModel

-----------------------------------------------------------------------------
(* How a watcher moves. *)

\* One watcher goes on: it keeps its model, and leaves the list when it is over.
Goes(c) ==
    /\ watch[c].stage \notin {"idle", "over"}
    /\ watch' \in [Confirms -> WatchRecord]
    /\ \A d \in Confirms \ {c} : watch'[d] = watch[d]
    /\ watch'[c].model = watch[c].model /\ watch'[c].aborted = watch[c].aborted
    /\ watch'[c].stage # "idle"
    /\ watch'[c].stage = "over" => Forget(c)
    /\ watch'[c].stage # "over" => UNCHANGED watches

LEMMA StageOnly ==
    ASSUME watch \in [Confirms -> WatchRecord], NEW c \in Confirms, NEW s \in Stages,
           watch' = [watch EXCEPT ![c].stage = s]
    PROVE  /\ watch' = [watch EXCEPT ![c].stage = s, ![c].got = watch[c].got]
           /\ watch[c].got \in Pulls
<1>1. watch[c] \in WatchRecord
  OBVIOUS
<1> QED BY <1>1 DEF WatchRecord

\* What planToPull and the record answer is a state of a pull.
LEMMA PullStates ==
    ASSUME TypeOK
    PROVE  /\ \A m \in Models : record[m] \in Pulls
           /\ \A state : planToPull(state) \in Pulls
           /\ \A c \in Confirms : watch[c] \in WatchRecord /\ watch[c].got \in Pulls
           /\ \A c \in Confirms : watch[c].stage # "idle" => watch[c].model \in Models
           /\ \A m \in Models : watches[m] \in Confirms \cup {None}
BY DEF TypeOK, HostOK, WatchOK, WatchRecord, Pulls, Active, Terminal, planToPull

LEMMA Going ==
    ASSUME TypeOK, NEW c \in Confirms, watch[c].stage \notin {"idle", "over"},
           NEW s \in Stages \ {"idle"}, NEW g \in Pulls, Stage(c, s, g),
           s = "over" => Forget(c), s # "over" => UNCHANGED watches
    PROVE  Goes(c) /\ watch'[c].stage = s /\ watch'[c].got = g
<1>1. watch \in [Confirms -> WatchRecord] /\ watch[c] \in WatchRecord /\ s \in Stages
  BY DEF TypeOK, WatchOK
<1>2. [watch[c] EXCEPT !.stage = s, !.got = g] \in WatchRecord
  BY <1>1 DEF WatchRecord
<1>3. watch' = [watch EXCEPT ![c] = [watch[c] EXCEPT !.stage = s, !.got = g]]
  BY <1>1 DEF Stage
<1>4. /\ watch' \in [Confirms -> WatchRecord]
      /\ watch'[c].stage = s /\ watch'[c].got = g
      /\ watch'[c].model = watch[c].model /\ watch'[c].aborted = watch[c].aborted
      /\ \A d \in Confirms \ {c} : watch'[d] = watch[d]
  BY <1>1, <1>2, <1>3 DEF WatchRecord
<1> QED BY <1>4 DEF Goes

LEMMA GoingOn ==
    ASSUME TypeOK, NEW c \in Confirms, watch[c].stage \notin {"idle", "over"},
           NEW s \in Stages \ {"idle", "over"}, watch' = [watch EXCEPT ![c].stage = s], UNCHANGED watches
    PROVE  Goes(c) /\ watch'[c].stage = s /\ watch'[c].got = watch[c].got
<1>1. watch \in [Confirms -> WatchRecord]
  BY DEF TypeOK, WatchOK
<1>2. watch' = [watch EXCEPT ![c].stage = s, ![c].got = watch[c].got] /\ watch[c].got \in Pulls
  BY <1>1, StageOnly
<1> QED BY <1>2, Going DEF Stage

LEMMA GoingOver ==
    ASSUME TypeOK, NEW c \in Confirms, watch[c].stage \notin {"idle", "over"}, Over(c)
    PROVE  Goes(c) /\ watch'[c].stage = "over" /\ watch'[c].got = "none"
BY Going DEF Over, Stages, Pulls

\* What each action of a watcher's makes of it.
LEMMA HostStep ==
    ASSUME TypeOK, NEW c \in Confirms, HostStarts(c)
    PROVE  Goes(c) /\ watch'[c].stage \in {"started", "refused"} /\ watch'[c].got = watch[c].got
<1>1. watch[c].stage = "sent" /\ UNCHANGED watches
  BY DEF HostStarts
<1>2. CASE watch' = [watch EXCEPT ![c].stage = "started"]
  BY <1>1, <1>2, GoingOn DEF Stages, StartStages
<1>3. CASE watch' = [watch EXCEPT ![c].stage = "refused"]
  BY <1>1, <1>3, GoingOn DEF Stages, StartStages
<1> QED BY <1>2, <1>3 DEF HostStarts

LEMMA HostAnswerStep ==
    ASSUME TypeOK, NEW c \in Confirms, HostAnswersStart(c)
    PROVE  Goes(c) /\ watch'[c].stage = "answered" /\ watch'[c].got = record[watch[c].model]
<1>1. watch[c].stage = "started" /\ UNCHANGED watches /\ Stage(c, "answered", record[watch[c].model])
  BY DEF HostAnswersStart, Stage
<1>2. record[watch[c].model] \in Pulls
  BY <1>1, PullStates
<1> QED BY <1>1, <1>2, Going DEF Stages, StartStages

LEMMA FleetStep ==
    ASSUME TypeOK, NEW c \in Confirms, FleetRead(c)
    PROVE  /\ Goes(c)
           /\ \/ watch'[c].stage = "answered" /\ watch'[c].got = "installed" /\ watch[c].model \in installed
              \/ watch'[c].stage = "plan" /\ watch'[c].got = watch[c].got
<1>1. watch[c].stage = "sent" /\ UNCHANGED watches
  BY DEF FleetRead
<1>2. CASE watch' = [watch EXCEPT ![c].stage = "answered", ![c].got = "installed"]
           /\ watch[c].model \in installed
  <2>1. Stage(c, "answered", "installed")
    BY <1>2 DEF Stage
  <2>2. "answered" \in Stages \ {"idle"} /\ "installed" \in Pulls
    BY DEF Stages, StartStages, Pulls, Terminal
  <2> QED BY <1>1, <1>2, <2>1, <2>2, Going
<1>3. CASE watch' = [watch EXCEPT ![c].stage = "plan"]
  BY <1>1, <1>3, GoingOn DEF Stages, StartStages
<1> QED BY <1>2, <1>3 DEF FleetRead

LEMMA PlanAnswerStep ==
    ASSUME TypeOK, NEW c \in Confirms, PlanAnswered(c)
    PROVE  Goes(c) /\ watch'[c].stage = "apply" /\ watch'[c].got = watch[c].got
BY GoingOn DEF PlanAnswered, Stages, StartStages

LEMMA PlanApplyStep ==
    ASSUME TypeOK, NEW c \in Confirms, PlanApplied(c)
    PROVE  Goes(c) /\ watch'[c].stage = "answered" /\ watch'[c].got = "installing"
<1>1. planToPull("applied") = "installing"
  BY DEF planToPull
<1>2. watch[c].stage = "apply" /\ UNCHANGED watches /\ Stage(c, "answered", "installing")
  BY <1>1 DEF PlanApplied, Stage
<1>3. "answered" \in Stages \ {"idle"} /\ "installing" \in Pulls
  BY DEF Stages, StartStages, Pulls, Active
<1> QED BY <1>2, <1>3, Going

LEMMA StartAnswerStep ==
    ASSUME TypeOK, NEW c \in Confirms, StartAnswered(c)
    PROVE  /\ Goes(c) /\ watch[c].stage = "answered" /\ watch'[c].got = "none"
           /\ \/ watch'[c].stage = "over"
              \/ ~watch[c].aborted /\ watch[c].got # "installed" /\ watch'[c].stage = "poll"
<1>1. watch[c].stage = "answered"
  BY DEF StartAnswered
<1>2. CASE Over(c)
  BY <1>1, <1>2, GoingOver
<1>3. CASE Stage(c, "poll", "none") /\ UNCHANGED watches /\ ~watch[c].aborted /\ watch[c].got # "installed"
  BY <1>1, <1>3, Going DEF Stages, Pulls
<1> QED BY <1>2, <1>3 DEF StartAnswered, Dropped, Ends

LEMMA PollAskStep ==
    ASSUME TypeOK, NEW c \in Confirms, PollAsk(c)
    PROVE  /\ Goes(c) /\ watch[c].stage = "poll"
           /\ LET m == watch[c].model IN
              \/ watch'[c].stage \in {"over", "refused"} /\ watch'[c].got = "none"
              \/ watch'[c].stage = "asked" /\ watch'[c].got = record[m]
              \/ /\ modelPlans[m] # None
                 /\ watch'[c].stage = "asked" /\ watch'[c].got = planToPull(plan[modelPlans[m]])
<1>1. watch[c].stage = "poll" /\ watch[c].model \in Models
  BY PullStates DEF PollAsk
<1>2. CASE Over(c)
  BY <1>1, <1>2, GoingOver
<1>3. CASE Stage(c, "refused", "none") /\ UNCHANGED watches
  BY <1>1, <1>3, Going DEF Stages, StartStages, Pulls
<1>4. CASE Stage(c, "asked", record[watch[c].model]) /\ UNCHANGED watches
  BY <1>1, <1>4, Going, PullStates DEF Stages
<1>5. CASE Stage(c, "asked", planToPull(plan[modelPlans[watch[c].model]])) /\ UNCHANGED watches
           /\ modelPlans[watch[c].model] # None
  BY <1>1, <1>5, Going, PullStates DEF Stages
<1> QED BY <1>2, <1>3, <1>4, <1>5 DEF PollAsk

LEMMA PollAnswerStep ==
    ASSUME TypeOK, NEW c \in Confirms, PollAnswered(c)
    PROVE  /\ Goes(c) /\ watch[c].stage = "asked" /\ watch'[c].got = "none"
           /\ \/ watch'[c].stage = "over" /\ (watch[c].aborted \/ watch[c].got \in Terminal)
              \/ watch'[c].stage = "poll" /\ ~watch[c].aborted /\ watch[c].got \in Active
<1>1. watch[c].stage = "asked"
  BY DEF PollAnswered
<1>2. CASE Over(c) /\ (watch[c].aborted \/ watch[c].got \in Terminal)
  BY <1>1, <1>2, GoingOver
<1>3. CASE Stage(c, "poll", "none") /\ UNCHANGED watches /\ ~watch[c].aborted /\ watch[c].got \in Active
  BY <1>1, <1>3, Going DEF Stages, Pulls
<1> QED BY <1>2, <1>3 DEF PollAnswered, Dropped, Ends

LEMMA RequestStep ==
    ASSUME TypeOK, NEW c \in Confirms, RequestFails(c)
    PROVE  Goes(c) /\ watch'[c].stage = "refused" /\ watch'[c].got = "none"
BY Going DEF RequestFails, Stages, StartStages, Pulls

LEMMA FailureStep ==
    ASSUME TypeOK, NEW c \in Confirms, WatchFails(c)
    PROVE  Goes(c) /\ watch[c].stage = "refused" /\ watch'[c].stage = "over" /\ watch'[c].got = "none"
BY GoingOver DEF WatchFails, Dropped, Ends

\* A press of Install: its watcher is on the list, and the one before is told to stop.
Pressed(c) ==
    /\ watch[c].stage = "idle" /\ watch[c].got = "none" /\ sheet.model \in Models
    /\ watch' \in [Confirms -> WatchRecord]
    /\ watch'[c].model = sheet.model /\ watch'[c].stage = "sent" /\ watch'[c].got = "none"
    /\ ~watch'[c].aborted
    /\ \A d \in Confirms \ {c} :
         /\ watch'[d].model = watch[d].model /\ watch'[d].stage = watch[d].stage
         /\ watch'[d].got = watch[d].got
         /\ watch'[d].aborted = (watch[d].aborted \/ watches[sheet.model] = d)
    /\ watches' = [watches EXCEPT ![sheet.model] = c]

LEMMA PressStep ==
    ASSUME TypeOK, NEW c \in Confirms, ConfirmInstall(c)
    PROVE  Pressed(c)
<1> DEFINE m == sheet.model
           first == [Idle EXCEPT !.model = m, !.stage = "sent"]
           next(w) == IF w = c THEN first
                      ELSE IF w = watches[m] THEN [watch[w] EXCEPT !.aborted = TRUE] ELSE watch[w]
<1>1. sheet \in SheetRecord /\ m # None
  BY DEF TypeOK, WindowOK, ConfirmInstall, CanConfirm
<1>2. m \in Models
  BY <1>1 DEF SheetRecord
<1>3. /\ watch[c] = Idle /\ watch' = [w \in Confirms |-> next(w)]
      /\ watches' = [watches EXCEPT ![m] = c]
  BY DEF ConfirmInstall
<1>4. first \in WatchRecord /\ first.model = m /\ first.stage = "sent" /\ first.got = "none" /\ ~first.aborted
  BY <1>2 DEF Idle, WatchRecord, Stages, StartStages, Pulls
<1>5. \A w \in Confirms : watch[w] \in WatchRecord
  BY PullStates
<1>6. \A w \in Confirms : next(w) \in WatchRecord
  <2> SUFFICES ASSUME NEW w \in Confirms PROVE next(w) \in WatchRecord
    OBVIOUS
  <2>1. [watch[w] EXCEPT !.aborted = TRUE] \in WatchRecord
    BY <1>5 DEF WatchRecord
  <2> QED BY <1>4, <1>5, <2>1
<1>7. watch' \in [Confirms -> WatchRecord]
  BY <1>3, <1>6
<1>8. ASSUME NEW d \in Confirms, d # c
      PROVE  /\ watch'[d].model = watch[d].model /\ watch'[d].stage = watch[d].stage
             /\ watch'[d].got = watch[d].got
             /\ watch'[d].aborted = (watch[d].aborted \/ watches[m] = d)
  <2>1. watch[d] \in WatchRecord /\ watch[d].aborted \in BOOLEAN
    BY <1>5 DEF WatchRecord
  <2>2. CASE d = watches[m]
    <3>1. watch'[d] = [watch[d] EXCEPT !.aborted = TRUE]
      BY <1>3, <1>8, <2>2
    <3> QED BY <2>1, <2>2, <3>1 DEF WatchRecord
  <2>3. CASE d # watches[m]
    <3>1. watch'[d] = watch[d]
      BY <1>3, <1>8, <2>3
    <3> QED BY <2>1, <2>3, <3>1
  <2> QED BY <2>2, <2>3
<1>9. watch[c].stage = "idle" /\ watch[c].got = "none"
  BY <1>3 DEF Idle
<1>10. watch'[c] = first
  BY <1>3
<1> HIDE DEF next, first
<1> QED BY <1>2, <1>3, <1>4, <1>7, <1>8, <1>9, <1>10 DEF Pressed

\* Every step leaves the watchers alone, or one of them goes on, or one is started.
LEMMA Kinds ==
    ASSUME TypeOK, [Next]_vars
    PROVE  \/ UNCHANGED <<watch, watches>>
           \/ \E c \in Confirms : Goes(c)
           \/ \E c \in Confirms : Pressed(c)
<1>1. CASE UNCHANGED vars
  BY <1>1 DEF vars
<1>2. ASSUME NEW m \in Models, BeginInstall(m) \/ PreflightAnswered(m) \/ Worker(m)
      PROVE  UNCHANGED <<watch, watches>>
  BY <1>2 DEF BeginInstall, PreflightAnswered, Worker, PullProgress, PullEnds
<1>3. ASSUME CloseInstall \/ Choose \/ RefreshAnswered
      PROVE  UNCHANGED <<watch, watches>>
  BY <1>3 DEF CloseInstall, Choose, RefreshAnswered
<1>4. ASSUME NEW c \in Confirms, ConfirmInstall(c) PROVE Pressed(c)
  BY <1>4, PressStep
<1>5. ASSUME NEW c \in Confirms, Watcher(c) \/ RequestFails(c) PROVE Goes(c)
  BY <1>5, HostStep, HostAnswerStep, FleetStep, PlanAnswerStep, PlanApplyStep, StartAnswerStep,
     PollAskStep, PollAnswerStep, FailureStep, RequestStep DEF Watcher
<1>6. ASSUME NEW c \in Confirms, PlanEnds(c) PROVE UNCHANGED <<watch, watches>>
  BY <1>6 DEF PlanEnds
<1> QED BY <1>1, <1>2, <1>3, <1>4, <1>5, <1>6 DEF Next

\* What the watchers keep in every step: a model once chosen is never changed, and a
\* watcher that has begun does not become idle.
LEMMA ModelsStay ==
    ASSUME TypeOK, [Next]_vars, NEW c \in Confirms, watch[c].stage # "idle"
    PROVE  watch'[c].stage # "idle" /\ watch'[c].model = watch[c].model
BY Kinds DEF Goes, Pressed

LEMMA WatchStep == TypeOK /\ [Next]_vars => WatchOK'
<1> SUFFICES ASSUME TypeOK, [Next]_vars PROVE WatchOK'
  OBVIOUS
<1>1. WatchOK
  BY DEF TypeOK
<1>2. CASE UNCHANGED <<watch, watches>>
  BY <1>1, <1>2 DEF WatchOK
<1>3. ASSUME NEW c \in Confirms, Goes(c) PROVE WatchOK'
  <2>1. watch[c].model \in Models
    BY <1>1, <1>3 DEF WatchOK, Goes
  <2>2. watches' \in [Models -> Confirms \cup {None}]
    BY <1>1, <1>3, <2>1 DEF WatchOK, Goes, Forget
  <2>3. \A d \in Confirms : watch'[d].stage # "idle" => watch'[d].model \in Models
    BY <1>1, <1>3, <2>1 DEF WatchOK, Goes
  <2>4. watch' \in [Confirms -> WatchRecord]
    BY <1>3 DEF Goes
  <2> QED BY <2>2, <2>3, <2>4 DEF WatchOK
<1>4. ASSUME NEW c \in Confirms, Pressed(c) PROVE WatchOK'
  <2>1. watches' \in [Models -> Confirms \cup {None}]
    BY <1>1, <1>4 DEF WatchOK, Pressed
  <2>2. \A d \in Confirms : watch'[d].stage # "idle" => watch'[d].model \in Models
    BY <1>1, <1>4 DEF WatchOK, Pressed
  <2>3. watch' \in [Confirms -> WatchRecord]
    BY <1>4 DEF Pressed
  <2> QED BY <2>1, <2>2, <2>3 DEF WatchOK
<1> QED BY <1>2, <1>3, <1>4, Kinds

\* A watcher that works and was not taken over stays on the list.
LEMMA ListedStep == TypeOK /\ Listed /\ [Next]_vars => Listed'
<1> SUFFICES ASSUME TypeOK, Listed, [Next]_vars PROVE Listed'
  OBVIOUS
<1>1. WatchOK
  BY DEF TypeOK
<1>2. CASE UNCHANGED <<watch, watches>>
  BY <1>2 DEF Listed, Works
<1>3. ASSUME NEW c \in Confirms, Goes(c) PROVE Listed'
  <2> SUFFICES ASSUME NEW d \in Confirms, Works(d)' PROVE watches'[watch'[d].model] = d
    BY DEF Listed
  <2>1. watch[c].model \in Models
    BY <1>1, <1>3 DEF WatchOK, Goes
  <2>2. Works(d) /\ watch'[d].model = watch[d].model /\ (d = c => watch'[c].stage # "over")
    BY <1>3 DEF Goes, Works
  <2>3. watches[watch[d].model] = d /\ watch[d].model \in Models
    BY <1>1, <2>2 DEF Listed, WatchOK, Works
  <2>4. CASE watch'[c].stage # "over"
    BY <1>3, <2>2, <2>3, <2>4 DEF Goes
  <2>5. CASE watch'[c].stage = "over"
    <3>1. Forget(c) /\ d # c
      BY <1>3, <2>2, <2>5 DEF Goes
    <3> QED BY <1>1, <2>1, <2>2, <2>3, <3>1 DEF Forget, WatchOK
  <2> QED BY <2>4, <2>5
<1>4. ASSUME NEW c \in Confirms, Pressed(c) PROVE Listed'
  <2> SUFFICES ASSUME NEW d \in Confirms, Works(d)' PROVE watches'[watch'[d].model] = d
    BY DEF Listed
  <2>1. watches \in [Models -> Confirms \cup {None}] /\ sheet.model \in Models
        /\ watches' = [watches EXCEPT ![sheet.model] = c]
    BY <1>1, <1>4 DEF WatchOK, Pressed
  <2>2. CASE d = c
    BY <1>4, <2>1, <2>2 DEF Pressed
  <2>3. CASE d # c
    <3>1. Works(d) /\ watch'[d].model = watch[d].model /\ watches[sheet.model] # d
      BY <1>4, <2>3 DEF Pressed, Works
    <3>2. watches[watch[d].model] = d /\ watch[d].model \in Models
      BY <1>1, <3>1 DEF Listed, WatchOK, Works
    <3> QED BY <2>1, <3>1, <3>2
  <2> QED BY <2>2, <2>3
<1> QED BY <1>2, <1>3, <1>4, Kinds

-----------------------------------------------------------------------------
(* Types. *)

LEMMA HostTypeStep == TypeOK /\ [Next]_vars => HostOK'
<1> SUFFICES ASSUME TypeOK, [Next]_vars PROVE HostOK'
  OBVIOUS
<1>1. HostOK
  BY DEF TypeOK
<1>2. CASE UNCHANGED <<hostVars, modelPlans>>
  BY <1>1, <1>2 DEF HostOK, hostVars
<1>3. ASSUME NEW m \in Models, PullProgress(m) PROVE HostOK'
  BY <1>1, <1>3 DEF HostOK, PullProgress, Pulls, Active
<1>4. ASSUME NEW m \in Models, PullEnds(m) PROVE HostOK'
  <2>1. record' \in [Models -> Pulls]
    BY <1>1, <1>4 DEF HostOK, PullEnds, Pulls, Terminal
  <2>2. threads' \in [Models -> Nat]
    BY <1>1, <1>4 DEF HostOK, PullEnds
  <2> QED BY <1>1, <1>4, <2>1, <2>2 DEF HostOK, PullEnds
<1>5. ASSUME NEW c \in Confirms, HostStarts(c) PROVE HostOK'
  <2>1. record' \in [Models -> Pulls]
    BY <1>1, <1>5 DEF HostOK, HostStarts, Pulls, Active
  <2>2. threads' \in [Models -> Nat]
    BY <1>1, <1>5 DEF HostOK, HostStarts
  <2> QED BY <1>1, <1>5, <2>1, <2>2 DEF HostOK, HostStarts
<1>6. ASSUME NEW c \in Confirms, FleetRead(c) PROVE HostOK'
  BY <1>1, <1>6 DEF HostOK, FleetRead
<1>7. ASSUME NEW c \in Confirms, PlanAnswered(c) PROVE HostOK'
  BY <1>1, <1>7 DEF HostOK, PlanAnswered, hostVars
<1>8. ASSUME NEW c \in Confirms, PlanApplied(c) PROVE HostOK'
  BY <1>1, <1>8 DEF HostOK, PlanApplied
<1>9. ASSUME NEW c \in Confirms, PlanEnds(c) PROVE HostOK'
  <2>1. plan' \in [Confirms -> {"none", "draft", "applied", "finished", "failed"}]
    BY <1>1, <1>9 DEF HostOK, PlanEnds
  <2>2. plan[c] # "none"
    BY <1>9 DEF PlanEnds
  <2>3. watch[c].model \in Models
    BY <2>2, PullStates DEF TypeOK, PlansOK
  <2> QED BY <1>1, <1>9, <2>1, <2>3 DEF HostOK, PlanEnds
<1>10. ASSUME NEW m \in Models, BeginInstall(m) \/ PreflightAnswered(m)
       PROVE  UNCHANGED <<hostVars, modelPlans>>
  BY <1>10 DEF BeginInstall, PreflightAnswered
<1>11. ASSUME CloseInstall \/ Choose \/ RefreshAnswered PROVE UNCHANGED <<hostVars, modelPlans>>
  BY <1>11 DEF CloseInstall, Choose, RefreshAnswered
<1>12. ASSUME NEW c \in Confirms,
              \/ ConfirmInstall(c) \/ HostAnswersStart(c) \/ StartAnswered(c) \/ PollAsk(c)
              \/ PollAnswered(c) \/ WatchFails(c) \/ RequestFails(c)
       PROVE  UNCHANGED <<hostVars, modelPlans>>
  BY <1>12 DEF ConfirmInstall, HostAnswersStart, StartAnswered, PollAsk, PollAnswered, WatchFails,
     RequestFails, WatchOnly
<1>13. CASE UNCHANGED vars
  BY <1>2, <1>13 DEF vars
<1> QED
  BY <1>2, <1>3, <1>4, <1>5, <1>6, <1>7, <1>8, <1>9, <1>10, <1>11, <1>12, <1>13
  DEF Next, Worker, Watcher

LEMMA PlansStep == TypeOK /\ [Next]_vars => PlansOK'
<1> SUFFICES ASSUME TypeOK, [Next]_vars, NEW d \in Confirms, plan'[d] # "none"
             PROVE  watch'[d].stage # "idle"
  BY DEF PlansOK
<1>1. plan[d] # "none" => watch[d].stage # "idle"
  BY DEF TypeOK, PlansOK
<1>2. watch[d].stage # "idle" => watch'[d].stage # "idle"
  BY ModelsStay
<1>3. CASE plan[d] # "none"
  BY <1>1, <1>2, <1>3
<1>4. ASSUME NEW c \in Confirms, FleetRead(c) \/ PlanApplied(c) \/ PlanEnds(c), plan[d] = "none"
      PROVE  watch[d].stage # "idle"
  <2>1. plan \in [Confirms -> {"none", "draft", "applied", "finished", "failed"}]
    BY DEF TypeOK, HostOK
  <2> QED BY <1>4, <2>1 DEF FleetRead, PlanApplied, PlanEnds
<1>5. CASE plan[d] = "none" /\ ~\E c \in Confirms : FleetRead(c) \/ PlanApplied(c) \/ PlanEnds(c)
  <2>1. CASE UNCHANGED plan
    BY <1>5, <2>1
  <2>2. ASSUME NEW m \in Models, BeginInstall(m) \/ PreflightAnswered(m) \/ Worker(m)
        PROVE  UNCHANGED plan
    BY <2>2 DEF BeginInstall, PreflightAnswered, Worker, PullProgress, PullEnds, hostVars
  <2>3. ASSUME CloseInstall \/ Choose \/ RefreshAnswered PROVE UNCHANGED plan
    BY <2>3 DEF CloseInstall, Choose, RefreshAnswered, hostVars
  <2>4. ASSUME NEW c \in Confirms,
               \/ ConfirmInstall(c) \/ HostAnswersStart(c) \/ StartAnswered(c) \/ PollAsk(c)
               \/ PollAnswered(c) \/ WatchFails(c) \/ RequestFails(c) \/ HostStarts(c) \/ PlanAnswered(c)
        PROVE  UNCHANGED plan
    BY <2>4 DEF ConfirmInstall, HostAnswersStart, StartAnswered, PollAsk, PollAnswered, WatchFails,
       RequestFails, WatchOnly, HostStarts, PlanAnswered, hostVars
  <2>5. CASE UNCHANGED vars
    BY <2>1, <2>5 DEF vars, hostVars
  <2> QED BY <1>5, <2>1, <2>2, <2>3, <2>4, <2>5 DEF Next, Watcher
<1> QED BY <1>2, <1>3, <1>4, <1>5

\* What can become of the sheet.
SheetMoves ==
    \/ sheet' = sheet \/ sheet' = NoSheet \/ \E m \in Models : sheet' = Sheet(m)
    \/ \E found \in Findings \cup {"error"} : sheet' = [sheet EXCEPT !.preflight = found]
    \/ sheet.pull = "none" /\ sheet' = [sheet EXCEPT !.consent = ~@]
    \/ \E c \in Confirms : Pressed(c) /\ sheet' = [sheet EXCEPT !.starting = TRUE, !.pull = "none"]
    \/ \E c \in Confirms :
         /\ Goes(c) /\ Showing(c)
         /\ \/ /\ watch[c].stage = "answered"
               /\ sheet' = [sheet EXCEPT !.pull = watch[c].got, !.starting = FALSE]
            \/ /\ watch[c].stage = "asked"
               /\ sheet' = [sheet EXCEPT !.pull = watch[c].got]
            \/ /\ watch[c].stage = "refused"
               /\ sheet' = [sheet EXCEPT !.pull = "failed", !.starting = FALSE]

LEMMA SheetKinds == TypeOK /\ [Next]_vars => SheetMoves
<1> SUFFICES ASSUME TypeOK, [Next]_vars PROVE SheetMoves
  OBVIOUS
<1>1. CASE UNCHANGED sheet
  BY <1>1 DEF SheetMoves
<1>2. ASSUME NEW m \in Models, BeginInstall(m) PROVE SheetMoves
  BY <1>2 DEF BeginInstall, SheetMoves
<1>3. ASSUME NEW m \in Models, PreflightAnswered(m) PROVE SheetMoves
  <2>1. PICK found \in (IF scope = "cloud" THEN {"plain"} ELSE Findings) \cup {"error"} :
          sheet' = IF sheet.model = m THEN [sheet EXCEPT !.preflight = found] ELSE sheet
    BY <1>3 DEF PreflightAnswered
  <2>2. found \in Findings \cup {"error"}
    BY DEF Findings
  <2> QED BY <2>1, <2>2 DEF SheetMoves
<1>4. CASE CloseInstall
  BY <1>4 DEF CloseInstall, SheetMoves
<1>5. CASE Choose
  BY <1>5 DEF Choose, SheetMoves
<1>6. ASSUME NEW c \in Confirms, ConfirmInstall(c) PROVE SheetMoves
  BY <1>6, PressStep DEF ConfirmInstall, SheetMoves
<1>7. ASSUME NEW c \in Confirms, StartAnswered(c) PROVE SheetMoves
  BY <1>7, StartAnswerStep DEF StartAnswered, Dropped, SheetMoves
<1>8. ASSUME NEW c \in Confirms, PollAnswered(c) PROVE SheetMoves
  BY <1>8, PollAnswerStep DEF PollAnswered, Dropped, SheetMoves, Show
<1>9. ASSUME NEW c \in Confirms, WatchFails(c) PROVE SheetMoves
  BY <1>9, FailureStep DEF WatchFails, Dropped, SheetMoves
<1>10. ASSUME NEW c \in Confirms,
              \/ HostStarts(c) \/ HostAnswersStart(c) \/ FleetRead(c) \/ PlanAnswered(c) \/ PlanApplied(c)
              \/ PollAsk(c) \/ RequestFails(c) \/ PlanEnds(c)
       PROVE  UNCHANGED sheet
  BY <1>10 DEF HostStarts, HostAnswersStart, FleetRead, PlanAnswered, PlanApplied, PollAsk, RequestFails,
     PlanEnds
<1>11. ASSUME NEW m \in Models, Worker(m) PROVE UNCHANGED sheet
  BY <1>11 DEF Worker, PullProgress, PullEnds
<1>12. CASE RefreshAnswered
  BY <1>1, <1>12 DEF RefreshAnswered
<1>13. CASE UNCHANGED vars
  BY <1>1, <1>13 DEF vars
<1> QED
  BY <1>1, <1>2, <1>3, <1>4, <1>5, <1>6, <1>7, <1>8, <1>9, <1>10, <1>11, <1>12, <1>13 DEF Next, Watcher

LEMMA SheetTypeStep == TypeOK /\ [Next]_vars => sheet' \in SheetRecord
<1> SUFFICES ASSUME TypeOK, [Next]_vars PROVE sheet' \in SheetRecord
  OBVIOUS
<1>1. sheet \in SheetRecord
  BY DEF TypeOK, WindowOK
<1>2. NoSheet \in SheetRecord /\ \A m \in Models : Sheet(m) \in SheetRecord
  BY DEF NoSheet, Sheet, SheetRecord, Pulls
<1>3. \A found \in Findings \cup {"error"} : [sheet EXCEPT !.preflight = found] \in SheetRecord
  BY <1>1 DEF SheetRecord
<1>4. [sheet EXCEPT !.consent = ~@] \in SheetRecord
  BY <1>1 DEF SheetRecord
<1>5. \A pull \in Pulls : /\ [sheet EXCEPT !.starting = TRUE, !.pull = pull] \in SheetRecord
                         /\ [sheet EXCEPT !.pull = pull, !.starting = FALSE] \in SheetRecord
                         /\ [sheet EXCEPT !.pull = pull] \in SheetRecord
  BY <1>1 DEF SheetRecord
<1>6. "none" \in Pulls /\ "failed" \in Pulls /\ \A c \in Confirms : watch[c].got \in Pulls
  BY PullStates DEF Pulls, Terminal
<1> QED BY <1>1, <1>2, <1>3, <1>4, <1>5, <1>6, SheetKinds DEF SheetMoves

\* What is announced and what the pickers are told.
LEMMA GhostStep ==
    ASSUME TypeOK, [Next]_vars
    PROVE  /\ ghost' \in GhostRecord
           /\ ghost.spawnFailed => ghost'.spawnFailed
<1> DEFINE Goal == ghost' \in GhostRecord /\ (ghost.spawnFailed => ghost'.spawnFailed)
<1>1. ghost \in GhostRecord
  BY DEF TypeOK, WindowOK
<1>2. CASE UNCHANGED ghost
  BY <1>1, <1>2
<1>3. ASSUME NEW c \in Confirms, ConfirmInstall(c) PROVE Goal
  BY <1>1, <1>3 DEF ConfirmInstall, GhostRecord
<1>4. ASSUME NEW c \in Confirms, HostStarts(c) PROVE Goal
  BY <1>1, <1>4 DEF HostStarts, GhostRecord
<1>5. ASSUME NEW c \in Confirms, NEW got, watch[c].stage # "idle", Ends(c, got) PROVE Goal
  <2>1. watch[c].model \in Models
    BY <1>5, PullStates
  <2>2. ghost.reported \cup {c} \in SUBSET Confirms
        /\ ghost.announced \cup {watch[c].model} \in SUBSET Models
    BY <1>1, <2>1 DEF GhostRecord
  <2> DEFINE told == [ghost EXCEPT !.reported = @ \cup {c}, !.announced = @ \cup {watch[c].model}]
             over == [ghost EXCEPT !.reported = @ \cup {c}]
  <2>3. /\ told \in GhostRecord /\ told.spawnFailed = ghost.spawnFailed
        /\ over \in GhostRecord /\ over.spawnFailed = ghost.spawnFailed
    BY <1>1, <2>2 DEF GhostRecord
  <2>4. ghost' = NoteOverlap(told) \/ ghost' = over
    BY <1>5 DEF Ends
  <2> HIDE DEF told, over
  <2>5. NoteOverlap(told) \in GhostRecord /\ NoteOverlap(told).spawnFailed = told.spawnFailed
    BY <2>3 DEF NoteOverlap, GhostRecord
  <2> QED BY <2>3, <2>4, <2>5
<1>6. ASSUME NEW c \in Confirms, StartAnswered(c) \/ PollAnswered(c) \/ WatchFails(c) PROVE Goal
  <2>1. UNCHANGED ghost \/ \E got : Ends(c, got)
    BY <1>6 DEF StartAnswered, PollAnswered, WatchFails, Dropped
  <2>2. watch[c].stage # "idle"
    BY <1>6 DEF StartAnswered, PollAnswered, WatchFails
  <2> QED BY <1>2, <1>5, <2>1, <2>2
<1>7. CASE RefreshAnswered
  BY <1>1, <1>7 DEF RefreshAnswered, GhostRecord
<1>8. ASSUME NEW m \in Models, BeginInstall(m) \/ PreflightAnswered(m) \/ Worker(m)
      PROVE  UNCHANGED ghost
  BY <1>8 DEF BeginInstall, PreflightAnswered, Worker, PullProgress, PullEnds
<1>9. ASSUME CloseInstall \/ Choose PROVE UNCHANGED ghost
  BY <1>9 DEF CloseInstall, Choose
<1>10. ASSUME NEW c \in Confirms,
              \/ HostAnswersStart(c) \/ FleetRead(c) \/ PlanAnswered(c) \/ PlanApplied(c)
              \/ PollAsk(c) \/ RequestFails(c) \/ PlanEnds(c)
       PROVE  UNCHANGED ghost
  BY <1>10 DEF HostAnswersStart, FleetRead, PlanAnswered, PlanApplied, PollAsk, RequestFails, PlanEnds
<1>11. CASE UNCHANGED vars
  BY <1>2, <1>11 DEF vars
<1> QED
  BY <1>2, <1>3, <1>4, <1>6, <1>7, <1>8, <1>9, <1>10, <1>11 DEF Next, Watcher

LEMMA BoundsStep == TypeOK /\ [Next]_vars => bounds' \in [sheets : Nat, faults : Nat]
<1> SUFFICES ASSUME TypeOK, [Next]_vars PROVE bounds' \in [sheets : Nat, faults : Nat]
  OBVIOUS
<1> DEFINE Goal == bounds' \in [sheets : Nat, faults : Nat]
<1>1. bounds \in [sheets : Nat, faults : Nat]
  BY DEF TypeOK, WindowOK
<1>2. CASE UNCHANGED bounds
  BY <1>1, <1>2
<1>3. CASE Fault
  BY <1>1, <1>3 DEF Fault
<1>4. ASSUME NEW m \in Models, BeginInstall(m) PROVE Goal
  BY <1>1, <1>4 DEF BeginInstall
<1>5. ASSUME NEW m \in Models, PreflightAnswered(m) \/ Worker(m) PROVE UNCHANGED bounds
  BY <1>5 DEF PreflightAnswered, Worker, PullProgress, PullEnds
<1>6. ASSUME CloseInstall \/ Choose PROVE UNCHANGED bounds
  BY <1>6 DEF CloseInstall, Choose
<1>7. CASE RefreshAnswered
  BY <1>2, <1>3, <1>7 DEF RefreshAnswered
<1>8. ASSUME NEW c \in Confirms, Watcher(c) \/ ConfirmInstall(c) \/ RequestFails(c) \/ PlanEnds(c) PROVE Goal
  <2>1. UNCHANGED bounds \/ Fault
    BY <1>8 DEF Watcher, HostStarts, HostAnswersStart, FleetRead, PlanAnswered, PlanApplied, StartAnswered,
       PollAsk, PollAnswered, WatchFails, WatchOnly, ConfirmInstall, RequestFails, PlanEnds
  <2> QED BY <1>2, <1>3, <2>1
<1>9. CASE UNCHANGED vars
  BY <1>2, <1>9 DEF vars
<1> QED
  BY <1>2, <1>4, <1>5, <1>6, <1>7, <1>8, <1>9 DEF Next

\* What the pickers are told: a refresh asks for what is installed, its answer
\* replaces what was offered.
Told ==
    \/ UNCHANGED <<offered, refreshes, ghost>>
    \/ /\ UNCHANGED <<offered, refreshes>>
       /\ ghost'.announced = ghost.announced /\ ghost'.overlapped = ghost.overlapped
    \/ \E c \in Confirms :
         /\ watch[c].got = "installed" /\ watch[c].model \in Models
         /\ UNCHANGED <<offered, installed>> /\ Refresh
         /\ ghost'.announced = ghost.announced \cup {watch[c].model}
         /\ ghost'.overlapped = (ghost.overlapped \/ refreshes # {})
    \/ \E seen \in refreshes :
         /\ UNCHANGED installed /\ refreshes' = refreshes \ {seen}
         /\ ghost'.announced = ghost.announced
         /\ \/ offered' = seen /\ ghost'.overlapped = ghost.overlapped
            \/ offered' = offered /\ ghost'.overlapped

LEMMA EndsTell ==
    ASSUME TypeOK, NEW c \in Confirms, NEW got, watch[c].stage # "idle", Ends(c, got),
           got = "installed" => watch[c].got = "installed", UNCHANGED <<offered, installed>>
    PROVE  Told
<1>1. ghost \in GhostRecord /\ watch[c].model \in Models
  BY PullStates DEF TypeOK, WindowOK
<1>2. CASE got = "installed"
  <2> DEFINE told == [ghost EXCEPT !.reported = @ \cup {c}, !.announced = @ \cup {watch[c].model}]
  <2>1. /\ told.announced = ghost.announced \cup {watch[c].model} /\ told.overlapped = ghost.overlapped
        /\ DOMAIN told = DOMAIN ghost /\ "overlapped" \in DOMAIN told /\ "announced" \in DOMAIN told
    BY <1>1 DEF GhostRecord
  <2>2. ghost' = NoteOverlap(told) /\ Refresh
    BY <1>2 DEF Ends
  <2> HIDE DEF told
  <2>3. /\ NoteOverlap(told).announced = told.announced
        /\ NoteOverlap(told).overlapped = (told.overlapped \/ refreshes # {})
    BY <2>1 DEF NoteOverlap
  <2> QED BY <1>1, <1>2, <2>1, <2>2, <2>3 DEF Told
<1>3. CASE got # "installed"
  BY <1>1, <1>3 DEF Ends, Told, GhostRecord
<1> QED BY <1>2, <1>3

LEMMA Tells == TypeOK /\ [Next]_vars => Told
<1> SUFFICES ASSUME TypeOK, [Next]_vars PROVE Told
  OBVIOUS
<1>1. ghost \in GhostRecord
  BY DEF TypeOK, WindowOK
<1>2. CASE UNCHANGED <<offered, refreshes, ghost>>
  BY <1>2 DEF Told
<1>3. ASSUME NEW c \in Confirms, ConfirmInstall(c) \/ HostStarts(c) PROVE Told
  BY <1>1, <1>3 DEF ConfirmInstall, HostStarts, GhostRecord, Told
<1>4. ASSUME NEW c \in Confirms, StartAnswered(c) PROVE Told
  <2>1. UNCHANGED <<offered, installed>> /\ watch[c].stage # "idle"
    BY <1>4 DEF StartAnswered, WatchOnly, hostVars
  <2> QED BY <1>2, <1>4, <2>1, EndsTell DEF StartAnswered, Dropped
<1>5. ASSUME NEW c \in Confirms, PollAnswered(c) PROVE Told
  <2>1. UNCHANGED <<offered, installed>> /\ watch[c].stage # "idle"
    BY <1>5 DEF PollAnswered, WatchOnly, hostVars
  <2> QED BY <1>2, <1>5, <2>1, EndsTell DEF PollAnswered, Dropped, WatchOnly
<1>6. ASSUME NEW c \in Confirms, WatchFails(c) PROVE Told
  <2>1. UNCHANGED <<offered, installed>> /\ watch[c].stage # "idle"
    BY <1>6 DEF WatchFails, WatchOnly, hostVars
  <2> QED BY <1>2, <1>6, <2>1, EndsTell DEF WatchFails, Dropped, WatchOnly
<1>7. CASE RefreshAnswered
  BY <1>1, <1>7 DEF RefreshAnswered, GhostRecord, Told, hostVars
<1>8. ASSUME NEW m \in Models, BeginInstall(m) \/ PreflightAnswered(m) \/ Worker(m) PROVE Told
  BY <1>2, <1>8 DEF BeginInstall, PreflightAnswered, Worker, PullProgress, PullEnds
<1>9. ASSUME CloseInstall \/ Choose PROVE Told
  BY <1>2, <1>9 DEF CloseInstall, Choose
<1>10. ASSUME NEW c \in Confirms,
              \/ HostAnswersStart(c) \/ FleetRead(c) \/ PlanAnswered(c) \/ PlanApplied(c)
              \/ PollAsk(c) \/ RequestFails(c) \/ PlanEnds(c)
       PROVE  UNCHANGED <<offered, refreshes, ghost>>
  BY <1>10 DEF HostAnswersStart, FleetRead, PlanAnswered, PlanApplied, PollAsk, RequestFails, PlanEnds,
     WatchOnly
<1>11. CASE UNCHANGED vars
  BY <1>2, <1>11 DEF vars
<1> QED BY <1>2, <1>3, <1>4, <1>5, <1>6, <1>7, <1>8, <1>9, <1>10, <1>11 DEF Next, Watcher

LEMMA WindowTypeStep == TypeOK /\ [Next]_vars => WindowOK'
<1> SUFFICES ASSUME TypeOK, [Next]_vars PROVE WindowOK'
  OBVIOUS
<1>1. WindowOK /\ installed \subseteq Models
  BY DEF TypeOK, HostOK
<1>2. checks' \subseteq Models
  <2>1. ASSUME NEW m \in Models, BeginInstall(m) \/ PreflightAnswered(m) \/ Worker(m) PROVE checks' \subseteq Models
    BY <1>1, <2>1 DEF WindowOK, BeginInstall, PreflightAnswered, Worker, PullProgress, PullEnds
  <2>2. ASSUME CloseInstall \/ Choose \/ RefreshAnswered PROVE UNCHANGED checks
    BY <2>2 DEF CloseInstall, Choose, RefreshAnswered
  <2>3. ASSUME NEW c \in Confirms, Watcher(c) \/ ConfirmInstall(c) \/ RequestFails(c) \/ PlanEnds(c)
        PROVE UNCHANGED checks
    BY <2>3 DEF Watcher, HostStarts, HostAnswersStart, FleetRead, PlanAnswered, PlanApplied, StartAnswered,
       PollAsk, PollAnswered, WatchFails, WatchOnly, ConfirmInstall, RequestFails, PlanEnds
  <2>4. CASE UNCHANGED vars
    BY <1>1, <2>4 DEF WindowOK, vars
  <2> QED BY <1>1, <2>1, <2>2, <2>3, <2>4 DEF Next, WindowOK
<1>3. offered' \subseteq Models /\ refreshes' \subseteq SUBSET Models
  <2>1. Told
    BY Tells
  <2> QED BY <1>1, <2>1 DEF Told, Refresh, WindowOK
<1> QED BY <1>2, <1>3, SheetTypeStep, GhostStep, BoundsStep DEF WindowOK

LEMMA TypeStep == TypeOK /\ [Next]_vars => TypeOK'
<1> SUFFICES ASSUME TypeOK, [Next]_vars PROVE TypeOK'
  OBVIOUS
<1>1. UNCHANGED scope
  <2>1. ASSUME NEW m \in Models, BeginInstall(m) \/ PreflightAnswered(m) \/ Worker(m) PROVE UNCHANGED scope
    BY <2>1 DEF BeginInstall, PreflightAnswered, Worker, PullProgress, PullEnds
  <2>2. ASSUME CloseInstall \/ Choose \/ RefreshAnswered PROVE UNCHANGED scope
    BY <2>2 DEF CloseInstall, Choose, RefreshAnswered
  <2>3. ASSUME NEW c \in Confirms, Watcher(c) \/ ConfirmInstall(c) \/ RequestFails(c) \/ PlanEnds(c)
        PROVE UNCHANGED scope
    BY <2>3 DEF Watcher, HostStarts, HostAnswersStart, FleetRead, PlanAnswered, PlanApplied, StartAnswered,
       PollAsk, PollAnswered, WatchFails, WatchOnly, ConfirmInstall, RequestFails, PlanEnds
  <2>4. CASE UNCHANGED vars
    BY <2>4 DEF vars
  <2> QED BY <2>1, <2>2, <2>3, <2>4 DEF Next
<1> QED BY <1>1, HostTypeStep, WindowTypeStep, WatchStep, PlansStep DEF TypeOK

-----------------------------------------------------------------------------
(* The invariants step by step. *)

\* Only the host and the plans work on what is installed, which is never less.
HostQuiet == UNCHANGED <<record, threads, plan, modelPlans, installed>>

LEMMA HostFrames ==
    ASSUME [Next]_vars
    PROVE  \/ HostQuiet
           \/ \E m \in Models : PullProgress(m) \/ PullEnds(m)
           \/ \E c \in Confirms :
                HostStarts(c) \/ FleetRead(c) \/ PlanAnswered(c) \/ PlanApplied(c) \/ PlanEnds(c)
<1>1. ASSUME NEW m \in Models, BeginInstall(m) \/ PreflightAnswered(m) PROVE HostQuiet
  BY <1>1 DEF BeginInstall, PreflightAnswered, hostVars, HostQuiet
<1>2. ASSUME CloseInstall \/ Choose \/ RefreshAnswered PROVE HostQuiet
  BY <1>2 DEF CloseInstall, Choose, RefreshAnswered, hostVars, HostQuiet
<1>3. ASSUME NEW c \in Confirms,
             \/ ConfirmInstall(c) \/ HostAnswersStart(c) \/ StartAnswered(c) \/ PollAsk(c)
             \/ PollAnswered(c) \/ WatchFails(c) \/ RequestFails(c)
      PROVE  HostQuiet
  BY <1>3 DEF ConfirmInstall, HostAnswersStart, StartAnswered, PollAsk, PollAnswered, WatchFails,
     RequestFails, WatchOnly, hostVars, HostQuiet
<1>4. CASE UNCHANGED vars
  BY <1>4 DEF vars, hostVars, HostQuiet
<1> QED BY <1>1, <1>2, <1>3, <1>4 DEF Next, Worker, Watcher

LEMMA InstalledGrows ==
    ASSUME [Next]_vars
    PROVE  installed \subseteq installed'
BY HostFrames DEF HostQuiet, PullProgress, PullEnds, HostStarts, FleetRead, PlanAnswered, PlanApplied,
   PlanEnds, hostVars

LEMMA OnePullStep == TypeOK /\ OnePullPerModel /\ [Next]_vars => OnePullPerModel'
<1> SUFFICES ASSUME TypeOK, OnePullPerModel, [Next]_vars PROVE OnePullPerModel'
  OBVIOUS
<1>1. /\ record \in [Models -> Pulls] /\ threads \in [Models -> Nat]
      /\ ghost \in GhostRecord
  BY DEF TypeOK, HostOK, WindowOK
<1>2. CASE UNCHANGED <<record, threads>>
  BY <1>2, GhostStep DEF OnePullPerModel
<1>3. ASSUME NEW m \in Models, PullProgress(m) PROVE OnePullPerModel'
  BY <1>1, <1>3 DEF OnePullPerModel, PullProgress, Active
<1>4. ASSUME NEW m \in Models, PullEnds(m) PROVE OnePullPerModel'
  <2> SUFFICES ASSUME NEW n \in Models
               PROVE  /\ threads'[n] <= 1
                      /\ threads'[n] = 1 => record'[n] \in Active
                      /\ record'[n] \in Active => threads'[n] = 1 \/ ghost'.spawnFailed
    BY DEF OnePullPerModel
  <2>1. CASE n = m
    <3>1. threads[m] = 1 /\ threads'[m] = 0
      BY <1>1, <1>4 DEF OnePullPerModel, PullEnds
    <3>2. record'[m] \in {"installed", "failed"}
      BY <1>1, <1>4 DEF PullEnds
    <3> QED BY <2>1, <3>1, <3>2 DEF Active
  <2>2. CASE n # m
    BY <1>1, <1>4, <2>2 DEF OnePullPerModel, PullEnds
  <2> QED BY <2>1, <2>2
<1>5. ASSUME NEW c \in Confirms, HostStarts(c) PROVE OnePullPerModel'
  <2> DEFINE m == watch[c].model
  <2>1. m \in Models
    BY <1>5, PullStates DEF HostStarts
  <2>2. CASE UNCHANGED <<record, threads>>
    BY <1>2, <2>2
  <2>3. CASE /\ record[m] \notin Active /\ record' = [record EXCEPT ![m] = "preparing"]
             /\ \/ threads' = [threads EXCEPT ![m] = @ + 1] /\ UNCHANGED ghost
                \/ UNCHANGED threads /\ ghost' = [ghost EXCEPT !.spawnFailed = TRUE]
    <3>1. threads[m] = 0
      BY <1>1, <2>1, <2>3 DEF OnePullPerModel
    <3>2. UNCHANGED ghost \/ ghost'.spawnFailed
      BY <1>1, <2>3 DEF GhostRecord
    <3> HIDE DEF m
    <3>3. \A n \in Models \ {m} : record'[n] = record[n] /\ threads'[n] = threads[n]
      BY <1>1, <2>1, <2>3
    <3>4. record'[m] = "preparing" /\ (threads'[m] = 1 \/ (threads'[m] = 0 /\ ghost'.spawnFailed))
      BY <1>1, <2>1, <2>3, <3>1, <3>2 DEF GhostRecord
    <3> QED BY <2>1, <3>2, <3>3, <3>4 DEF OnePullPerModel, Active
  <2> QED BY <1>5, <2>2, <2>3 DEF HostStarts
<1>6. ASSUME NEW c \in Confirms, FleetRead(c) \/ PlanAnswered(c) \/ PlanApplied(c) \/ PlanEnds(c)
      PROVE  UNCHANGED <<record, threads>>
  BY <1>6 DEF FleetRead, PlanAnswered, PlanApplied, PlanEnds, hostVars
<1> QED BY <1>2, <1>3, <1>4, <1>5, <1>6, HostFrames DEF HostQuiet

\* Nothing says "installed" too early: the records and the plans.
RecordsTrue == \A m \in Models : record[m] = "installed" => m \in installed
PollsTrue ==
    \A m \in Models : modelPlans[m] # None =>
      watch[modelPlans[m]].stage # "idle" /\ watch[modelPlans[m]].model = m
PlansTrue == \A c \in Confirms : plan[c] = "finished" => watch[c].model \in installed
AnswersTrue == \A c \in Confirms : watch[c].got = "installed" => watch[c].model \in installed
SheetTrue == sheet.pull = "installed" => sheet.model \in installed

LEMMA RecordsStep == TypeOK /\ RecordsTrue /\ [Next]_vars => RecordsTrue'
<1> SUFFICES ASSUME TypeOK, RecordsTrue, [Next]_vars PROVE RecordsTrue'
  OBVIOUS
<1>1. record \in [Models -> Pulls] /\ installed \subseteq installed'
  BY InstalledGrows DEF TypeOK, HostOK
<1>2. CASE UNCHANGED record
  BY <1>1, <1>2 DEF RecordsTrue
<1>3. ASSUME NEW m \in Models, PullProgress(m) \/ PullEnds(m) PROVE RecordsTrue'
  BY <1>1, <1>3 DEF RecordsTrue, PullProgress, PullEnds
<1>4. ASSUME NEW c \in Confirms, HostStarts(c) PROVE RecordsTrue'
  BY <1>1, <1>4 DEF RecordsTrue, HostStarts
<1>5. ASSUME NEW c \in Confirms, FleetRead(c) \/ PlanAnswered(c) \/ PlanApplied(c) \/ PlanEnds(c)
      PROVE  UNCHANGED record
  BY <1>5 DEF FleetRead, PlanAnswered, PlanApplied, PlanEnds, hostVars
<1> QED BY <1>2, <1>3, <1>4, <1>5, HostFrames DEF HostQuiet

LEMMA PollsStep == TypeOK /\ PollsTrue /\ [Next]_vars => PollsTrue'
<1> SUFFICES ASSUME TypeOK, PollsTrue, [Next]_vars,
                    NEW m \in Models, modelPlans'[m] # None
             PROVE  watch'[modelPlans'[m]].stage # "idle" /\ watch'[modelPlans'[m]].model = m
  BY DEF PollsTrue
<1>1. modelPlans \in [Models -> Confirms \cup {None}]
  BY DEF TypeOK, HostOK
<1>2. CASE modelPlans'[m] = modelPlans[m]
  <2>1. modelPlans[m] \in Confirms /\ watch[modelPlans[m]].stage # "idle" /\ watch[modelPlans[m]].model = m
    BY <1>1, <1>2 DEF PollsTrue
  <2> QED BY <1>2, <2>1, ModelsStay
<1>3. ASSUME NEW c \in Confirms, FleetRead(c), modelPlans'[m] # modelPlans[m] PROVE FALSE
  BY <1>1, <1>3 DEF FleetRead
<1>4. ASSUME NEW c \in Confirms, PlanAnswered(c), modelPlans'[m] # modelPlans[m]
      PROVE  modelPlans'[m] = c /\ watch[c].model = m /\ watch[c].stage # "idle"
  BY <1>1, <1>4 DEF PlanAnswered
<1>5. ASSUME NEW c \in Confirms, HostStarts(c) \/ PlanApplied(c) \/ PlanEnds(c) PROVE UNCHANGED modelPlans
  BY <1>5 DEF HostStarts, PlanApplied, PlanEnds
<1>6. ASSUME NEW n \in Models, PullProgress(n) \/ PullEnds(n) PROVE UNCHANGED modelPlans
  BY <1>6 DEF PullProgress, PullEnds
<1>7. CASE \E c \in Confirms : PlanAnswered(c) /\ modelPlans'[m] # modelPlans[m]
  BY <1>4, <1>7, ModelsStay
<1> QED BY <1>2, <1>3, <1>5, <1>6, <1>7, HostFrames DEF HostQuiet

LEMMA PlansTrueStep == TypeOK /\ PlansTrue /\ [Next]_vars => PlansTrue'
<1> SUFFICES ASSUME TypeOK, PlansTrue, [Next]_vars, NEW d \in Confirms, plan'[d] = "finished"
             PROVE  watch'[d].model \in installed'
  BY DEF PlansTrue
<1>1. /\ plan \in [Confirms -> {"none", "draft", "applied", "finished", "failed"}]
      /\ installed \subseteq installed'
  BY InstalledGrows DEF TypeOK, HostOK
<1>2. ASSUME plan[d] # "none" PROVE watch'[d].model = watch[d].model
  BY <1>2, ModelsStay DEF TypeOK, PlansOK
<1>3. CASE plan[d] = "finished"
  BY <1>1, <1>2, <1>3 DEF PlansTrue
<1>4. ASSUME NEW c \in Confirms, HostStarts(c) \/ FleetRead(c) \/ PlanAnswered(c) \/ PlanApplied(c)
      PROVE  plan[d] = "finished"
  BY <1>1, <1>4 DEF HostStarts, FleetRead, PlanAnswered, PlanApplied, hostVars
<1>5. ASSUME NEW c \in Confirms, PlanEnds(c), plan[d] # "finished"
      PROVE  plan[d] # "none" /\ watch[d].model \in installed'
  BY <1>1, <1>5 DEF PlanEnds
<1>6. ASSUME NEW m \in Models, PullProgress(m) \/ PullEnds(m) PROVE plan[d] = "finished"
  BY <1>6 DEF PullProgress, PullEnds
<1>7. CASE \E c \in Confirms : PlanEnds(c)
  BY <1>2, <1>3, <1>5, <1>7
<1> QED BY <1>3, <1>4, <1>6, <1>7, HostFrames DEF HostQuiet

LEMMA AnswersStep == TypeOK /\ Truthful /\ [Next]_vars => AnswersTrue'
<1> SUFFICES ASSUME TypeOK, Truthful, [Next]_vars, NEW d \in Confirms, watch'[d].got = "installed"
             PROVE  watch'[d].model \in installed'
  BY DEF AnswersTrue
<1>1. installed \subseteq installed'
  BY InstalledGrows
<1>2. CASE watch'[d].got = watch[d].got /\ watch'[d].model = watch[d].model
  BY <1>1, <1>2 DEF Truthful
<1>3. ASSUME NEW m \in Models, BeginInstall(m) \/ PreflightAnswered(m) \/ Worker(m)
      PROVE  UNCHANGED watch
  BY <1>3 DEF BeginInstall, PreflightAnswered, Worker, PullProgress, PullEnds
<1>4. ASSUME CloseInstall \/ Choose \/ RefreshAnswered PROVE UNCHANGED watch
  BY <1>4 DEF CloseInstall, Choose, RefreshAnswered
<1>5. ASSUME NEW c \in Confirms, ConfirmInstall(c)
      PROVE  watch'[d].got = watch[d].got /\ watch'[d].model = watch[d].model
  BY <1>5, PressStep DEF Pressed
<1>6. ASSUME NEW c \in Confirms, PlanEnds(c) PROVE UNCHANGED watch
  BY <1>6 DEF PlanEnds
<1>7. ASSUME NEW c \in Confirms, Watcher(c) \/ RequestFails(c)
      PROVE  Goes(c) /\ (watch'[c].got = "installed" => watch[c].model \in installed)
  <2>1. ASSUME HostStarts(c) \/ PlanAnswered(c)
        PROVE Goes(c) /\ watch'[c].got = watch[c].got
    BY <2>1, HostStep, PlanAnswerStep
  <2>2. ASSUME HostAnswersStart(c)
        PROVE Goes(c) /\ watch[c].model \in Models /\ watch'[c].got = record[watch[c].model]
    BY <2>2, HostAnswerStep, PullStates DEF HostAnswersStart
  <2>3. ASSUME PollAsk(c)
        PROVE Goes(c) /\ (watch'[c].got = "installed" => watch[c].model \in installed)
    <3> DEFINE m == watch[c].model
    <3>1. Goes(c) /\ m \in Models
      BY <2>3, PollAskStep, PullStates
    <3>2. CASE watch'[c].got = record[m]
      BY <3>1, <3>2 DEF Truthful
    <3>3. CASE modelPlans[m] # None /\ watch'[c].got = planToPull(plan[modelPlans[m]])
      <4>1. modelPlans[m] \in Confirms /\ watch[modelPlans[m]].model = m
        BY <3>1, <3>3 DEF Truthful, TypeOK, HostOK
      <4>2. planToPull(plan[modelPlans[m]]) = "installed" => plan[modelPlans[m]] = "finished"
        BY DEF planToPull
      <4> QED BY <3>1, <3>3, <4>1, <4>2 DEF Truthful
    <3> QED BY <2>3, <3>1, <3>2, <3>3, PollAskStep
  <2>4. ASSUME FleetRead(c)
        PROVE Goes(c) /\ (watch'[c].got = watch[c].got \/ watch[c].model \in installed)
    BY <2>4, FleetStep
  <2>5. ASSUME PlanApplied(c) \/ StartAnswered(c) \/ PollAnswered(c) \/ WatchFails(c) \/ RequestFails(c)
        PROVE Goes(c) /\ watch'[c].got # "installed"
    BY <2>5, PlanApplyStep, StartAnswerStep, PollAnswerStep, FailureStep, RequestStep
  <2> QED BY <1>7, <2>1, <2>2, <2>3, <2>4, <2>5 DEF Watcher, Truthful
<1>8. CASE \E c \in Confirms : Watcher(c) \/ RequestFails(c)
  BY <1>1, <1>2, <1>7, <1>8 DEF Goes
<1>9. CASE UNCHANGED vars
  BY <1>2, <1>9 DEF vars
<1> QED BY <1>2, <1>3, <1>4, <1>5, <1>6, <1>8, <1>9 DEF Next

LEMMA SheetTrueStep == TypeOK /\ Truthful /\ [Next]_vars => SheetTrue'
<1> SUFFICES ASSUME TypeOK, Truthful, [Next]_vars, sheet'.pull = "installed"
             PROVE  sheet'.model \in installed'
  BY DEF SheetTrue
<1>1. installed \subseteq installed' /\ sheet \in SheetRecord
  BY InstalledGrows DEF TypeOK, WindowOK
<1>2. CASE sheet'.pull = sheet.pull /\ sheet'.model = sheet.model
  BY <1>1, <1>2 DEF Truthful
<1>3. CASE sheet' = NoSheet \/ \E m \in Models : sheet' = Sheet(m)
  BY <1>3 DEF NoSheet, Sheet
<1>4. ASSUME NEW c \in Confirms, Showing(c), sheet'.pull = watch[c].got, sheet'.model = sheet.model
      PROVE  sheet'.model \in installed'
  BY <1>1, <1>4 DEF Showing, Truthful
<1> QED BY <1>1, <1>2, <1>3, <1>4, SheetKinds DEF SheetMoves, SheetRecord

LEMMA TruthfulStep == TypeOK /\ Truthful /\ [Next]_vars => Truthful'
BY RecordsStep, PollsStep, PlansTrueStep, AnswersStep, SheetTrueStep
   DEF Truthful, RecordsTrue, PollsTrue, PlansTrue, AnswersTrue, SheetTrue

LEMMA OffersStep == TypeOK /\ Truthful /\ Offers /\ [Next]_vars => Offers'
<1> SUFFICES ASSUME TypeOK, Truthful, Offers, [Next]_vars PROVE Offers'
  OBVIOUS
<1>1. installed \subseteq installed'
  BY InstalledGrows
<1>2. CASE /\ UNCHANGED <<offered, refreshes>>
           /\ ghost'.announced = ghost.announced /\ ghost'.overlapped = ghost.overlapped
  BY <1>1, <1>2 DEF Offers
<1>3. ASSUME NEW c \in Confirms, watch[c].got = "installed",
             UNCHANGED <<offered, installed>>, refreshes' = refreshes \cup {installed},
             ghost'.announced = ghost.announced \cup {watch[c].model},
             ghost'.overlapped = (ghost.overlapped \/ refreshes # {})
      PROVE  Offers'
  <2>1. watch[c].model \in installed
    BY <1>3 DEF Truthful
  <2>2. offered' \subseteq installed' /\ refreshes' \subseteq SUBSET installed'
        /\ ghost'.announced \subseteq installed'
    BY <1>3, <2>1 DEF Offers
  <2>3. ~ghost'.overlapped => refreshes' = {installed} /\ installed \in refreshes'
    BY <1>3
  <2> QED BY <1>3, <2>2, <2>3 DEF Offers
<1>4. ASSUME NEW seen \in refreshes, UNCHANGED installed, refreshes' = refreshes \ {seen},
             ghost'.announced = ghost.announced,
             \/ offered' = seen /\ ghost'.overlapped = ghost.overlapped
             \/ offered' = offered /\ ghost'.overlapped
      PROVE  Offers'
  <2>1. offered' \subseteq installed' /\ refreshes' \subseteq SUBSET installed'
        /\ ghost'.announced \subseteq installed'
    BY <1>4 DEF Offers
  <2>2. ~ghost'.overlapped => refreshes = {seen} /\ ghost.announced \subseteq seen
    BY <1>4 DEF Offers
  <2> QED BY <1>4, <2>1, <2>2 DEF Offers
<1> QED BY <1>2, <1>3, <1>4, Tells DEF Told, Refresh

\* A watcher that goes on without touching the sheet, and has not come to its end
\* unless it was taken over.
Steady(c) ==
    /\ Goes(c) /\ UNCHANGED sheet
    /\ ~watch[c].aborted => watch'[c].stage # "over"
    /\ watch[c].stage \in StartStages /\ watch'[c].stage # "over" => watch'[c].stage \in StartStages

LEMMA SteadySteps ==
    ASSUME TypeOK, NEW c \in Confirms,
           \/ HostStarts(c) \/ HostAnswersStart(c) \/ FleetRead(c) \/ PlanAnswered(c) \/ PlanApplied(c)
           \/ PollAsk(c) \/ RequestFails(c)
    PROVE  Steady(c)
<1>1. UNCHANGED sheet
  BY DEF HostStarts, HostAnswersStart, FleetRead, PlanAnswered, PlanApplied, PollAsk, RequestFails
<1>2. CASE HostStarts(c)
  BY <1>1, <1>2, HostStep DEF Steady, StartStages
<1>3. CASE HostAnswersStart(c)
  BY <1>1, <1>3, HostAnswerStep DEF Steady, StartStages
<1>4. CASE FleetRead(c)
  BY <1>1, <1>4, FleetStep DEF Steady, StartStages
<1>5. CASE PlanAnswered(c) \/ PlanApplied(c)
  BY <1>1, <1>5, PlanAnswerStep, PlanApplyStep DEF Steady, StartStages
<1>6. CASE PollAsk(c)
  <2>1. Goes(c) /\ watch[c].stage = "poll"
    BY <1>6, PollAskStep
  <2>2. ~watch[c].aborted => watch'[c].stage # "over"
    <3> SUFFICES ASSUME ~watch[c].aborted PROVE watch'[c].stage # "over"
      OBVIOUS
    <3>1. watch[c].model \in Models
      BY <2>1, PullStates
    <3>2. \E s \in {"asked", "refused"}, g \in Pulls : Stage(c, s, g) /\ UNCHANGED watches
      BY <1>6, <3>1, PullStates DEF PollAsk, Pulls
    <3> QED BY <2>1, <3>2, Going DEF Stages, StartStages
  <2> QED BY <1>1, <2>1, <2>2 DEF Steady, StartStages
<1>7. CASE RequestFails(c)
  BY <1>1, <1>7, RequestStep DEF Steady, StartStages
<1> QED BY <1>2, <1>3, <1>4, <1>5, <1>6, <1>7

LEMMA FollowedStep == TypeOK /\ Listed /\ Followed /\ [Next]_vars => Followed'
<1> SUFFICES ASSUME TypeOK, Listed, Followed, [Next]_vars PROVE Followed'
  OBVIOUS
<1>1. sheet \in SheetRecord
  BY DEF TypeOK, WindowOK
<1>2. ASSUME sheet'.pull = sheet.pull \/ sheet'.pull \notin Active,
             sheet'.starting = sheet.starting, sheet'.model = sheet.model, UNCHANGED watch
      PROVE  Followed'
  BY <1>2 DEF Followed, Works
<1>3. ASSUME sheet'.pull \notin Active, ~sheet'.starting PROVE Followed'
  BY <1>3 DEF Followed
<1>4. ASSUME NEW c \in Confirms, Goes(c), ~Showing(c), UNCHANGED sheet PROVE Followed'
  BY <1>4 DEF Followed, Works, Goes, Showing
<1>5. ASSUME NEW c \in Confirms, Steady(c) PROVE Followed'
  BY <1>5 DEF Followed, Works, Goes, Steady
<1>6. ASSUME NEW c \in Confirms, StartAnswered(c) PROVE Followed'
  <2>1. /\ Goes(c) /\ watch[c].stage = "answered"
        /\ \/ watch'[c].stage = "over"
           \/ ~watch[c].aborted /\ watch'[c].stage = "poll"
    BY <1>6, StartAnswerStep
  <2>2. CASE ~Showing(c)
    BY <1>4, <1>6, <2>1, <2>2 DEF StartAnswered, Dropped
  <2>3. CASE Showing(c)
    <3>1. sheet' = [sheet EXCEPT !.pull = watch[c].got, !.starting = FALSE] /\ ~watch[c].aborted
      BY <1>6, <2>3 DEF StartAnswered, Showing
    <3>2. sheet'.pull = watch[c].got /\ ~sheet'.starting /\ sheet'.model = sheet.model
      BY <1>1, <3>1 DEF SheetRecord
    <3>3. CASE watch[c].got \notin Active
      BY <1>3, <3>2, <3>3
    <3>4. CASE watch[c].got \in Active
      <4>1. watch[c].got # "installed"
        BY <3>4 DEF Active
      <4>2. Stage(c, "poll", "none") /\ UNCHANGED watches
        BY <1>6, <3>1, <4>1 DEF StartAnswered
      <4>3. watch'[c].stage = "poll"
        BY <2>1, <4>2, Going DEF Stages, Pulls
      <4>4. watch'[c].model = sheet'.model /\ ~watch'[c].aborted /\ sheet'.model \in Models
        BY <2>1, <2>3, <3>1, <3>2, PullStates DEF Goes, Showing
      <4> QED BY <3>2, <4>3, <4>4 DEF Followed, Works
    <3> QED BY <3>3, <3>4
  <2> QED BY <2>2, <2>3
<1>7. ASSUME NEW c \in Confirms, PollAnswered(c) PROVE Followed'
  <2>1. /\ Goes(c) /\ watch[c].stage = "asked"
        /\ \/ watch'[c].stage = "over" /\ (watch[c].aborted \/ watch[c].got \in Terminal)
           \/ watch'[c].stage = "poll" /\ ~watch[c].aborted /\ watch[c].got \in Active
    BY <1>7, PollAnswerStep
  <2>2. CASE ~Showing(c)
    BY <1>4, <1>7, <2>1, <2>2 DEF PollAnswered, Dropped, Show
  <2>3. CASE Showing(c)
    <3>1. sheet' = [sheet EXCEPT !.pull = watch[c].got] /\ ~watch[c].aborted
      BY <1>7, <2>3 DEF PollAnswered, Showing, Show
    <3>2. sheet'.pull = watch[c].got /\ sheet'.starting = sheet.starting /\ sheet'.model = sheet.model
      BY <1>1, <3>1 DEF SheetRecord
    <3>3. Works(c) /\ watch[c].model = sheet.model /\ watches[sheet.model] = c
      BY <2>1, <2>3 DEF Works, Showing, Listed
    <3>4. ~sheet.starting
      BY <2>1, <3>3 DEF Followed, Listed, StartStages
    <3>5. CASE watch[c].got \notin Active
      BY <1>3, <3>2, <3>4, <3>5
    <3>6. CASE watch[c].got \in Active
      <4>1. watch'[c].stage = "poll"
        BY <2>1, <3>1, <3>6 DEF Active, Terminal
      <4>2. watch'[c].model = sheet'.model /\ ~watch'[c].aborted /\ sheet'.model \in Models
        BY <2>1, <2>3, <3>1, <3>2, PullStates DEF Goes, Showing
      <4> QED BY <3>2, <3>4, <4>1, <4>2 DEF Followed, Works
    <3> QED BY <3>5, <3>6
  <2> QED BY <2>2, <2>3
<1>8. ASSUME NEW c \in Confirms, WatchFails(c) PROVE Followed'
  <2>1. Goes(c)
    BY <1>8, FailureStep
  <2>2. CASE ~Showing(c)
    BY <1>4, <1>8, <2>1, <2>2 DEF WatchFails, Dropped
  <2>3. CASE Showing(c)
    <3>1. sheet' = [sheet EXCEPT !.pull = "failed", !.starting = FALSE]
      BY <1>8, <2>3 DEF WatchFails, Showing
    <3> QED BY <1>1, <1>3, <3>1 DEF SheetRecord, Active
  <2> QED BY <2>2, <2>3
<1>9. ASSUME NEW c \in Confirms, ConfirmInstall(c) PROVE Followed'
  <2>1. Pressed(c)
    BY <1>9, PressStep
  <2>2. sheet' = [sheet EXCEPT !.starting = TRUE, !.pull = "none"]
    BY <1>9 DEF ConfirmInstall
  <2>3. sheet'.model = sheet.model
    BY <1>1, <2>2 DEF SheetRecord
  <2> QED BY <2>1, <2>3 DEF Pressed, Followed, Works, StartStages
<1>10. ASSUME NEW m \in Models, BeginInstall(m) PROVE Followed'
  BY <1>3, <1>10 DEF BeginInstall, Sheet, NoSheet, Active
<1>11. ASSUME NEW m \in Models, PreflightAnswered(m) PROVE Followed'
  BY <1>1, <1>2, <1>11 DEF PreflightAnswered, SheetRecord
<1>12. CASE CloseInstall
  BY <1>3, <1>12 DEF CloseInstall, NoSheet, Active
<1>13. CASE Choose
  BY <1>1, <1>2, <1>13 DEF Choose, SheetRecord
<1>14. CASE UNCHANGED <<sheet, watch>>
  BY <1>2, <1>14
<1>15. ASSUME NEW m \in Models, Worker(m) PROVE UNCHANGED <<sheet, watch>>
  BY <1>15 DEF Worker, PullProgress, PullEnds
<1>16. ASSUME NEW c \in Confirms, PlanEnds(c) PROVE UNCHANGED <<sheet, watch>>
  BY <1>16 DEF PlanEnds
<1>17. ASSUME RefreshAnswered \/ UNCHANGED vars PROVE UNCHANGED <<sheet, watch>>
  BY <1>17 DEF RefreshAnswered, vars
<1>18. ASSUME NEW c \in Confirms,
              \/ HostStarts(c) \/ HostAnswersStart(c) \/ FleetRead(c) \/ PlanAnswered(c) \/ PlanApplied(c)
              \/ PollAsk(c) \/ RequestFails(c)
       PROVE  Followed'
  BY <1>5, <1>18, SteadySteps
<1> QED
  BY <1>6, <1>7, <1>8, <1>9, <1>10, <1>11, <1>12, <1>13, <1>14, <1>15, <1>16, <1>17, <1>18
  DEF Next, Watcher

-----------------------------------------------------------------------------
LEMMA InstallInit == Init => InstallInv
<1> SUFFICES ASSUME Init PROVE InstallInv
  OBVIOUS
<1>1. HostOK
  BY InstallAssumption DEF Init, HostOK, Pulls
<1>2. WindowOK
  <2>1. sheet \in SheetRecord
    BY DEF Init, NoSheet, SheetRecord, Pulls
  <2>2. ghost \in GhostRecord
    BY DEF Init, GhostRecord
  <2> QED BY <2>1, <2>2 DEF Init, WindowOK
<1>3. WatchOK
  <2>1. Idle \in WatchRecord /\ Idle.stage = "idle"
    BY DEF Idle, WatchRecord, Stages, Pulls
  <2> QED BY <2>1 DEF Init, WatchOK
<1>4. TypeOK
  BY <1>1, <1>2, <1>3 DEF Init, TypeOK, PlansOK
<1>5. Listed /\ Followed
  BY DEF Init, Listed, Followed, Works, Idle, NoSheet, Active
<1>6. Truthful
  BY DEF Init, Truthful, Idle, NoSheet
<1>7. Offers
  BY DEF Init, Offers
<1>8. OnePullPerModel
  BY DEF Init, OnePullPerModel, Active
<1> QED BY <1>4, <1>5, <1>6, <1>7, <1>8 DEF InstallInv

\* The state of the window and the host, in every behaviour.
THEOREM InstallInvHolds == Spec => []InstallInv
<1>1. Init => InstallInv
  BY InstallInit
<1>2. InstallInv /\ [Next]_vars => InstallInv'
  BY TypeStep, ListedStep, FollowedStep, TruthfulStep, OffersStep, OnePullStep DEF InstallInv
<1> QED BY <1>1, <1>2, PTL DEF Spec

\* start_model_pull lets one thread work on a model, and a record that says "at
\* work" has one, unless it could not be started (service_projects.rs:445).
THEOREM ModelPulledOnce == Spec => []OnePullPerModel
<1>1. InstallInv => OnePullPerModel
  BY DEF InstallInv
<1> QED BY <1>1, InstallInvHolds, PTL

\* The sheet that cannot be closed always has a watcher of its own model that will
\* bring the end (App.tsx:1280).
THEOREM SheetIsFollowed == Spec => []SheetFollowsItsModel
<1>1. InstallInv => SheetFollowsItsModel
  <2> SUFFICES ASSUME InstallInv PROVE SheetFollowsItsModel
    OBVIOUS
  <2>1. Listed /\ Followed /\ Truthful
    BY DEF InstallInv
  <2>2. ASSUME sheet.pull \in Active \/ sheet.starting
        PROVE  \E c \in Confirms :
                 /\ watch[c].model = sheet.model /\ ~watch[c].aborted
                 /\ watch[c].stage \notin {"idle", "over"}
                 /\ watches[sheet.model] = c
    BY <2>1, <2>2 DEF Listed, Followed, Works
  <2> QED BY <2>1, <2>2 DEF Truthful, SheetFollowsItsModel
<1> QED BY <1>1, InstallInvHolds, PTL

\* The pickers never offer what is not installed, and everything that was announced
\* once no refresh is on its way (App.tsx: refreshInstalledModels).
THEOREM PickersOfferInstalled == Spec => []InstalledIsOffered
<1>1. InstallInv => InstalledIsOffered
  BY DEF InstallInv, Offers, InstalledIsOffered
<1> QED BY <1>1, InstallInvHolds, PTL
=============================================================================
