---------------------------- MODULE ModelInstall ----------------------------
(***************************************************************************)
(* Installing models: the install sheet and its watchers (App.tsx,         *)
(* ModelInstallSheet.tsx), the runtimes that start and poll a pull         *)
(* (runtime.ts, cloud-runtime.ts) and what works behind them: a thread of  *)
(* the desktop host (service_projects.rs), or a plan of the fleet.         *)
(*                                                                         *)
(* The sheet shows one model at a time while pulls go on behind it.  One   *)
(* press of Install is a confirmation; its watcher starts the pull, polls  *)
(* its record and reports the end, in the sheet or as a notice.            *)
(***************************************************************************)
EXTENDS Naturals, FiniteSets

CONSTANTS
    Models,
    Confirms,   \* the presses of Install a behaviour can have
    MaxSheets,  \* bound: how often a sheet is opened
    MaxFaults,  \* bound: requests that fail
    None

ASSUME InstallAssumption ==
    /\ MaxSheets \in Nat /\ MaxFaults \in Nat
    /\ None \notin Models \cup Confirms

VARIABLES
    scope,       \* the runtime: "local" or "cloud"
    record,      \* host: model_pulls, the state of each
    threads,     \* host: the threads that pull each model
    plan,        \* fleet: the plan a confirmation made
    modelPlans,  \* CloudRuntime: the plan that is polled for each model
    installed,   \* the models the executor has
    sheet,       \* the sheet: its model, preflight, pull, starting and the check box
    checks,      \* models with a preflight on its way
    watch,       \* the watcher of each confirmation
    watches,     \* installWatches: the watcher of each model
    offered,     \* the models the pickers know to be installed
    refreshes,   \* answers to refreshInstalledModels on their way
    bounds,      \* bound: sheets opened, faults
    ghost        \* ghosts: reported, spawnFailed, replanned, overlapped

hostVars == <<record, threads, plan, installed>>
vars == <<scope, hostVars, modelPlans, sheet, checks, watch, watches, offered, refreshes, bounds, ghost>>

Active == {"preparing", "downloading", "installing"}
Terminal == {"installed", "failed"}

\* summarizeModelPreflight: a preflight finds nothing, something to consent to (usage
\* terms, or hardware that is not verified), or a blocker.
Findings == {"plain", "consent", "blocked"}
NoSheet == [model |-> None, preflight |-> "none", pull |-> "none", starting |-> FALSE, consent |-> FALSE]
Sheet(m) == [NoSheet EXCEPT !.model = m]
Idle == [model |-> None, stage |-> "idle", aborted |-> FALSE, got |-> "none"]

Fault == bounds.faults < MaxFaults /\ bounds' = [bounds EXCEPT !.faults = @ + 1]

(* ------------------------------- the sheet ----------------------------- *)

BeginInstall(m) ==
    /\ sheet = NoSheet  \* the sheet covers the window
    /\ bounds.sheets < MaxSheets /\ bounds' = [bounds EXCEPT !.sheets = @ + 1]
    /\ sheet' = Sheet(m)
    /\ checks' = checks \cup {m}
    /\ UNCHANGED <<scope, hostVars, modelPlans, watch, watches, offered, refreshes, ghost>>

\* The answer counts for whatever sheet shows the model by then.
PreflightAnswered(m) ==
    /\ m \in checks /\ checks' = checks \ {m}
    /\ \E found \in (IF scope = "cloud" THEN {"plain"} ELSE Findings) \cup {"error"} :
         sheet' = IF sheet.model = m THEN [sheet EXCEPT !.preflight = found] ELSE sheet
    /\ UNCHANGED <<scope, hostVars, modelPlans, watch, watches, offered, refreshes, bounds, ghost>>

\* The sheet cannot be left while an installation is shown.
Closable == sheet # NoSheet /\ sheet.pull \notin Active

CloseInstall ==
    /\ Closable
    /\ sheet' = NoSheet
    /\ UNCHANGED <<scope, hostVars, modelPlans, checks, watch, watches, offered, refreshes, bounds, ghost>>

\* A check box is there for what the preflight found.
Choose ==
    /\ sheet.pull = "none" /\ sheet.preflight = "consent"
    /\ sheet' = [sheet EXCEPT !.consent = ~@]
    /\ UNCHANGED <<scope, hostVars, modelPlans, checks, watch, watches, offered, refreshes, bounds, ghost>>

\* installGuards and installDisabled.
Disabled ==
    \/ sheet.starting \/ sheet.preflight \in {"none", "error", "blocked"}
    \/ sheet.preflight = "consent" /\ ~sheet.consent

\* InstallActions: Install, and Try again, which asks for nothing.
CanConfirm == sheet.model # None /\ (sheet.pull = "failed" \/ (sheet.pull = "none" /\ ~Disabled))

ConfirmInstall(c) ==
    /\ watch[c] = Idle /\ CanConfirm
    /\ LET m == sheet.model IN
       /\ sheet' = [sheet EXCEPT !.starting = TRUE, !.pull = "none"]
       /\ watch' = [w \in Confirms |->
                      IF w = c THEN [Idle EXCEPT !.model = m, !.stage = "sent"]
                      ELSE IF w = watches[m] THEN [watch[w] EXCEPT !.aborted = TRUE] ELSE watch[w]]
       /\ watches' = [watches EXCEPT ![m] = c]
       /\ ghost' = [ghost EXCEPT !.replanned =
                      @ \/ (\E w \in Confirms : watch[w].model = m /\ watch[w].stage \in {"sent", "plan", "apply"})]
    /\ UNCHANGED <<scope, hostVars, modelPlans, checks, offered, refreshes, bounds>>

(* ------------------------------ the local host ------------------------- *)

\* Mutant: whether a pull is active is tested before the lock is taken.
HostStartsUnchecked(c) ==
    /\ scope = "local" /\ watch[c].stage = "sent"
    /\ LET m == watch[c].model IN
       /\ record' = [record EXCEPT ![m] = "preparing"]
       /\ \/ threads' = [threads EXCEPT ![m] = @ + 1] /\ UNCHANGED <<bounds, ghost>>
             /\ watch' = [watch EXCEPT ![c].stage = "started"]
          \/ Fault /\ UNCHANGED threads
             /\ watch' = [watch EXCEPT ![c].stage = "refused"]
             /\ ghost' = [ghost EXCEPT !.spawnFailed = TRUE]
    /\ UNCHANGED <<scope, plan, modelPlans, installed, sheet, checks, watches, offered, refreshes>>

\* start_model_pull: an active pull is joined; else the record is made and then
\* the thread, which may fail to start.
HostStarts(c) ==
    /\ scope = "local" /\ watch[c].stage = "sent"
    /\ LET m == watch[c].model IN
       \/ /\ record[m] \in Active
          /\ watch' = [watch EXCEPT ![c].stage = "started"]
          /\ UNCHANGED <<record, threads, bounds, ghost>>
       \/ /\ record[m] \notin Active
          /\ record' = [record EXCEPT ![m] = "preparing"]
          /\ \/ threads' = [threads EXCEPT ![m] = @ + 1] /\ UNCHANGED <<bounds, ghost>>
                /\ watch' = [watch EXCEPT ![c].stage = "started"]
             \/ Fault /\ UNCHANGED threads
                /\ watch' = [watch EXCEPT ![c].stage = "refused"]
                /\ ghost' = [ghost EXCEPT !.spawnFailed = TRUE]
    /\ UNCHANGED <<scope, plan, modelPlans, installed, sheet, checks, watches, offered, refreshes>>

\* The record goes back as it is by now.
HostAnswersStart(c) ==
    /\ watch[c].stage = "started"
    /\ watch' = [watch EXCEPT ![c].stage = "answered", ![c].got = record[watch[c].model]]
    /\ UNCHANGED <<scope, hostVars, modelPlans, sheet, checks, watches, offered, refreshes, bounds, ghost>>

\* apply_pull_progress: a line of the child's output moves an active record.
PullProgress(m) ==
    /\ threads[m] > 0 /\ record[m] \in Active
    /\ \E state \in {"downloading", "installing"} :
         state # record[m] /\ record' = [record EXCEPT ![m] = state]
    /\ UNCHANGED <<scope, threads, plan, installed, modelPlans, sheet, checks, watch, watches,
                   offered, refreshes, bounds, ghost>>

\* finish_model_pull and fail_model_pull, and the end of the thread.
PullEnds(m) ==
    /\ threads[m] > 0
    /\ threads' = [threads EXCEPT ![m] = @ - 1]
    /\ \/ record' = [record EXCEPT ![m] = "installed"] /\ installed' = installed \cup {m}
       \/ record' = [record EXCEPT ![m] = "failed"] /\ UNCHANGED installed
    /\ UNCHANGED <<scope, plan, modelPlans, sheet, checks, watch, watches, offered, refreshes, bounds, ghost>>

(* ------------------------------- the fleet ----------------------------- *)

\* startModelPull of the cloud: the fleet is read and a plan is made for the nodes
\* that miss the model, if there are any.
FleetRead(c) ==
    /\ scope = "cloud" /\ watch[c].stage = "sent"
    /\ LET m == watch[c].model IN
       \/ /\ m \in installed
          /\ watch' = [watch EXCEPT ![c].stage = "answered", ![c].got = "installed"]
          /\ modelPlans' = [modelPlans EXCEPT ![m] = None]
          /\ UNCHANGED plan
       \/ /\ m \notin installed
          /\ plan' = [plan EXCEPT ![c] = "draft"]
          /\ watch' = [watch EXCEPT ![c].stage = "plan"]
          /\ UNCHANGED modelPlans
    /\ UNCHANGED <<scope, record, threads, installed, sheet, checks, watches, offered, refreshes, bounds, ghost>>

\* The plan is the one to poll from now on, and is applied.
PlanAnswered(c) ==
    /\ watch[c].stage = "plan"
    /\ modelPlans' = [modelPlans EXCEPT ![watch[c].model] = c]
    /\ watch' = [watch EXCEPT ![c].stage = "apply"]
    /\ UNCHANGED <<scope, hostVars, sheet, checks, watches, offered, refreshes, bounds, ghost>>

\* planToPull: a plan that is neither finished nor failed is installing.
planToPull(state) == CASE state = "finished" -> "installed"
                       [] state = "failed" -> "failed"
                       [] OTHER -> "installing"

PlanApplied(c) ==
    /\ watch[c].stage = "apply"
    /\ plan' = [plan EXCEPT ![c] = "applied"]
    /\ watch' = [watch EXCEPT ![c].stage = "answered", ![c].got = planToPull("applied")]
    /\ UNCHANGED <<scope, record, threads, installed, modelPlans, sheet, checks, watches,
                   offered, refreshes, bounds, ghost>>

PlanEnds(c) ==
    /\ plan[c] = "applied"
    /\ \/ plan' = [plan EXCEPT ![c] = "finished"] /\ installed' = installed \cup {watch[c].model}
       \/ plan' = [plan EXCEPT ![c] = "failed"] /\ UNCHANGED installed
    /\ UNCHANGED <<scope, record, threads, modelPlans, sheet, checks, watch, watches,
                   offered, refreshes, bounds, ghost>>

(* ------------------------------ the watchers --------------------------- *)

\* Mutant: updates reach the sheet whichever model it shows.
ShowingAny(c) == ~watch[c].aborted /\ sheet.model # None

\* showing(): the sheet is this model's, and no later watcher has taken over.
Showing(c) == ~watch[c].aborted /\ sheet.model = watch[c].model

Show(c, state) == IF Showing(c) THEN [sheet EXCEPT !.pull = state] ELSE sheet

\* finally: only the watcher on the list is taken off it.
Forget(c) == watches' = [watches EXCEPT ![watch[c].model] = IF @ = c THEN None ELSE @]

Stage(c, stage, got) == watch' = [watch EXCEPT ![c].stage = stage, ![c].got = got]
Over(c) == Stage(c, "over", "none") /\ Forget(c)

\* refreshInstalledModels asks now; what it brings is what is installed now.
Refresh == refreshes' = refreshes \cup {installed}
NoteOverlap(g) == [g EXCEPT !.overlapped = @ \/ refreshes # {}]

\* Mutant: the end is announced and the pickers are not told.
EndsUnrefreshed(c, got) ==
    /\ Over(c)
    /\ ghost' = [ghost EXCEPT !.reported = @ \cup {c},
                             !.announced = @ \cup (IF got = "installed" THEN {watch[c].model} ELSE {})]
    /\ UNCHANGED refreshes

\* An update that ends the pull: the end is announced.
Ends(c, got) ==
    /\ Over(c)
    /\ IF got = "installed"
       THEN Refresh /\ ghost' = NoteOverlap([ghost EXCEPT !.reported = @ \cup {c},
                                                          !.announced = @ \cup {watch[c].model}])
       ELSE ghost' = [ghost EXCEPT !.reported = @ \cup {c}] /\ UNCHANGED refreshes

Dropped(c) == Over(c) /\ UNCHANGED <<sheet, refreshes, ghost>>
WatchOnly == UNCHANGED <<scope, hostVars, modelPlans, checks, offered, bounds>>

StartAnswered(c) ==
    /\ watch[c].stage = "answered"
    /\ \/ watch[c].aborted /\ Dropped(c)
       \/ /\ ~watch[c].aborted
          /\ sheet' = IF Showing(c) THEN [sheet EXCEPT !.pull = watch[c].got, !.starting = FALSE] ELSE sheet
          /\ \/ watch[c].got = "installed" /\ Ends(c, "installed")
             \/ watch[c].got # "installed" /\ Stage(c, "poll", "none") /\ UNCHANGED <<watches, refreshes, ghost>>
    /\ WatchOnly

\* Mutant: the watcher stops when the sheet shows something else.
PollAskShown(c) ==
    /\ watch[c].stage = "poll"
    /\ LET m == watch[c].model IN
       \/ ~Showing(c) /\ Over(c)
       \/ /\ Showing(c) /\ UNCHANGED watches
          /\ \/ scope = "local" /\ Stage(c, "asked", record[m])
             \/ scope = "cloud" /\ modelPlans[m] = None /\ Stage(c, "refused", "none")
             \/ scope = "cloud" /\ modelPlans[m] # None /\ Stage(c, "asked", planToPull(plan[modelPlans[m]]))
    /\ UNCHANGED <<sheet, refreshes, ghost>> /\ WatchOnly

\* pollModelPull: the record, or the plan that is polled for the model, is read.
PollAsk(c) ==
    /\ watch[c].stage = "poll"
    /\ LET m == watch[c].model IN
       \/ watch[c].aborted /\ Over(c)
       \/ /\ ~watch[c].aborted /\ scope = "local"
          /\ Stage(c, "asked", record[m]) /\ UNCHANGED watches
       \/ /\ ~watch[c].aborted /\ scope = "cloud"
          /\ \/ modelPlans[m] = None /\ Stage(c, "refused", "none")
             \/ modelPlans[m] # None /\ Stage(c, "asked", planToPull(plan[modelPlans[m]]))
          /\ UNCHANGED watches
    /\ UNCHANGED <<sheet, refreshes, ghost>> /\ WatchOnly

PollAnswered(c) ==
    /\ watch[c].stage = "asked"
    /\ \/ watch[c].aborted /\ Dropped(c)
       \/ /\ ~watch[c].aborted
          /\ sheet' = Show(c, watch[c].got)
          /\ \/ watch[c].got \in Terminal /\ Ends(c, watch[c].got)
             \/ watch[c].got \in Active /\ Stage(c, "poll", "none") /\ UNCHANGED <<watches, refreshes, ghost>>
    /\ WatchOnly

\* A request of the watcher fails on its way.
RequestFails(c) ==
    /\ watch[c].stage \in {"sent", "plan", "apply", "started", "answered", "asked"}
    /\ Fault
    /\ Stage(c, "refused", "none")
    /\ UNCHANGED <<scope, hostVars, modelPlans, sheet, checks, watches, offered, refreshes, ghost>>

\* The catch block: the sheet shows the failure, or a notice does.
WatchFails(c) ==
    /\ watch[c].stage = "refused"
    /\ \/ watch[c].aborted /\ Dropped(c)
       \/ /\ ~watch[c].aborted
          /\ sheet' = IF Showing(c) THEN [sheet EXCEPT !.pull = "failed", !.starting = FALSE] ELSE sheet
          /\ Ends(c, "failed")
    /\ WatchOnly

\* The answer replaces what was offered; a failed refresh leaves it.
RefreshAnswered ==
    /\ \E seen \in refreshes :
         /\ refreshes' = refreshes \ {seen}
         /\ \/ offered' = seen /\ UNCHANGED <<bounds, ghost>>
            \/ Fault /\ UNCHANGED offered /\ ghost' = [ghost EXCEPT !.overlapped = TRUE]
    /\ UNCHANGED <<scope, hostVars, modelPlans, sheet, checks, watch, watches>>

Init ==
    /\ scope \in {"local", "cloud"}
    /\ record = [m \in Models |-> "none"] /\ threads = [m \in Models |-> 0]
    /\ plan = [c \in Confirms |-> "none"] /\ modelPlans = [m \in Models |-> None]
    /\ installed = {} /\ offered = {} /\ refreshes = {}
    /\ sheet = NoSheet /\ checks = {}
    /\ watch = [c \in Confirms |-> Idle] /\ watches = [m \in Models |-> None]
    /\ bounds = [sheets |-> 0, faults |-> 0]
    /\ ghost = [reported |-> {}, announced |-> {}, spawnFailed |-> FALSE, replanned |-> FALSE, overlapped |-> FALSE]

Worker(m) == PullProgress(m) \/ PullEnds(m)
Watcher(c) ==
    \/ HostStarts(c) \/ HostAnswersStart(c)
    \/ FleetRead(c) \/ PlanAnswered(c) \/ PlanApplied(c)
    \/ StartAnswered(c) \/ PollAsk(c) \/ PollAnswered(c) \/ WatchFails(c)

Next ==
    \/ \E m \in Models : BeginInstall(m) \/ PreflightAnswered(m) \/ Worker(m)
    \/ CloseInstall \/ Choose \/ RefreshAnswered
    \/ \E c \in Confirms : ConfirmInstall(c) \/ Watcher(c) \/ PlanEnds(c) \/ RequestFails(c)

\* Requests are answered or fail, the poll timer fires, and a child or a plan that
\* was started ends at some time.
Spec ==
    /\ Init /\ [][Next]_vars
    /\ \A c \in Confirms : WF_vars(Watcher(c)) /\ WF_vars(PlanEnds(c))
    /\ \A m \in Models : WF_vars(PullEnds(m))

(* ------------------------------ properties ----------------------------- *)

\* A model is pulled by one thread at a time, however often it is asked for, and
\* one works on every record that says so, unless a thread could not be started
\* (service_projects.rs:445).
OnePullPerModel ==
    \A m \in Models :
      /\ threads[m] <= 1
      /\ threads[m] = 1 => record[m] \in Active
      /\ record[m] \in Active => threads[m] = 1 \/ ghost.spawnFailed

\* "updates for a model the sheet is not showing never reach the sheet"
\* (App.tsx:1280), and the sheet, which cannot be closed while it shows an
\* installation, shows one only as long as a watcher of that model is there to
\* bring its end: nobody is left in front of it.
SheetFollowsItsModel ==
    /\ sheet.pull \in Active \/ sheet.starting =>
         \E c \in Confirms :
           /\ watch[c].model = sheet.model /\ ~watch[c].aborted
           /\ watch[c].stage \notin {"idle", "over"}
           /\ watches[sheet.model] = c
    /\ sheet.pull = "installed" => sheet.model \in installed

\* The pickers offer what was announced as installed once every refresh has been
\* answered, if no refresh failed or overlapped another (their answers may come in
\* any order), and nothing else.
InstalledIsOffered ==
    /\ offered \subseteq installed
    /\ refreshes = {} /\ ~ghost.overlapped => ghost.announced \subseteq offered

\* "pulls keep running (and still notify on completion) after it closes"
\* (App.tsx:1278-1279): every confirmation is reported at last, or taken over by
\* a later one for its model, unless a thread could not be started or two plans
\* of the model were made side by side.
EndIsReported ==
    \A c \in Confirms :
      watch[c].stage = "sent"
        ~> c \in ghost.reported \/ watch[c].aborted \/ ghost.spawnFailed \/ ghost.replanned
=============================================================================
