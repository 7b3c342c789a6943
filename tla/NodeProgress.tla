---------------------------- MODULE NodeProgress ----------------------------
(***************************************************************************)
(* What the canvas shows of a node while its run goes on                   *)
(* (canvas-execution.ts).  mere.run appends an event for everything that   *)
(* happens to the node and rewrites the manifest of the run; the host, or  *)
(* the service, answers a poll with the state of the run, the manifest and *)
(* the newest events, read one after the other; the canvas merges the      *)
(* answers and works out the state of the node.  One node of one run.      *)
(***************************************************************************)
EXTENDS Integers, Sequences, FiniteSets, FiniteSetsExt

CONSTANTS
    MaxHappened,  \* bound: what happens to the node
    EventWindow,  \* how many events an answer of the host carries
    MaxMissed     \* bound: events and manifests that cannot be fetched

ASSUME ProgressAssumption == {MaxHappened, MaxMissed} \subseteq Nat /\ EventWindow \in Nat \ {0}

VARIABLES
    place,     \* where the run is watched: "desktop" or "cloud"
    happened,  \* what happened to the node, oldest first
    onDisk,    \* how much of it the events, and the manifest, tell
    runState,  \* the state of the run
    answer,    \* an answer that is being put together
    shown,     \* the run the canvas holds
    missed     \* bound: the fetches that failed

progressVars == <<place, happened, onDisk, runState, answer, shown, missed>>

RunOver == {"finished", "failed", "cancelled"}
stillActive(state) == state \in {"planned", "preflighting", "running"}

(* ------------------------------ mere.run ------------------------------- *)

\* The state of the node after the first k things that happened.
StateOf == [preflight |-> "preflighting", started |-> "running", progress |-> "running",
            resumed |-> "running", finished |-> "finished", failed |-> "failed"]
TrueState(k) == IF k = 0 THEN "planned" ELSE StateOf[happened[k]]
Latest == Len(happened)

CanHappen ==
    CASE TrueState(Latest) = "planned" -> {"preflight", "started"}
      [] TrueState(Latest) = "preflighting" -> {"started"}
      [] TrueState(Latest) = "running" -> {"progress", "resumed", "finished", "failed"}
      [] TrueState(Latest) = "failed" -> {"resumed"}
      [] OTHER -> {}

NodeStep ==
    /\ runState = "running" /\ Latest < MaxHappened
    /\ \E what \in CanHappen : happened' = Append(happened, what)
    /\ UNCHANGED <<place, onDisk, runState, answer, shown, missed>>

\* The two are written in any order; what a stopped run left unwritten is written
\* when it is resumed.
WriteEvent ==
    /\ runState = "running" /\ onDisk.events < Latest
    /\ onDisk' = [onDisk EXCEPT !.events = @ + 1]
    /\ UNCHANGED <<place, happened, runState, answer, shown, missed>>
WriteManifest ==
    /\ runState = "running" /\ onDisk.manifest < Latest
    /\ onDisk' = [onDisk EXCEPT !.manifest = Latest]
    /\ UNCHANGED <<place, happened, runState, answer, shown, missed>>

\* The run ends by itself when all is written, or is stopped in its tracks.
RunEnds ==
    /\ runState = "running"
    /\ \/ /\ onDisk = [events |-> Latest, manifest |-> Latest] /\ ~TrueState(Latest) \in {"preflighting", "running"}
          /\ runState' \in {"finished", "failed"}
       \/ runState' \in {"failed", "cancelled"}
    /\ happened' = SubSeq(happened, 1, Max({onDisk.events, onDisk.manifest}))
    /\ UNCHANGED <<place, onDisk, answer, shown, missed>>

(* ------------------------------- answers ------------------------------- *)

NoManifest == [at |-> 0, state |-> "planned", completed |-> 0]

\* The manifest when it told k things; a completion is the time of the end.
ManifestAt(k) ==
    [at |-> k, state |-> TrueState(k), completed |-> IF TrueState(k) \in RunOver THEN k ELSE 0]
NoPoll == [stage |-> "idle", state |-> "running", manifest |-> NoManifest, events |-> {}]

\* read_json_lines takes the last lines; the service sends them all.
EventsNow ==
    IF place = "desktop" THEN (onDisk.events - EventWindow + 1 .. onDisk.events) \cap 1..onDisk.events
    ELSE 1..onDisk.events

\* inspectRun reads the state of the run first.
PollState ==
    /\ answer = NoPoll /\ stillActive(shown.state)
    /\ answer' = [answer EXCEPT !.stage = IF place = "desktop" THEN "manifest" ELSE "events", !.state = runState]
    /\ UNCHANGED <<place, happened, onDisk, runState, shown, missed>>

\* A fetch of the cloud that fails leaves its part of the answer empty.
Missing == place = "cloud" /\ missed < MaxMissed /\ missed' = missed + 1
PollManifest ==
    /\ answer.stage = "manifest"
    /\ \/ answer' = [answer EXCEPT !.stage = IF place = "desktop" THEN "events" ELSE "answered",
                               !.manifest = ManifestAt(onDisk.manifest)]
          /\ UNCHANGED missed
       \/ Missing /\ answer' = [answer EXCEPT !.stage = "answered"]
    /\ UNCHANGED <<place, happened, onDisk, runState, shown>>
PollEvents ==
    /\ answer.stage = "events"
    /\ \/ answer' = [answer EXCEPT !.stage = IF place = "desktop" THEN "answered" ELSE "manifest",
                               !.events = EventsNow]
          /\ UNCHANGED missed
       \/ Missing /\ answer' = [answer EXCEPT !.stage = "manifest"]
    /\ UNCHANGED <<place, happened, onDisk, runState, shown>>

(* ------------------------------- merging ------------------------------- *)

\* A part of the manifest that is not there keeps the former one, and so does
\* the time of a completion that a later manifest leaves out.
mergeManifest(former, next) ==
    IF next.at = 0 THEN former
    ELSE [next EXCEPT !.completed = IF @ = 0 THEN former.completed ELSE @]
mergeRunUpdate(former, next) ==
    [state |-> next.state, manifest |-> mergeManifest(former.manifest, next.manifest),
     events |-> former.events \cup next.events]

\* The answer is merged while the watch goes on; a stopped watch drops it.
AnswerMerged ==
    /\ answer.stage = "answered"
    /\ shown' = IF stillActive(shown.state) THEN mergeRunUpdate(shown, answer) ELSE shown
    /\ answer' = NoPoll
    /\ UNCHANGED <<place, happened, onDisk, runState, missed>>

\* cancel_run stops the run, and answers without events and manifest.
Cancel ==
    /\ stillActive(shown.state) /\ runState = "running"
    /\ runState' = "cancelled"
    /\ happened' = SubSeq(happened, 1, Max({onDisk.events, onDisk.manifest}))
    /\ shown' = mergeRunUpdate(shown, [NoPoll EXCEPT !.state = "cancelled"])
    /\ UNCHANGED <<place, onDisk, answer, missed>>

\* resume_run starts the run again and answers with all there is; the canvas
\* tracks that answer instead of what it held.
Resume ==
    /\ shown.state \in {"failed", "cancelled"} /\ answer = NoPoll
    /\ TrueState(Latest) \in {"failed", "running"} /\ Latest < MaxHappened
    /\ runState' = "running"
    /\ shown' = [state |-> "running", manifest |-> ManifestAt(onDisk.manifest), events |-> EventsNow]
    /\ UNCHANGED <<place, happened, onDisk, answer, missed>>

(* ------------------------------- the node ------------------------------ *)

manifestState(manifest) == [state |-> manifest.state, completed |-> manifest.completed]

\* Mutant: every event is applied to what the manifest tells.
EveryEvent(state, k) == TRUE

\* An event that is older than the completion is history.
eventAfterCompletion(state, k) ==
    \/ stillActive(state.state)
    \/ IF state.completed > 0 THEN k > state.completed ELSE happened[k] = "resumed"

applyEvent(state, k) ==
    CASE happened[k] \in {"started", "resumed"} -> [state |-> "running", completed |-> 0]
      [] happened[k] \in {"finished", "failed"} -> [state |-> StateOf[happened[k]], completed |-> k]
      [] OTHER -> [state EXCEPT !.state = StateOf[happened[k]]]

terminalNode(state) ==
    IF stillActive(shown.state) \/ ~stillActive(state) THEN state
    ELSE IF state = "planned" THEN "skipped"
    ELSE CASE shown.state = "finished" -> "unknown"
           [] shown.state = "failed" -> "interrupted"
           [] OTHER -> shown.state

\* The events are applied to what the manifest tells, in their order.
nodeExecution ==
    LET after[k \in 0..Latest] ==
            IF k = 0 THEN manifestState(shown.manifest)
            ELSE IF k \in shown.events /\ eventAfterCompletion(after[k - 1], k)
                 THEN applyEvent(after[k - 1], k) ELSE after[k - 1]
    IN terminalNode(after[Latest].state)

ProgressInit ==
    /\ place \in {"desktop", "cloud"}
    /\ happened = <<>>
    /\ onDisk = [events |-> 0, manifest |-> 0]
    /\ runState = "running"
    /\ answer = NoPoll
    /\ shown = [state |-> "running", manifest |-> NoManifest, events |-> {}]
    /\ missed = 0

ProgressNext ==
    \/ NodeStep \/ WriteEvent \/ WriteManifest \/ RunEnds
    \/ PollState \/ PollManifest \/ PollEvents \/ AnswerMerged \/ Cancel \/ Resume

ProgressSpec == ProgressInit /\ [][ProgressNext]_progressVars

(* ------------------------------ properties ----------------------------- *)

Told == {shown.manifest.at} \cup {k \in shown.events : \A j \in shown.events : j <= k}
Recent == Min(IF Told = {0} THEN Told ELSE Told \ {0})..Max(Told)

\* The canvas shows a state the node had between the older and the newer of
\* what the manifest and the events tell, whichever of them lags behind
\* ("A missing node result is not evidence that the node completed
\* successfully", canvas-execution.ts:91): no older event takes a completed
\* node back.  A node that had not ended when its run did is shown as skipped,
\* interrupted, cancelled or unknown, never as finished; one that had ended, and
\* is told to have, as it ended.
NodesShownAreTrue ==
    /\ stillActive(shown.state) => nodeExecution \in {TrueState(k) : k \in Recent}
    /\ ~stillActive(shown.state) =>
         /\ nodeExecution \in {terminalNode(TrueState(k)) : k \in Recent}
         /\ TrueState(Max(Told)) \in {"finished", "failed"} => nodeExecution = TrueState(Max(Told))

=============================================================================
