----------------------------- MODULE CanvasRuns -----------------------------
(***************************************************************************)
(* The runs an editor window shows (web/src/use-canvas-run.ts and the run  *)
(* handlers of web/src/App.tsx): the run on the canvas, the run selected   *)
(* in the Runs view and the run list.  Each is fed by answers of the       *)
(* runtime that come at any time: two watches that poll, a search through  *)
(* the history, and the requests of the user.                              *)
(*                                                                         *)
(* A record is what one answer says of a run.  A step of the window is one *)
(* batch of React updates with the rendering and the effects that follow   *)
(* it; Show is that rendering.                                             *)
(***************************************************************************)
EXTENDS Naturals, FiniteSets, FiniteSetsExt

CONSTANTS
    Runs,    \* run ids
    Docs,    \* graphs with their inputs
    Jobs,    \* the requests of the user; each is made once
    Ops,     \* the kinds of request the user makes
    MaxRev,  \* bound: changes of the runs at the host, all together
    None

AllOps == {"start", "inspect", "refresh", "cancel", "stop", "resume", "retry"}

ASSUME CanvasAssumption ==
    /\ MaxRev \in Nat /\ Ops \subseteq AllOps
    /\ None \notin Runs \cup Docs

VARIABLES
    host,         \* the runs as the runtime has them
    doc,          \* the document in the editor
    canvas,       \* useCanvasRun: run
    source,       \* useCanvasRun: what the canvas run was started with
    lost,         \* the canvas watch has failed and was not begun again
    streamError,  \* useCanvasRun: streamError is shown
    list,         \* App: the runs in the list
    selected,     \* App: selectedRun
    selLost,      \* the watch of the selected run has failed
    search,       \* the runs the history search has left to inspect
    poll,         \* the question each watch and the search have out
    stray,        \* questions of aborted watches of the selected run
    exclusive,    \* the ref exclusiveTask is set for a start
    job,          \* the requests of the user
    crossed       \* ghost: a run was resumed for a canvas that shows another one

view == <<canvas, source, lost, streamError, list, selected, selLost>>
vars == <<host, doc, view, search, poll, stray, exclusive, job, crossed>>

NoRun == [run |-> None, state |-> "none"]

(* ----------------------------- the runtime ----------------------------- *)

\* runActive, and the states the watches of App.tsx go by.
runActive(state) == state \in {"planned", "running"}
Watched(state) == state = "running"
Created(r) == host[r].rev > 0
Ended(r) == host[r].state = "ended"

\* What a question for r is answered with now.
Record(r) == [run |-> r, state |-> host[r].state]

CanChange == MapThenSumSet(LAMBDA r : host[r].rev, Runs) < MaxRev
Change(r, state) == host' = [host EXCEPT ![r].rev = @ + 1, ![r].state = state]

HostProgress(r) ==
    /\ Created(r) /\ ~Ended(r) /\ CanChange
    /\ \E state \in {"running", "ended"} : Change(r, state)
    /\ UNCHANGED <<doc, view, search, poll, stray, exclusive, job, crossed>>

(* ------------------------------ rendering ------------------------------ *)

\* The batch that changes nothing.
Now == [canvas |-> canvas, selected |-> selected, list |-> list, doc |-> doc, poll |-> poll,
        stray |-> stray, setRun |-> FALSE, setRuns |-> FALSE]

\* What the effect of the canvas watch depends on, and that of the selected run.
Key(c) == <<c.run, runActive(c.state)>>
SelectedKey(s, c) == <<s.run, s.state, c.run>>

\* A batch of updates is rendered.  When it has set the canvas run, the list and
\* the selected run mirror it.  Watches whose dependencies changed are aborted,
\* and begun again by the poll actions: an answer to an aborted canvas watch is
\* dropped, one to an aborted watch of the selected run is not.  The history
\* search begins again whenever something it depends on was set.
Show(b) ==
    LET mirrored == b.setRun /\ b.canvas # NoRun
        shown == IF mirrored /\ b.selected.run = b.canvas.run THEN b.canvas ELSE b.selected
        entries == IF mirrored THEN b.list \cup {b.canvas.run} ELSE b.list
        moved == Key(b.canvas) # Key(canvas)
        reselected == SelectedKey(shown, b.canvas) # SelectedKey(selected, canvas)
        searchAgain == b.setRun \/ b.setRuns \/ b.doc # doc
    IN  /\ canvas' = b.canvas /\ selected' = shown /\ list' = entries /\ doc' = b.doc
        /\ lost' = (lost /\ ~moved)
        /\ selLost' = (selLost /\ ~reselected)
        /\ search' = IF searchAgain THEN {r \in entries : b.canvas = NoRun} ELSE search
        /\ poll' = [canvas |-> IF moved THEN NoRun ELSE b.poll.canvas,
                    selected |-> IF reselected THEN NoRun ELSE b.poll.selected,
                    search |-> IF searchAgain THEN NoRun ELSE b.poll.search]
        /\ stray' = b.stray \cup {p \in {b.poll.selected} : reselected /\ p # NoRun}

(* ------------------------------- watches ------------------------------- *)

Ask(who, r) == poll' = [poll EXCEPT ![who] = Record(r)]
AskOnly == UNCHANGED <<host, doc, view, stray, exclusive, job, crossed>>

\* watchRun: the next question follows the answer before it after a pause.  The
\* question is put and answered at the host in one step; the answer arrives later.
AskCanvas ==
    /\ runActive(canvas.state) /\ ~lost /\ poll.canvas = NoRun
    /\ Ask("canvas", canvas.run)
    /\ AskOnly /\ UNCHANGED search

CanvasAnswered ==
    /\ poll.canvas # NoRun
    /\ Show([Now EXCEPT !.canvas = poll.canvas, !.setRun = TRUE, !.poll.canvas = NoRun])
    /\ UNCHANGED <<host, source, streamError, exclusive, job, crossed>>

CanvasPollFails ==
    /\ poll.canvas # NoRun
    /\ lost' = TRUE /\ streamError' = TRUE
    /\ poll' = [poll EXCEPT !.canvas = NoRun]
    /\ UNCHANGED <<host, doc, canvas, source, list, selected, selLost, search, stray, exclusive, job, crossed>>

\* The canvas run is left to its own watch.
AskSelected ==
    /\ Watched(selected.state) /\ selected.run # canvas.run /\ ~selLost /\ poll.selected = NoRun
    /\ Ask("selected", selected.run)
    /\ AskOnly /\ UNCHANGED search

SelectedAnswered ==
    /\ poll.selected # NoRun
    /\ Show([Now EXCEPT !.selected = poll.selected, !.list = @ \cup {poll.selected.run},
                        !.setRuns = TRUE, !.poll.selected = NoRun])
    /\ UNCHANGED <<host, source, streamError, exclusive, job, crossed>>

\* The answer to an aborted watch is applied like any other.
StrayAnswered ==
    \E rec \in stray :
        /\ Show([Now EXCEPT !.selected = rec, !.list = @ \cup {rec.run},
                            !.setRuns = TRUE, !.stray = @ \ {rec}])
        /\ UNCHANGED <<host, source, streamError, exclusive, job, crossed>>

SelectedPollFails ==
    \/ /\ poll.selected # NoRun
       /\ selLost' = TRUE
       /\ poll' = [poll EXCEPT !.selected = NoRun]
       /\ UNCHANGED <<host, doc, canvas, source, lost, streamError, list, selected, search, stray, exclusive, job, crossed>>
    \/ \E asked \in stray :
         /\ stray' = stray \ {asked}
         /\ UNCHANGED <<host, doc, view, search, poll, exclusive, job, crossed>>

(* -------------------------- the history search ------------------------- *)

SearchStep ==
    /\ canvas = NoRun /\ poll.search = NoRun
    /\ \E r \in search : Ask("search", r) /\ search' = search \ {r}
    /\ AskOnly

\* Mutant: a search that was begun for an earlier document or canvas goes on.
SearchAnsweredLate ==
    /\ poll.search # NoRun
    /\ Show([Now EXCEPT !.canvas = poll.search, !.setRun = TRUE, !.poll.search = NoRun])
    /\ UNCHANGED <<host, source, streamError, exclusive, job, crossed>>

\* runMatchesSource: the fingerprints are those of the document.  A record without
\* a manifest matches nothing.
runMatchesSource(rec, d) == host[rec.run].doc = d

SearchAnswered ==
    /\ poll.search # NoRun
    /\ \/ /\ runMatchesSource(poll.search, doc)
          /\ Show([Now EXCEPT !.canvas = poll.search, !.setRun = TRUE, !.poll.search = NoRun])
       \/ Show([Now EXCEPT !.poll.search = NoRun])
    /\ UNCHANGED <<host, source, streamError, exclusive, job, crossed>>

(* -------------------------- the user's requests ------------------------ *)

\* A request reaches the runtime when it is made; rec, or seen for a list, is the
\* answer on its way.  The handler's closure holds the document it starts a run
\* for, and whether the canvas showed the run it is about.
Fresh == [op |-> "none", rec |-> NoRun, seen |-> {}, doc |-> None, ours |-> FALSE]
Over == [Fresh EXCEPT !.op = "over"]

Request(j, op, rec) ==
    /\ job[j] = Fresh /\ op \in Ops
    /\ job' = [job EXCEPT ![j] = [Fresh EXCEPT !.op = op, !.rec = rec,
                                  !.doc = IF op = "start" THEN doc ELSE None,
                                  !.ours = op \in {"resume", "retry"} /\ rec.run = canvas.run]]
    /\ UNCHANGED <<doc, view, search, poll, stray, crossed>>

RunGraph(j) ==
    /\ ~exclusive /\ exclusive' = TRUE
    /\ \E r \in Runs, state \in {"planned", "running"} :
         /\ ~Created(r)
         /\ host' = [host EXCEPT ![r] = [rev |-> 1, state |-> state, doc |-> doc]]
         /\ Request(j, "start", [run |-> r, state |-> state])

InspectRun(j) ==
    /\ \E r \in list : Request(j, "inspect", Record(r))
    /\ UNCHANGED <<host, exclusive>>

\* The list the answer brings, for a refresh that goes on with run r.
Refreshing(r) == [Fresh EXCEPT !.op = "refresh", !.rec.run = r, !.seen = {s \in Runs : Created(s)}]

RefreshRuns(j) ==
    /\ job[j] = Fresh /\ "refresh" \in Ops
    /\ job' = [job EXCEPT ![j] = Refreshing(selected.run)]
    /\ UNCHANGED <<host, doc, view, search, poll, stray, exclusive, crossed>>

\* The executor ends the run, or keeps it going for a while.
Cancelling(j, op, r) ==
    /\ \/ /\ ~Ended(r) /\ CanChange
          /\ Change(r, "ended")
       \/ UNCHANGED host
    /\ Request(j, op, [run |-> r, state |-> host'[r].state])
    /\ UNCHANGED exclusive

CancelRun(j) == selected # NoRun /\ selected.state # "ended" /\ Cancelling(j, "cancel", selected.run)
CancelCanvasRun(j) == runActive(canvas.state) /\ Cancelling(j, "stop", canvas.run)

ResumeRun(j) ==
    /\ selected.state = "ended" /\ Ended(selected.run) /\ CanChange
    /\ Change(selected.run, "running")
    /\ \E op \in {"resume", "retry"} :
         Request(j, op, [run |-> selected.run, state |-> "running"])
    /\ UNCHANGED exclusive

(* ------------------------------- answers ------------------------------- *)

Settle(j) == job' = [job EXCEPT ![j] = Over]
\* cancelRun and retryRun go on with refreshRuns, in the closure they were made in.
ThenRefresh(j) == job' = [job EXCEPT ![j] = Refreshing(job[j].rec.run)]

\* setRun, setSelectedRun and setRuns with the record of an answer.
ShowRun(rec) == Show([Now EXCEPT !.canvas = rec, !.selected = rec, !.list = @ \cup {rec.run},
                                 !.setRun = TRUE, !.setRuns = TRUE])

\* Mutant: the run is tracked for the document shown when the answer arrives.
RunAnsweredForShown(j) ==
    /\ job[j].op = "start"
    /\ ShowRun(job[j].rec)
    /\ source' = doc /\ streamError' = FALSE /\ exclusive' = FALSE
    /\ Settle(j)
    /\ UNCHANGED <<host, crossed>>

RunAnswered(j) ==
    /\ job[j].op = "start"
    /\ ShowRun(job[j].rec)
    /\ source' = job[j].doc /\ streamError' = FALSE /\ exclusive' = FALSE
    /\ Settle(j)
    /\ UNCHANGED <<host, crossed>>

InspectAnswered(j) ==
    /\ job[j].op = "inspect"
    /\ Show([Now EXCEPT !.selected = job[j].rec])
    /\ Settle(j)
    /\ UNCHANGED <<host, source, streamError, exclusive, crossed>>

\* refreshRuns: the list, and then the run that was selected at the click.
ListAnswered(j) ==
    /\ job[j].op = "refresh"
    /\ Show([Now EXCEPT !.list = job[j].seen, !.setRuns = TRUE])
    /\ job' = [job EXCEPT ![j] = IF job[j].rec.run \notin job[j].seen THEN Over
                                 ELSE [Fresh EXCEPT !.op = "inspect", !.rec = Record(job[j].rec.run)]]
    /\ UNCHANGED <<host, source, streamError, exclusive, crossed>>

CancelAnswered(j) ==
    /\ job[j].op = "cancel"
    /\ Show([Now EXCEPT !.selected = job[j].rec])
    /\ ThenRefresh(j)
    /\ UNCHANGED <<host, source, streamError, exclusive, crossed>>

\* cancel() of the canvas takes the answer only for the run it still shows.
StopAnswered(j) ==
    /\ job[j].op = "stop"
    /\ Show(IF canvas.run = job[j].rec.run
            THEN [Now EXCEPT !.canvas = job[j].rec, !.setRun = TRUE] ELSE Now)
    /\ Settle(j)
    /\ UNCHANGED <<host, source, streamError, exclusive, crossed>>

\* resumeRun and retryRun ask the canvas of their closure whether it shows the
\* run; track() then keeps the source there is by now.
AgainAnswered(j) ==
    /\ job[j].op \in {"resume", "retry"}
    /\ LET rec == job[j].rec
           tracked == job[j].ours IN
       /\ Show([Now EXCEPT !.canvas = IF tracked THEN rec ELSE @, !.setRun = tracked, !.selected = rec,
                           !.list = IF job[j].op = "resume" THEN @ \cup {rec.run} ELSE @,
                           !.setRuns = (job[j].op = "resume")])
       /\ streamError' = (streamError /\ ~tracked)
       /\ crossed' = (crossed \/ (tracked /\ canvas.run \notin {None, rec.run}))
    /\ IF job[j].op = "retry" THEN ThenRefresh(j) ELSE Settle(j)
    /\ UNCHANGED <<host, source, exclusive>>

JobFails(j) ==
    /\ job[j].op \notin {"none", "over"}
    /\ exclusive' = (exclusive /\ job[j].op # "start")
    /\ streamError' = (streamError \/ job[j].op = "stop")
    /\ Settle(j)
    /\ UNCHANGED <<host, doc, canvas, source, lost, list, selected, selLost, search, poll, stray, crossed>>

(* ------------------------------ the window ----------------------------- *)

EditDocument(d) ==
    /\ d # doc
    /\ Show([Now EXCEPT !.doc = d])
    /\ UNCHANGED <<host, source, streamError, exclusive, job, crossed>>

\* canvas.reset() and a new document.
OpenWorkflow(d) ==
    /\ Show([Now EXCEPT !.doc = d, !.canvas = NoRun, !.setRun = TRUE])
    /\ source' = None /\ streamError' = FALSE
    /\ UNCHANGED <<host, exclusive, job, crossed>>

ShowDetails ==
    /\ canvas # NoRun
    /\ Show([Now EXCEPT !.selected = canvas])
    /\ UNCHANGED <<host, source, streamError, exclusive, job, crossed>>

Reconnect ==
    /\ streamError
    /\ streamError' = FALSE /\ lost' = FALSE
    /\ poll' = [poll EXCEPT !.canvas = NoRun]
    /\ UNCHANGED <<host, doc, canvas, source, list, selected, selLost, search, stray, exclusive, job, crossed>>

Init ==
    /\ \E old \in SUBSET Runs, d \in Docs :
         host = [r \in Runs |-> IF r \in old THEN [rev |-> 1, state |-> "ended", doc |-> d]
                                ELSE [rev |-> 0, state |-> "none", doc |-> None]]
    /\ doc \in Docs
    /\ canvas = NoRun /\ source = None /\ lost = FALSE /\ streamError = FALSE
    /\ list = {r \in Runs : Created(r)}
    /\ selected = NoRun /\ selLost = FALSE
    /\ search = list /\ poll = [canvas |-> NoRun, selected |-> NoRun, search |-> NoRun] /\ stray = {}
    /\ exclusive = FALSE /\ job = [j \in Jobs |-> Fresh] /\ crossed = FALSE

JobStep(j) ==
    \/ RunGraph(j) \/ InspectRun(j) \/ RefreshRuns(j) \/ CancelRun(j) \/ CancelCanvasRun(j) \/ ResumeRun(j)
    \/ RunAnswered(j) \/ InspectAnswered(j) \/ ListAnswered(j) \/ CancelAnswered(j)
    \/ StopAnswered(j) \/ AgainAnswered(j) \/ JobFails(j)

Next ==
    \/ \E r \in Runs : HostProgress(r)
    \/ \E j \in Jobs : JobStep(j)
    \/ AskCanvas \/ CanvasAnswered \/ CanvasPollFails
    \/ AskSelected \/ SelectedAnswered \/ SelectedPollFails \/ StrayAnswered
    \/ SearchStep \/ SearchAnswered
    \/ \E d \in Docs : EditDocument(d) \/ OpenWorkflow(d)
    \/ ShowDetails \/ Reconnect

Spec == Init /\ [][Next]_vars

(* ------------------------------ properties ----------------------------- *)

States == {"none", "planned", "running", "ended"}
Records == [run : Runs \cup {None}, state : States]

TypeOK ==
    /\ host \in [Runs -> [rev : 0..MaxRev, state : States, doc : Docs \cup {None}]]
    /\ doc \in Docs /\ source \in Docs \cup {None}
    /\ canvas \in Records /\ selected \in Records /\ list \subseteq Runs
    /\ poll \in [{"canvas", "selected", "search"} -> Records] /\ stray \subseteq Records
    /\ search \subseteq Runs /\ (search # {} => canvas = NoRun)
    /\ poll.canvas.run \in {None, canvas.run} /\ poll.selected.run \in {None, selected.run}
    /\ source # None => canvas # NoRun
    /\ {lost, streamError, selLost, exclusive, crossed} \subseteq BOOLEAN

\* matches: the results on the canvas are those of the document that is shown.
matches ==
    IF source # None THEN source = doc ELSE canvas # NoRun /\ runMatchesSource(canvas, doc)

\* "edited documents never display stale results" (docs/roadmap.md:41): node
\* states are shown as current only for a run of the document that is shown,
\* unless a resumed run came back to a canvas that shows another run by then.
ResultsAreOfTheDocument ==
    matches /\ ~crossed => host[canvas.run].doc = doc

\* The history search never replaces a run: it gives a canvas that shows none a
\* run of the very document the editor shows at that moment, however long its
\* inspections take and whatever is edited, opened or started meanwhile.
HistoryIsOfTheDocument ==
    [][canvas = NoRun /\ canvas' # NoRun /\ source' = None /\ job' = job
         => host[canvas'.run].doc = doc']_vars
=============================================================================
