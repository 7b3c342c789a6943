-------------------------- MODULE CanvasRunsProofs --------------------------
(***************************************************************************)
(* Theorems about the runs an editor window shows, for every number of     *)
(* runs, documents and requests.                                           *)
(*                                                                         *)
(* Answers are applied whenever they come.  What keeps them in their place *)
(* is that the rendering of every batch aborts the canvas watch of another *)
(* run and every search for another canvas or document (PollsFollow), and  *)
(* that a request carries the document it was made for (JobOK).            *)
(***************************************************************************)
EXTENDS CanvasRuns, TLAPS

RunRecord == [rev : Nat, state : States, doc : Docs \cup {None}]
JobRecord == [op : AllOps \cup {"none", "over"}, rec : Records, seen : SUBSET Runs,
              doc : Docs \cup {None}, ours : BOOLEAN]
PollRecord == [canvas : Records, selected : Records, search : Records]

\* What the runtime h has, and a record of a run it has.
Existing(h) == {r \in Runs : h[r].rev > 0}
Known(rec, h) == rec \in Records /\ rec.run \in Existing(h)
Shown(rec, h) == rec = NoRun \/ Known(rec, h)

\* What the window shows exists.
WindowOK(h) ==
    /\ doc \in Docs /\ Shown(canvas, h) /\ Shown(selected, h)
    /\ list \subseteq Existing(h) /\ search \subseteq Existing(h)
    /\ poll \in PollRecord
    /\ Shown(poll.canvas, h) /\ Shown(poll.selected, h) /\ Shown(poll.search, h)
    /\ \A rec \in stray : Known(rec, h)

\* What is asked for is asked for the canvas there is.
PollsFollow ==
    /\ poll.canvas # NoRun => canvas # NoRun /\ poll.canvas.run = canvas.run
    /\ poll.search # NoRun => canvas = NoRun

\* An answer under way is about a run that exists; a started run has the document it
\* was started with.
JobOK(v, h) ==
    /\ v.op \in AllOps \ {"refresh"} => Known(v.rec, h)
    /\ v.seen \subseteq Existing(h)
    /\ v.op = "start" => v.doc \in Docs /\ h[v.rec.run].doc = v.doc
JobsOK == /\ job \in [Jobs -> JobRecord]
          /\ \A j \in Jobs : JobOK(job[j], host)

HostOK == host \in [Runs -> RunRecord]

\* The canvas shows a run of its source, unless runs have crossed.
SourceOK ==
    /\ source \in Docs \cup {None}
    /\ source # None => canvas # NoRun /\ (~crossed => host[canvas.run].doc = source)

CanvasInv ==
    /\ HostOK /\ WindowOK(host) /\ PollsFollow /\ JobsOK /\ SourceOK
    /\ crossed \in BOOLEAN

-----------------------------------------------------------------------------
(* Rendering. *)

\* A batch of updates: records that exist, and questions that were out already.
BatchOK(b) ==
    /\ b.doc \in Docs /\ Shown(b.canvas, host) /\ Shown(b.selected, host) /\ b.list \subseteq Existing(host)
    /\ b.poll \in PollRecord
    /\ b.poll.canvas \in {NoRun, poll.canvas} /\ Shown(b.poll.selected, host)
    /\ b.poll.search \in {NoRun, poll.search}
    /\ \A rec \in b.stray : Known(rec, host)
    /\ b.canvas = canvas \/ b.setRun

LEMMA Typed ==
    /\ None \notin Runs /\ NoRun \in Records /\ NoRun.run = None
    /\ \A rec, h : Known(rec, h) => rec \in Records /\ rec # NoRun /\ rec.run \in Runs /\ rec.run # None
    /\ \A rec, h : Shown(rec, h) => rec \in Records
BY CanvasAssumption DEF NoRun, Records, States, Known, Shown, Existing

\* What the window shows after a batch, and the effects have run.
LEMMA ShowStep ==
    ASSUME WindowOK(host), PollsFollow, UNCHANGED host, NEW b, BatchOK(b), Show(b)
    PROVE  WindowOK(host)' /\ PollsFollow' /\ canvas' = b.canvas /\ doc' = b.doc
<1> DEFINE mirrored == b.setRun /\ b.canvas # NoRun
           shown == IF mirrored /\ b.selected.run = b.canvas.run THEN b.canvas ELSE b.selected
           entries == IF mirrored THEN b.list \cup {b.canvas.run} ELSE b.list
           moved == Key(b.canvas) # Key(canvas)
           reselected == SelectedKey(shown, b.canvas) # SelectedKey(selected, canvas)
           searchAgain == b.setRun \/ b.setRuns \/ b.doc # doc
<1>1. /\ canvas' = b.canvas /\ selected' = shown /\ list' = entries /\ doc' = b.doc
      /\ search' = IF searchAgain THEN {r \in entries : b.canvas = NoRun} ELSE search
      /\ poll' = [canvas |-> IF moved THEN NoRun ELSE b.poll.canvas,
                  selected |-> IF reselected THEN NoRun ELSE b.poll.selected,
                  search |-> IF searchAgain THEN NoRun ELSE b.poll.search]
      /\ stray' = b.stray \cup {p \in {b.poll.selected} : reselected /\ p # NoRun}
  BY DEF Show
<1>2. Shown(shown, host)
  BY DEF BatchOK
<1>3. entries \subseteq Existing(host)
  BY DEF BatchOK, Shown, Known
<1>4. \A rec \in stray' : Known(rec, host)
  BY <1>1 DEF BatchOK, Shown
<1>5. ~moved => b.canvas.run = canvas.run /\ (canvas = NoRun <=> b.canvas = NoRun)
  <2>1. ~moved => b.canvas.run = canvas.run
    BY DEF Key
  <2>2. canvas = NoRun <=> canvas.run = None
    BY Typed DEF WindowOK, Shown
  <2>3. b.canvas = NoRun <=> b.canvas.run = None
    BY Typed DEF BatchOK, Shown
  <2> QED BY <2>1, <2>2, <2>3
<1> HIDE DEF mirrored, shown, entries, moved, reselected
<1>6. /\ poll'.canvas = IF moved THEN NoRun ELSE b.poll.canvas
      /\ poll'.selected = IF reselected THEN NoRun ELSE b.poll.selected
      /\ poll'.search = IF searchAgain THEN NoRun ELSE b.poll.search
  BY <1>1
<1>7. poll' \in PollRecord
  BY <1>1, Typed DEF PollRecord, BatchOK
<1>8. Shown(poll'.canvas, host) /\ Shown(poll'.selected, host) /\ Shown(poll'.search, host)
  BY <1>6 DEF BatchOK, WindowOK, Shown
<1>9. search' \subseteq Existing(host)
  BY <1>1, <1>3 DEF WindowOK
<1>10. WindowOK(host)'
  BY <1>1, <1>2, <1>3, <1>4, <1>7, <1>8, <1>9 DEF WindowOK, BatchOK
<1>11. poll'.canvas # NoRun => canvas' # NoRun /\ poll'.canvas.run = canvas'.run
  BY <1>1, <1>5, <1>6 DEF BatchOK, PollsFollow
<1>12. poll'.search # NoRun => canvas' = NoRun
  BY <1>1, <1>6 DEF BatchOK, PollsFollow
<1> QED BY <1>1, <1>10, <1>11, <1>12 DEF PollsFollow

LEMMA NowFields ==
    /\ Now.canvas = canvas /\ Now.selected = selected /\ Now.list = list /\ Now.doc = doc
    /\ Now.poll = poll /\ Now.stray = stray /\ Now.setRun = FALSE
BY DEF Now

\* What happens at the runtime takes nothing away that the window knows.
HostGrows == \A r \in Existing(host) : r \in Existing(host') /\ host'[r].doc = host[r].doc

LEMMA WindowStays ==
    ASSUME WindowOK(host), PollsFollow, HostGrows, UNCHANGED <<doc, view, search, poll, stray>>
    PROVE  WindowOK(host)' /\ PollsFollow'
BY DEF WindowOK, PollsFollow, HostGrows, Shown, Known, view

LEMMA JobStays ==
    ASSUME HostGrows, NEW v, JobOK(v, host)
    PROVE  JobOK(v, host')
BY DEF HostGrows, JobOK, Known, AllOps

LEMMA SourceStays ==
    ASSUME WindowOK(host), SourceOK, HostGrows, UNCHANGED <<source, canvas, crossed>>
    PROVE  SourceOK'
BY DEF WindowOK, SourceOK, HostGrows, Shown, Known

-----------------------------------------------------------------------------
(* The runtime and the requests. *)

LEMMA Changes ==
    ASSUME HostOK, NEW r \in Runs, NEW state \in States, Change(r, state)
    PROVE  HostOK' /\ HostGrows /\ r \in Existing(host') /\ host'[r].state = state
<1>1. host \in [Runs -> RunRecord] /\ host[r] \in RunRecord
  BY DEF HostOK
<1> DEFINE now == [host[r] EXCEPT !.rev = host[r].rev + 1, !.state = state]
<1>2. now \in RunRecord /\ now.rev > 0 /\ now.doc = host[r].doc /\ now.state = state
  <2>1. host[r].rev \in Nat /\ host[r].rev + 1 \in Nat /\ host[r].rev + 1 > 0
    BY <1>1 DEF RunRecord
  <2>2. now.rev = host[r].rev + 1 /\ now.doc = host[r].doc /\ now.state = state
    BY <1>1 DEF RunRecord
  <2>3. now \in RunRecord
    BY <1>1, <2>1 DEF RunRecord
  <2> QED BY <2>1, <2>2, <2>3
<1>3. host' = [host EXCEPT ![r].rev = @ + 1, ![r].state = state]
  BY DEF Change
<1>4. host' = [host EXCEPT ![r] = now]
  BY <1>1, <1>3 DEF RunRecord
<1> HIDE DEF now
<1>5. host' \in [Runs -> RunRecord] /\ host'[r] = now /\ \A s \in Runs \ {r} : host'[s] = host[s]
  BY <1>1, <1>2, <1>4
<1> QED BY <1>2, <1>5 DEF HostOK, HostGrows, Existing

LEMMA Recorded ==
    ASSUME HostOK, NEW r \in Existing(host)
    PROVE  Known(Record(r), host) /\ Record(r).run = r
BY DEF HostOK, Existing, Known, Record, Records, RunRecord

\* One request changes.
LEMMA JobsStep ==
    ASSUME JobsOK, HostGrows, NEW j \in Jobs, NEW v \in JobRecord, JobOK(v, host'),
           job' = [job EXCEPT ![j] = v]
    PROVE  JobsOK'
<1>1. job' \in [Jobs -> JobRecord] /\ job'[j] = v /\ \A i \in Jobs \ {j} : job'[i] = job[i]
  BY DEF JobsOK
<1>2. ASSUME NEW i \in Jobs PROVE JobOK(job'[i], host')
  <2>1. JobOK(job[i], host)
    BY DEF JobsOK
  <2> QED BY <1>1, <2>1, JobStays
<1> QED BY <1>1, <1>2 DEF JobsOK

\* A request is made about a run that exists by now.
LEMMA RequestStep ==
    ASSUME CanvasInv, HostOK', HostGrows, NEW j \in Jobs, NEW op \in AllOps \ {"refresh"},
           NEW rec, Known(rec, host'), op = "start" => host'[rec.run].doc = doc, Request(j, op, rec)
    PROVE  CanvasInv'
<1> DEFINE v == [Fresh EXCEPT !.op = op, !.rec = rec, !.doc = IF op = "start" THEN doc ELSE None,
                              !.ours = op \in {"resume", "retry"} /\ rec.run = canvas.run]
<1>1. job' = [job EXCEPT ![j] = v] /\ UNCHANGED <<doc, view, search, poll, stray, crossed>>
  BY DEF Request
<1>2. /\ v.op = op /\ v.rec = rec /\ v.seen = {} /\ v.doc = (IF op = "start" THEN doc ELSE None)
      /\ v \in JobRecord
  BY Typed DEF Fresh, JobRecord, CanvasInv, WindowOK
<1> HIDE DEF v
<1>3. JobOK(v, host')
  BY <1>2 DEF JobOK, CanvasInv, WindowOK
<1>4. JobsOK'
  BY <1>1, <1>2, <1>3, JobsStep DEF CanvasInv
<1> QED BY <1>1, <1>4, WindowStays, SourceStays DEF CanvasInv, view

LEMMA NothingHappens == UNCHANGED host => HostGrows
BY DEF HostGrows

\* Requests of the user.
LEMMA MakeStep ==
    ASSUME CanvasInv, NEW j \in Jobs,
           \/ RunGraph(j) \/ InspectRun(j) \/ RefreshRuns(j) \/ CancelRun(j) \/ CancelCanvasRun(j)
           \/ ResumeRun(j)
    PROVE  CanvasInv'
<1>1. HostOK /\ WindowOK(host) /\ doc \in Docs
  BY DEF CanvasInv, WindowOK
<1>2. CASE RunGraph(j)
  <2>1. PICK r \in Runs, state \in {"planned", "running"} :
           /\ ~Created(r)
           /\ host' = [host EXCEPT ![r] = [rev |-> 1, state |-> state, doc |-> doc]]
           /\ Request(j, "start", [run |-> r, state |-> state])
    BY <1>2 DEF RunGraph
  <2> DEFINE rec == [run |-> r, state |-> state]
  <2>2. [rev |-> 1, state |-> state, doc |-> doc] \in RunRecord
    BY <1>1 DEF RunRecord, States
  <2>3. /\ host' \in [Runs -> RunRecord] /\ host'[r] = [rev |-> 1, state |-> state, doc |-> doc]
        /\ \A s \in Runs \ {r} : host'[s] = host[s]
    BY <1>1, <2>1, <2>2 DEF HostOK
  <2>4. HostOK' /\ HostGrows
    BY <2>1, <2>3 DEF HostOK, HostGrows, Existing, Created
  <2>5. Known(rec, host') /\ host'[rec.run].doc = doc
    BY <2>3 DEF Known, Records, Existing, States
  <2>6. Request(j, "start", rec)
    BY <2>1
  <2> HIDE DEF rec
  <2> QED BY <2>4, <2>5, <2>6, RequestStep DEF AllOps
<1>3. CASE InspectRun(j)
  <2>1. PICK r \in list : Request(j, "inspect", Record(r))
    BY <1>3 DEF InspectRun
  <2>2. Known(Record(r), host) /\ UNCHANGED host
    BY <1>1, <1>3, Recorded DEF WindowOK, InspectRun
  <2>3. HostGrows /\ HostOK' /\ Known(Record(r), host')
    BY <1>1, <2>2, NothingHappens DEF HostOK
  <2> QED BY <2>1, <2>3, RequestStep DEF AllOps
<1>4. CASE RefreshRuns(j)
  <2> DEFINE v == Refreshing(selected.run)
  <2>1. job' = [job EXCEPT ![j] = v] /\ UNCHANGED <<host, doc, view, search, poll, stray, crossed>>
    BY <1>4 DEF RefreshRuns
  <2>2. selected.run \in Runs \cup {None}
    BY <1>1, Typed DEF WindowOK, Records
  <2>3. v \in JobRecord /\ v.op = "refresh" /\ v.seen = Existing(host)
    BY <2>2, Typed DEF Refreshing, Fresh, JobRecord, Records, AllOps, NoRun, Existing, Created
  <2> HIDE DEF v
  <2>4. JobOK(v, host') /\ HostGrows
    BY <2>1, <2>3, NothingHappens DEF JobOK
  <2>5. JobsOK' /\ HostOK'
    BY <1>1, <2>1, <2>3, <2>4, JobsStep DEF CanvasInv, HostOK
  <2> QED BY <2>1, <2>4, <2>5, WindowStays, SourceStays DEF CanvasInv, view
<1>5. ASSUME NEW op \in {"cancel", "stop"}, NEW r \in Existing(host), Cancelling(j, op, r) PROVE CanvasInv'
  <2> DEFINE rec == [run |-> r, state |-> host'[r].state]
  <2>1. r \in Runs
    BY DEF Existing
  <2>2. HostOK' /\ HostGrows /\ r \in Existing(host')
    <3>1. CASE Change(r, "ended")
      BY <1>1, <2>1, <3>1, Changes DEF States
    <3>2. CASE UNCHANGED host
      BY <1>1, <1>5, <3>2, NothingHappens DEF HostOK
    <3> QED BY <1>5, <3>1, <3>2 DEF Cancelling
  <2>3. Known(rec, host')
    BY <2>1, <2>2 DEF Known, Records, HostOK, RunRecord
  <2>4. Request(j, op, rec) /\ op \in AllOps \ {"refresh"} /\ op # "start"
    BY <1>5 DEF Cancelling, AllOps
  <2> HIDE DEF rec
  <2> QED BY <2>2, <2>3, <2>4, RequestStep
<1>6. CASE CancelRun(j)
  <2>1. selected.run \in Existing(host)
    BY <1>1, <1>6 DEF CancelRun, WindowOK, Shown, Known
  <2> QED BY <1>5, <1>6, <2>1 DEF CancelRun
<1>7. CASE CancelCanvasRun(j)
  <2>1. canvas.run \in Existing(host)
    BY <1>1, <1>7 DEF CancelCanvasRun, runActive, WindowOK, Shown, Known, NoRun
  <2> QED BY <1>5, <1>7, <2>1 DEF CancelCanvasRun
<1>8. CASE ResumeRun(j)
  <2> DEFINE r == selected.run
             rec == [run |-> r, state |-> "running"]
  <2>1. r \in Runs
    BY <1>1, <1>8 DEF ResumeRun, WindowOK, Shown, Known, NoRun, Existing
  <2>2. Change(r, "running")
    BY <1>8 DEF ResumeRun
  <2>3. HostOK' /\ HostGrows /\ r \in Existing(host')
    BY <1>1, <2>1, <2>2, Changes DEF States
  <2>4. Known(rec, host')
    BY <2>1, <2>3 DEF Known, Records, States
  <2>5. PICK op \in {"resume", "retry"} : Request(j, op, rec)
    BY <1>8 DEF ResumeRun
  <2>6. op \in AllOps \ {"refresh"} /\ op # "start"
    BY DEF AllOps
  <2> HIDE DEF rec, r
  <2> QED BY <2>3, <2>4, <2>5, <2>6, RequestStep
<1> QED BY <1>2, <1>3, <1>4, <1>6, <1>7, <1>8

LEMMA HostStep ==
    ASSUME CanvasInv, NEW r \in Runs, HostProgress(r)
    PROVE  CanvasInv'
<1>1. PICK state \in {"running", "ended"} : Change(r, state)
  BY DEF HostProgress
<1>2. HostOK' /\ HostGrows
  BY <1>1, Changes DEF CanvasInv, States
<1>3. JobsOK'
  <2>1. UNCHANGED job
    BY DEF HostProgress
  <2> QED BY <1>2, <2>1, JobStays DEF CanvasInv, JobsOK
<1> QED BY <1>2, <1>3, WindowStays, SourceStays DEF HostProgress, CanvasInv, view

-----------------------------------------------------------------------------
(* The questions and the answers. *)

LEMMA JobsRest == UNCHANGED <<host, job>> /\ JobsOK => JobsOK'
BY DEF JobsOK

LEMMA Settles ==
    ASSUME JobsOK, UNCHANGED host, NEW j \in Jobs, Settle(j)
    PROVE  JobsOK'
<1>1. Over \in JobRecord
  BY Typed DEF Over, Fresh, JobRecord
<1>2. Over.op = "over" /\ Over.seen = {}
  BY DEF Over, Fresh
<1>3. JobOK(Over, host')
  BY <1>2 DEF JobOK, AllOps
<1> QED BY <1>1, <1>3, NothingHappens, JobsStep DEF Settle

LEMMA Refreshes ==
    ASSUME JobsOK, UNCHANGED host, NEW j \in Jobs, ThenRefresh(j)
    PROVE  JobsOK'
<1> DEFINE v == Refreshing(job[j].rec.run)
<1>1. job[j].rec.run \in Runs \cup {None}
  BY DEF JobsOK, JobRecord, Records
<1>2. v \in JobRecord /\ v.op = "refresh" /\ v.seen = Existing(host)
  BY <1>1, Typed DEF Refreshing, Fresh, JobRecord, Records, AllOps, NoRun, Existing, Created
<1>3. job' = [job EXCEPT ![j] = v]
  BY DEF ThenRefresh
<1> HIDE DEF v
<1>4. JobOK(v, host')
  BY <1>2 DEF JobOK
<1> QED BY <1>2, <1>3, <1>4, NothingHappens, JobsStep

\* The canvas shows the run it showed, or there is no source.
LEMMA SourceKept ==
    ASSUME SourceOK, UNCHANGED <<host, source, crossed>>,
           canvas' = canvas \/ source = None \/ (canvas' # NoRun /\ canvas'.run = canvas.run)
    PROVE  SourceOK'
BY DEF SourceOK

LEMMA Rendered ==
    ASSUME CanvasInv, NEW b, BatchOK(b), Show(b), UNCHANGED host, JobsOK', SourceOK', crossed' \in BOOLEAN
    PROVE  CanvasInv'
BY ShowStep DEF CanvasInv, HostOK

\* A question is put and answered at the host.
LEMMA AskStep ==
    ASSUME CanvasInv, AskCanvas \/ AskSelected \/ SearchStep
    PROVE  CanvasInv'
<1>1. /\ UNCHANGED <<host, doc, view, stray, job, crossed>> /\ poll \in PollRecord /\ HostOK
      /\ search' \subseteq search
  BY DEF AskCanvas, AskSelected, SearchStep, AskOnly, CanvasInv, WindowOK
<1>2. ASSUME NEW who \in {"canvas", "selected", "search"}, NEW r \in Existing(host), Ask(who, r)
      PROVE  /\ poll' \in PollRecord /\ poll'[who] = Record(r)
             /\ \A other \in {"canvas", "selected", "search"} \ {who} : poll'[other] = poll[other]
             /\ Known(Record(r), host) /\ Record(r).run = r
  <2>1. Known(Record(r), host) /\ Record(r).run = r /\ Record(r) \in Records
    BY <1>1, Recorded, Typed
  <2>2. poll' = [poll EXCEPT ![who] = Record(r)]
    BY <1>2 DEF Ask
  <2> QED BY <1>1, <2>1, <2>2 DEF PollRecord
<1>3. CASE AskCanvas
  <2>1. canvas # NoRun /\ canvas.run \in Existing(host) /\ Ask("canvas", canvas.run) /\ UNCHANGED search
    BY <1>3 DEF AskCanvas, runActive, NoRun, CanvasInv, WindowOK, Shown, Known
  <2>2. /\ poll' \in PollRecord /\ Known(poll'.canvas, host) /\ poll'.canvas.run = canvas.run
        /\ poll'.selected = poll.selected /\ poll'.search = poll.search
    BY <1>2, <2>1
  <2>3. WindowOK(host)'
    BY <1>1, <2>1, <2>2 DEF CanvasInv, WindowOK, view, Shown
  <2>4. PollsFollow'
    BY <1>1, <2>1, <2>2 DEF CanvasInv, PollsFollow, view
  <2> QED BY <1>1, <2>3, <2>4, JobsRest, SourceKept DEF CanvasInv, HostOK, view
<1>4. CASE AskSelected
  <2>1. selected.run \in Existing(host) /\ Ask("selected", selected.run) /\ UNCHANGED search
    BY <1>4 DEF AskSelected, Watched, NoRun, CanvasInv, WindowOK, Shown, Known
  <2>2. /\ poll' \in PollRecord /\ Known(poll'.selected, host)
        /\ poll'.canvas = poll.canvas /\ poll'.search = poll.search
    BY <1>2, <2>1
  <2>3. WindowOK(host)'
    BY <1>1, <2>1, <2>2 DEF CanvasInv, WindowOK, view, Shown
  <2>4. PollsFollow'
    BY <1>1, <2>2 DEF CanvasInv, PollsFollow, view
  <2> QED BY <1>1, <2>3, <2>4, JobsRest, SourceKept DEF CanvasInv, HostOK, view
<1>5. CASE SearchStep
  <2>1. PICK r \in search : Ask("search", r) /\ search' = search \ {r}
    BY <1>5 DEF SearchStep
  <2>2. canvas = NoRun /\ r \in Existing(host)
    BY <1>5 DEF SearchStep, CanvasInv, WindowOK
  <2>3. /\ poll' \in PollRecord /\ Known(poll'.search, host)
        /\ poll'.canvas = poll.canvas /\ poll'.selected = poll.selected
    BY <1>2, <2>1, <2>2
  <2>4. WindowOK(host)'
    BY <1>1, <2>3 DEF CanvasInv, WindowOK, view, Shown
  <2>5. PollsFollow'
    BY <1>1, <2>2, <2>3 DEF CanvasInv, PollsFollow, view
  <2> QED BY <1>1, <2>4, <2>5, JobsRest, SourceKept DEF CanvasInv, HostOK, view
<1> QED BY <1>3, <1>4, <1>5

\* A watch or the search gets its answer.
LEMMA WatchStep ==
    ASSUME CanvasInv, CanvasAnswered \/ SelectedAnswered \/ StrayAnswered \/ SearchAnswered
    PROVE  CanvasInv'
<1>1. /\ UNCHANGED <<host, source, job, crossed>> /\ crossed \in BOOLEAN /\ SourceOK /\ JobsOK'
      /\ poll \in PollRecord /\ NoRun \in Records
  BY JobsRest, Typed DEF CanvasAnswered, SelectedAnswered, StrayAnswered, SearchAnswered, CanvasInv, WindowOK
<1>2. CASE CanvasAnswered
  <2> DEFINE b == [Now EXCEPT !.canvas = poll.canvas, !.setRun = TRUE, !.poll.canvas = NoRun]
  <2>1. /\ b.doc = doc /\ b.canvas = poll.canvas /\ b.selected = selected /\ b.list = list /\ b.stray = stray
        /\ b.poll = [poll EXCEPT !.canvas = NoRun] /\ b.setRun
    BY DEF Now
  <2>2. Show(b) /\ poll.canvas # NoRun
    BY <1>2 DEF CanvasAnswered
  <2> HIDE DEF b
  <2>3. /\ b.poll \in PollRecord /\ b.poll.canvas = NoRun /\ b.poll.selected = poll.selected
        /\ b.poll.search = poll.search
    BY <1>1, <2>1 DEF PollRecord
  <2>4. BatchOK(b)
    BY <2>1, <2>3 DEF BatchOK, CanvasInv, WindowOK
  <2>5. canvas' = b.canvas
    BY <1>1, <2>2, <2>4, ShowStep DEF CanvasInv
  <2>6. SourceOK'
    BY <1>1, <2>1, <2>2, <2>5, SourceKept DEF CanvasInv, PollsFollow
  <2> QED BY <1>1, <2>2, <2>4, <2>6, Rendered
<1>3. CASE SelectedAnswered
  <2> DEFINE b == [Now EXCEPT !.selected = poll.selected, !.list = @ \cup {poll.selected.run},
                              !.setRuns = TRUE, !.poll.selected = NoRun]
  <2>1. /\ b.doc = doc /\ b.canvas = canvas /\ b.selected = poll.selected
        /\ b.list = list \cup {poll.selected.run} /\ b.stray = stray
        /\ b.poll = [poll EXCEPT !.selected = NoRun]
    BY DEF Now
  <2>2. Show(b) /\ poll.selected # NoRun
    BY <1>3 DEF SelectedAnswered
  <2> HIDE DEF b
  <2>3. /\ b.poll \in PollRecord /\ b.poll.canvas = poll.canvas /\ b.poll.selected = NoRun
        /\ b.poll.search = poll.search
    BY <1>1, <2>1 DEF PollRecord
  <2>4. BatchOK(b)
    BY <2>1, <2>2, <2>3 DEF BatchOK, CanvasInv, WindowOK, Shown, Known
  <2>5. canvas' = b.canvas
    BY <1>1, <2>2, <2>4, ShowStep DEF CanvasInv
  <2>6. SourceOK'
    BY <1>1, <2>1, <2>5, SourceKept
  <2> QED BY <1>1, <2>2, <2>4, <2>6, Rendered
<1>4. CASE StrayAnswered
  <2>1. PICK rec \in stray : Show([Now EXCEPT !.selected = rec, !.list = @ \cup {rec.run},
                                              !.setRuns = TRUE, !.stray = @ \ {rec}])
    BY <1>4 DEF StrayAnswered
  <2> DEFINE b == [Now EXCEPT !.selected = rec, !.list = @ \cup {rec.run}, !.setRuns = TRUE, !.stray = @ \ {rec}]
  <2>2. /\ b.doc = doc /\ b.canvas = canvas /\ b.selected = rec /\ b.list = list \cup {rec.run}
        /\ b.stray = stray \ {rec} /\ b.poll = poll
    BY DEF Now
  <2>3. Show(b)
    BY <2>1
  <2> HIDE DEF b
  <2>4. BatchOK(b)
    BY <2>2 DEF BatchOK, CanvasInv, WindowOK, Shown, Known
  <2>5. canvas' = b.canvas
    BY <1>1, <2>3, <2>4, ShowStep DEF CanvasInv
  <2>6. SourceOK'
    BY <1>1, <2>2, <2>5, SourceKept
  <2> QED BY <1>1, <2>3, <2>4, <2>6, Rendered
<1>5. CASE SearchAnswered
  <2> DEFINE quiet == [Now EXCEPT !.poll.search = NoRun]
             found == [Now EXCEPT !.canvas = poll.search, !.setRun = TRUE, !.poll.search = NoRun]
  <2>1. /\ quiet.doc = doc /\ quiet.canvas = canvas /\ quiet.selected = selected /\ quiet.list = list
        /\ quiet.stray = stray /\ quiet.poll = [poll EXCEPT !.search = NoRun]
    BY DEF Now
  <2>2. /\ found.doc = doc /\ found.canvas = poll.search /\ found.selected = selected /\ found.list = list
        /\ found.stray = stray /\ found.poll = [poll EXCEPT !.search = NoRun] /\ found.setRun
    BY DEF Now
  <2>3. Show(quiet) \/ Show(found)
    BY <1>5 DEF SearchAnswered
  <2>4. canvas = NoRun /\ source = None
    BY <1>5 DEF SearchAnswered, CanvasInv, PollsFollow, SourceOK
  <2> HIDE DEF quiet, found
  <2>5. LET p == [poll EXCEPT !.search = NoRun] IN
          p \in PollRecord /\ p.canvas = poll.canvas /\ p.selected = poll.selected /\ p.search = NoRun
    BY <1>1 DEF PollRecord
  <2>6. BatchOK(quiet) /\ BatchOK(found)
    BY <2>1, <2>2, <2>5 DEF BatchOK, CanvasInv, WindowOK
  <2>7. SourceOK'
    BY <1>1, <2>4, SourceKept
  <2> QED BY <1>1, <2>3, <2>6, <2>7, Rendered
<1> QED BY <1>2, <1>3, <1>4, <1>5

\* A watch fails, or is begun again.
LEMMA PollFailsStep ==
    ASSUME CanvasInv, CanvasPollFails \/ SelectedPollFails \/ Reconnect
    PROVE  CanvasInv'
<1>1. /\ UNCHANGED <<host, doc, canvas, source, list, selected, search, job, crossed>>
      /\ poll \in PollRecord /\ NoRun \in Records /\ stray' \subseteq stray
      /\ \/ UNCHANGED poll
         \/ poll' = [poll EXCEPT !.canvas = NoRun] \/ poll' = [poll EXCEPT !.selected = NoRun]
  BY Typed DEF CanvasPollFails, SelectedPollFails, Reconnect, view, CanvasInv, WindowOK
<1>2. /\ poll' \in PollRecord /\ poll'.canvas \in {NoRun, poll.canvas}
      /\ poll'.selected \in {NoRun, poll.selected} /\ poll'.search = poll.search
  BY <1>1 DEF PollRecord
<1>3. WindowOK(host)'
  BY <1>1, <1>2 DEF CanvasInv, WindowOK, Shown
<1>4. PollsFollow'
  BY <1>1, <1>2 DEF CanvasInv, PollsFollow
<1> QED BY <1>1, <1>3, <1>4, JobsRest, SourceKept DEF CanvasInv, HostOK

\* What a request knows when its answer comes.
LEMMA JobKnows ==
    ASSUME CanvasInv, NEW j \in Jobs
    PROVE  /\ job[j] \in JobRecord /\ JobOK(job[j], host)
           /\ job[j].op \in AllOps \ {"refresh"} => Known(job[j].rec, host)
BY DEF CanvasInv, JobsOK, JobOK

\* A run becomes the selected one, or the canvas' too.
LEMMA ShowsKnown ==
    ASSUME CanvasInv, NEW b, b.doc = doc, b.poll = poll, b.stray = stray, Shown(b.canvas, host),
           Shown(b.selected, host), b.list \subseteq Existing(host), b.canvas = canvas \/ b.setRun
    PROVE  BatchOK(b)
BY DEF BatchOK, CanvasInv, WindowOK

LEMMA StartStep ==
    ASSUME CanvasInv, NEW j \in Jobs, RunAnswered(j)
    PROVE  CanvasInv'
<1> DEFINE rec == job[j].rec
           b == [Now EXCEPT !.canvas = rec, !.selected = rec, !.list = @ \cup {rec.run},
                            !.setRun = TRUE, !.setRuns = TRUE]
<1>1. /\ Known(rec, host) /\ job[j].doc \in Docs /\ host[rec.run].doc = job[j].doc /\ rec # NoRun
      /\ UNCHANGED <<host, crossed>> /\ Settle(j) /\ source' = job[j].doc /\ crossed \in BOOLEAN
  BY JobKnows, Typed DEF RunAnswered, JobOK, AllOps, CanvasInv
<1>2. Show(b)
  BY DEF RunAnswered, ShowRun
<1>3. /\ b.doc = doc /\ b.poll = poll /\ b.stray = stray /\ b.canvas = rec /\ b.selected = rec /\ b.setRun
      /\ b.list = list \cup {rec.run}
  BY DEF Now
<1> HIDE DEF b, rec
<1>4. BatchOK(b)
  BY <1>1, <1>3, ShowsKnown DEF CanvasInv, WindowOK, Shown, Known
<1>5. canvas' = rec
  BY <1>1, <1>2, <1>3, <1>4, ShowStep DEF CanvasInv
<1>6. SourceOK'
  BY <1>1, <1>5 DEF SourceOK
<1>7. JobsOK'
  BY <1>1, Settles DEF CanvasInv
<1> QED BY <1>1, <1>2, <1>4, <1>6, <1>7, Rendered

LEMMA SelectStep ==
    ASSUME CanvasInv, NEW j \in Jobs, InspectAnswered(j) \/ CancelAnswered(j)
    PROVE  CanvasInv'
<1> DEFINE rec == job[j].rec
           b == [Now EXCEPT !.selected = rec]
<1>1. /\ Known(rec, host) /\ UNCHANGED <<host, source, crossed>> /\ Show(b) /\ crossed \in BOOLEAN
      /\ Settle(j) \/ ThenRefresh(j)
  BY JobKnows DEF InspectAnswered, CancelAnswered, AllOps, CanvasInv
<1>2. /\ b.doc = doc /\ b.poll = poll /\ b.stray = stray /\ b.canvas = canvas /\ b.selected = rec /\ b.list = list
  BY DEF Now
<1> HIDE DEF b, rec
<1>3. BatchOK(b)
  BY <1>1, <1>2, ShowsKnown DEF CanvasInv, WindowOK, Shown
<1>4. canvas' = canvas
  BY <1>1, <1>2, <1>3, ShowStep DEF CanvasInv
<1>5. SourceOK'
  BY <1>1, <1>4, SourceKept DEF CanvasInv
<1>6. JobsOK'
  BY <1>1, Settles, Refreshes DEF CanvasInv
<1> QED BY <1>1, <1>3, <1>5, <1>6, Rendered

LEMMA ListStep ==
    ASSUME CanvasInv, NEW j \in Jobs, ListAnswered(j)
    PROVE  CanvasInv'
<1> DEFINE seen == job[j].seen
           r == job[j].rec.run
           b == [Now EXCEPT !.list = seen, !.setRuns = TRUE]
           v == IF r \notin seen THEN Over ELSE [Fresh EXCEPT !.op = "inspect", !.rec = Record(r)]
<1>1. /\ seen \subseteq Existing(host) /\ UNCHANGED <<host, source, crossed>> /\ Show(b) /\ crossed \in BOOLEAN
      /\ job' = [job EXCEPT ![j] = v] /\ HostOK /\ JobsOK
  BY JobKnows DEF ListAnswered, JobOK, CanvasInv
<1>2. /\ b.doc = doc /\ b.poll = poll /\ b.stray = stray /\ b.canvas = canvas /\ b.selected = selected
      /\ b.list = seen
  BY DEF Now
<1>3. v \in JobRecord /\ JobOK(v, host)
  <2>1. CASE r \notin seen
    <3>1. v = Over
      BY <2>1
    <3>2. Over \in JobRecord /\ Over.op = "over" /\ Over.seen = {}
      BY Typed DEF Over, Fresh, JobRecord
    <3> HIDE DEF v
    <3> QED BY <3>1, <3>2 DEF JobOK, AllOps
  <2>2. CASE r \in seen
    <3> DEFINE w == [Fresh EXCEPT !.op = "inspect", !.rec = Record(r)]
    <3>1. v = w
      BY <2>2
    <3>2. Known(Record(r), host) /\ Record(r) \in Records
      BY <1>1, <2>2, Recorded, Typed
    <3>3. w \in JobRecord /\ w.op = "inspect" /\ w.seen = {} /\ w.rec = Record(r)
      BY <3>2 DEF Fresh, JobRecord, AllOps
    <3> HIDE DEF v, w
    <3> QED BY <3>1, <3>2, <3>3 DEF JobOK
  <2> QED BY <2>1, <2>2
<1> HIDE DEF b, seen, v
<1>4. BatchOK(b)
  BY <1>1, <1>2, ShowsKnown DEF CanvasInv, WindowOK
<1>5. canvas' = canvas
  BY <1>1, <1>2, <1>4, ShowStep DEF CanvasInv
<1>6. SourceOK'
  BY <1>1, <1>5, SourceKept DEF CanvasInv
<1>7. JobOK(v, host')
  BY <1>1, <1>3
<1>8. JobsOK'
  BY <1>1, <1>3, <1>7, NothingHappens, JobsStep
<1> QED BY <1>1, <1>4, <1>6, <1>8, Rendered

LEMMA StopStep ==
    ASSUME CanvasInv, NEW j \in Jobs, StopAnswered(j)
    PROVE  CanvasInv'
<1> DEFINE rec == job[j].rec
           taken == [Now EXCEPT !.canvas = rec, !.setRun = TRUE]
           b == IF canvas.run = rec.run THEN taken ELSE Now
<1>1. /\ Known(rec, host) /\ UNCHANGED <<host, source, crossed>> /\ Show(b) /\ crossed \in BOOLEAN /\ Settle(j)
  BY JobKnows DEF StopAnswered, AllOps, CanvasInv
<1>2. /\ taken.doc = doc /\ taken.poll = poll /\ taken.stray = stray /\ taken.canvas = rec
      /\ taken.selected = selected /\ taken.list = list /\ taken.setRun
  BY DEF Now
<1> HIDE DEF taken, rec
<1>3. /\ b.doc = doc /\ b.poll = poll /\ b.stray = stray /\ b.selected = selected /\ b.list = list
      /\ b.canvas = canvas \/ (b.canvas = rec /\ b.setRun /\ canvas.run = rec.run)
  BY <1>2, NowFields
<1> HIDE DEF b
<1>4. BatchOK(b)
  BY <1>1, <1>3, ShowsKnown DEF CanvasInv, WindowOK, Shown
<1>5. canvas' = b.canvas
  BY <1>1, <1>4, ShowStep DEF CanvasInv
<1>6. SourceOK'
  BY <1>1, <1>3, <1>5, SourceKept, Typed DEF CanvasInv
<1>7. JobsOK'
  BY <1>1, Settles DEF CanvasInv
<1> QED BY <1>1, <1>4, <1>6, <1>7, Rendered

LEMMA AgainStep ==
    ASSUME CanvasInv, NEW j \in Jobs, AgainAnswered(j)
    PROVE  CanvasInv'
<1> DEFINE rec == job[j].rec
           tracked == job[j].ours
           b == [Now EXCEPT !.canvas = IF tracked THEN rec ELSE @, !.setRun = tracked, !.selected = rec,
                            !.list = IF job[j].op = "resume" THEN @ \cup {rec.run} ELSE @,
                            !.setRuns = (job[j].op = "resume")]
<1>1. /\ Known(rec, host) /\ UNCHANGED <<host, source>> /\ crossed \in BOOLEAN /\ tracked \in BOOLEAN
      /\ Settle(j) \/ ThenRefresh(j)
  BY JobKnows DEF AgainAnswered, AllOps, CanvasInv, JobRecord
<1>2. Show(b) /\ crossed' = (crossed \/ (tracked /\ canvas.run \notin {None, rec.run}))
  BY DEF AgainAnswered
<1>3. /\ b.doc = doc /\ b.poll = poll /\ b.stray = stray /\ b.selected = rec
      /\ b.canvas = (IF tracked THEN rec ELSE canvas) /\ b.setRun = tracked
      /\ b.list \in {list, list \cup {rec.run}}
  BY DEF Now
<1> HIDE DEF b, rec, tracked
<1>4. BatchOK(b)
  <2>1. b.list \subseteq Existing(host)
    BY <1>1, <1>3 DEF CanvasInv, WindowOK, Known
  <2>2. Shown(b.canvas, host) /\ Shown(b.selected, host)
    BY <1>1, <1>3 DEF CanvasInv, WindowOK, Shown
  <2>3. b.canvas = canvas \/ b.setRun
    BY <1>1, <1>3
  <2> QED BY <1>3, <2>1, <2>2, <2>3, ShowsKnown
<1>5. canvas' = b.canvas
  BY <1>1, <1>2, <1>4, ShowStep DEF CanvasInv
<1>6. crossed' \in BOOLEAN
  BY <1>1, <1>2
<1>7. SourceOK'
  <2>1. CASE tracked
    <3>1. canvas' = rec /\ rec # NoRun
      BY <1>1, <1>3, <1>5, <2>1, Typed
    <3>2. source # None /\ ~crossed' => canvas.run = rec.run /\ ~crossed
      BY <1>2, <2>1, Typed DEF CanvasInv, SourceOK, WindowOK, Shown
    <3> QED BY <1>1, <3>1, <3>2 DEF CanvasInv, SourceOK
  <2>2. CASE ~tracked
    <3>1. canvas' = canvas /\ crossed' = crossed
      BY <1>1, <1>2, <1>3, <1>5, <2>2 DEF CanvasInv
    <3> QED BY <1>1, <3>1, SourceKept DEF CanvasInv
  <2> QED BY <1>1, <2>1, <2>2
<1>8. JobsOK'
  BY <1>1, Settles, Refreshes DEF CanvasInv
<1> QED BY <1>1, <1>2, <1>4, <1>6, <1>7, <1>8, Rendered

LEMMA JobFailsStep ==
    ASSUME CanvasInv, NEW j \in Jobs, JobFails(j)
    PROVE  CanvasInv'
<1>1. UNCHANGED <<host, doc, canvas, source, list, selected, search, poll, stray, crossed>> /\ Settle(j)
  BY DEF JobFails
<1>2. WindowOK(host)' /\ PollsFollow'
  BY <1>1 DEF CanvasInv, WindowOK, PollsFollow
<1> QED BY <1>1, <1>2, Settles, SourceKept DEF CanvasInv, HostOK

LEMMA WindowStep ==
    ASSUME CanvasInv, (\E d \in Docs : EditDocument(d) \/ OpenWorkflow(d)) \/ ShowDetails
    PROVE  CanvasInv'
<1>1. UNCHANGED <<host, job, crossed>> /\ crossed \in BOOLEAN /\ JobsOK'
  BY JobsRest DEF EditDocument, OpenWorkflow, ShowDetails, CanvasInv
<1>2. ASSUME NEW d \in Docs, EditDocument(d) PROVE CanvasInv'
  <2> DEFINE b == [Now EXCEPT !.doc = d]
  <2>1. /\ b.doc = d /\ b.poll = poll /\ b.stray = stray /\ b.canvas = canvas /\ b.selected = selected
        /\ b.list = list
    BY DEF Now
  <2>2. Show(b) /\ UNCHANGED source
    BY <1>2 DEF EditDocument
  <2> HIDE DEF b
  <2>3. BatchOK(b)
    BY <2>1 DEF BatchOK, CanvasInv, WindowOK
  <2>4. canvas' = canvas
    BY <1>1, <2>1, <2>2, <2>3, ShowStep DEF CanvasInv
  <2>5. SourceOK'
    BY <1>1, <2>2, <2>4, SourceKept DEF CanvasInv
  <2> QED BY <1>1, <2>2, <2>3, <2>5, Rendered
<1>3. ASSUME NEW d \in Docs, OpenWorkflow(d) PROVE CanvasInv'
  <2> DEFINE b == [Now EXCEPT !.doc = d, !.canvas = NoRun, !.setRun = TRUE]
  <2>1. /\ b.doc = d /\ b.poll = poll /\ b.stray = stray /\ b.canvas = NoRun /\ b.selected = selected
        /\ b.list = list /\ b.setRun
    BY DEF Now
  <2>2. Show(b) /\ source' = None
    BY <1>3 DEF OpenWorkflow
  <2> HIDE DEF b
  <2>3. BatchOK(b)
    BY <2>1 DEF BatchOK, CanvasInv, WindowOK, Shown
  <2>4. SourceOK'
    BY <2>2 DEF SourceOK
  <2> QED BY <1>1, <2>2, <2>3, <2>4, Rendered
<1>4. ASSUME ShowDetails PROVE CanvasInv'
  <2> DEFINE b == [Now EXCEPT !.selected = canvas]
  <2>1. /\ b.doc = doc /\ b.poll = poll /\ b.stray = stray /\ b.canvas = canvas /\ b.selected = canvas
        /\ b.list = list
    BY DEF Now
  <2>2. Show(b) /\ UNCHANGED source
    BY <1>4 DEF ShowDetails
  <2> HIDE DEF b
  <2>3. BatchOK(b)
    BY <2>1 DEF BatchOK, CanvasInv, WindowOK
  <2>4. canvas' = canvas
    BY <1>1, <2>1, <2>2, <2>3, ShowStep DEF CanvasInv
  <2>5. SourceOK'
    BY <1>1, <2>2, <2>4, SourceKept DEF CanvasInv
  <2> QED BY <1>1, <2>2, <2>3, <2>5, Rendered
<1> QED BY <1>2, <1>3, <1>4

LEMMA CanvasStep == CanvasInv /\ [Next]_vars => CanvasInv'
<1> SUFFICES ASSUME CanvasInv, [Next]_vars PROVE CanvasInv'
  OBVIOUS
<1>1. CASE UNCHANGED vars
  <2>1. UNCHANGED <<host, doc, view, search, poll, stray, job, crossed>>
    BY <1>1 DEF vars
  <2> QED BY <2>1, NothingHappens, JobsRest, WindowStays, SourceStays DEF CanvasInv, HostOK, view
<1>2. ASSUME NEW j \in Jobs, JobStep(j) PROVE CanvasInv'
  BY <1>2, MakeStep, StartStep, SelectStep, ListStep, StopStep, AgainStep, JobFailsStep DEF JobStep
<1> QED BY <1>1, <1>2, HostStep, AskStep, WatchStep, PollFailsStep, WindowStep DEF Next

LEMMA CanvasInit == Init => CanvasInv
<1> SUFFICES ASSUME Init PROVE CanvasInv
  OBVIOUS
<1>1. HostOK
  <2>1. PICK old \in SUBSET Runs, d \in Docs :
           host = [r \in Runs |-> IF r \in old THEN [rev |-> 1, state |-> "ended", doc |-> d]
                                  ELSE [rev |-> 0, state |-> "none", doc |-> None]]
    BY DEF Init
  <2>2. /\ [rev |-> 1, state |-> "ended", doc |-> d] \in RunRecord
        /\ [rev |-> 0, state |-> "none", doc |-> None] \in RunRecord
    BY DEF RunRecord, States
  <2> QED BY <2>1, <2>2 DEF HostOK
<1>2. list = Existing(host) /\ search = list
  BY DEF Init, Existing, Created
<1>3. poll \in PollRecord /\ poll.canvas = NoRun /\ poll.selected = NoRun /\ poll.search = NoRun
  BY Typed DEF Init, PollRecord
<1>4. WindowOK(host) /\ PollsFollow
  BY <1>2, <1>3 DEF Init, WindowOK, PollsFollow, Shown
<1>5. JobsOK
  <2>1. Fresh \in JobRecord /\ Fresh.op = "none" /\ Fresh.seen = {}
    BY Typed DEF Fresh, JobRecord
  <2>2. JobOK(Fresh, host)
    BY <2>1 DEF JobOK, AllOps
  <2> QED BY <2>1, <2>2 DEF Init, JobsOK
<1>6. SourceOK /\ crossed \in BOOLEAN
  BY DEF Init, SourceOK
<1> QED BY <1>1, <1>4, <1>5, <1>6 DEF CanvasInv

LEMMA CanvasInvHolds == Spec => []CanvasInv
BY CanvasInit, CanvasStep, PTL DEF Spec

\* A canvas that showed no run shows one without having been given it: the search
\* found it, and it is of the document that is shown.
LEMMA FoundStep ==
    ASSUME CanvasInv, [Next]_vars, canvas = NoRun, canvas' # NoRun, source' = None, job' = job
    PROVE  host[canvas'.run].doc = doc'
<1>1. ASSUME canvas' = canvas PROVE FALSE
  BY <1>1
<1>2. ASSUME NEW b, Show(b), b.canvas = canvas PROVE FALSE
  BY <1>1, <1>2 DEF Show
<1>3. ASSUME NEW j \in Jobs, job[j].op \notin {"none", "over"}, Settle(j) PROVE FALSE
  <2>1. job'[j] = Over
    BY <1>3 DEF Settle, CanvasInv, JobsOK
  <2> QED BY <1>3, <2>1 DEF Over, Fresh
<1>4. ASSUME NEW j \in Jobs, job[j].op # "refresh", ThenRefresh(j) PROVE FALSE
  <2>1. job'[j].op = "refresh"
    BY <1>4 DEF ThenRefresh, Refreshing, Fresh, CanvasInv, JobsOK
  <2> QED BY <1>4, <2>1
<1>5. ASSUME NEW j \in Jobs, JobStep(j) PROVE FALSE
  <2>1. ASSUME RunGraph(j) \/ InspectRun(j) \/ RefreshRuns(j) \/ CancelRun(j) \/ CancelCanvasRun(j) \/ ResumeRun(j)
        PROVE  FALSE
    BY <1>1, <2>1 DEF RunGraph, InspectRun, RefreshRuns, CancelRun, CancelCanvasRun, ResumeRun, Cancelling,
       Request, view
  <2>2. ASSUME RunAnswered(j) \/ InspectAnswered(j) \/ CancelAnswered(j) \/ StopAnswered(j) \/ AgainAnswered(j)
               \/ JobFails(j)
        PROVE  FALSE
    BY <1>3, <1>4, <2>2 DEF RunAnswered, InspectAnswered, CancelAnswered, StopAnswered, AgainAnswered, JobFails
  <2>3. ASSUME ListAnswered(j) PROVE FALSE
    <3> DEFINE b == [Now EXCEPT !.list = job[j].seen, !.setRuns = TRUE]
    <3>1. Show(b) /\ b.canvas = canvas
      BY <2>3 DEF ListAnswered, Now
    <3> HIDE DEF b
    <3> QED BY <1>2, <3>1
  <2> QED BY <1>5, <2>1, <2>2, <2>3 DEF JobStep
<1>6. ASSUME SelectedAnswered PROVE FALSE
  <2> DEFINE b == [Now EXCEPT !.selected = poll.selected, !.list = @ \cup {poll.selected.run},
                              !.setRuns = TRUE, !.poll.selected = NoRun]
  <2>1. Show(b) /\ b.canvas = canvas
    BY <1>6 DEF SelectedAnswered, Now
  <2> HIDE DEF b
  <2> QED BY <1>2, <2>1
<1>7. ASSUME StrayAnswered PROVE FALSE
  <2>1. PICK rec \in stray : Show([Now EXCEPT !.selected = rec, !.list = @ \cup {rec.run},
                                              !.setRuns = TRUE, !.stray = @ \ {rec}])
    BY <1>7 DEF StrayAnswered
  <2> DEFINE b == [Now EXCEPT !.selected = rec, !.list = @ \cup {rec.run}, !.setRuns = TRUE, !.stray = @ \ {rec}]
  <2>2. Show(b) /\ b.canvas = canvas
    BY <2>1 DEF Now
  <2> HIDE DEF b
  <2> QED BY <1>2, <2>2
<1>8. ASSUME CanvasAnswered PROVE FALSE
  BY <1>8 DEF CanvasAnswered, CanvasInv, PollsFollow
<1>9. ASSUME NEW d \in Docs, EditDocument(d) \/ OpenWorkflow(d) PROVE FALSE
  <2> DEFINE edited == [Now EXCEPT !.doc = d]
             opened == [Now EXCEPT !.doc = d, !.canvas = NoRun, !.setRun = TRUE]
  <2>1. (Show(edited) \/ Show(opened)) /\ edited.canvas = canvas /\ opened.canvas = canvas
    BY <1>9 DEF EditDocument, OpenWorkflow, Now
  <2> HIDE DEF edited, opened
  <2> QED BY <1>2, <2>1
<1>10. ASSUME (\E r \in Runs : HostProgress(r)) \/ AskCanvas \/ AskSelected \/ SearchStep PROVE FALSE
  BY <1>1, <1>10 DEF HostProgress, AskCanvas, AskSelected, SearchStep, AskOnly, view
<1>11. ASSUME CanvasPollFails \/ SelectedPollFails \/ Reconnect \/ ShowDetails \/ UNCHANGED vars PROVE FALSE
  BY <1>1, <1>11 DEF CanvasPollFails, SelectedPollFails, Reconnect, ShowDetails, vars, view
<1>12. ASSUME SearchAnswered PROVE host[canvas'.run].doc = doc'
  <2> DEFINE quiet == [Now EXCEPT !.poll.search = NoRun]
             found == [Now EXCEPT !.canvas = poll.search, !.setRun = TRUE, !.poll.search = NoRun]
  <2>1. quiet.canvas = canvas /\ found.canvas = poll.search /\ found.doc = doc
    BY DEF Now
  <2>2. Show(quiet) \/ (runMatchesSource(poll.search, doc) /\ Show(found))
    BY <1>12 DEF SearchAnswered
  <2> HIDE DEF quiet, found
  <2>3. runMatchesSource(poll.search, doc) /\ Show(found)
    BY <1>2, <2>1, <2>2
  <2>4. canvas' = poll.search /\ doc' = doc
    BY <2>1, <2>3 DEF Show
  <2> QED BY <2>3, <2>4 DEF runMatchesSource
<1> QED BY <1>5, <1>6, <1>7, <1>8, <1>9, <1>10, <1>11, <1>12 DEF Next

\* The results on the canvas are those of the document that is shown
\* (use-canvas-run.ts: matches).
THEOREM ResultsMatchTheDocument == Spec => []ResultsAreOfTheDocument
<1>1. CanvasInv => ResultsAreOfTheDocument
  BY DEF CanvasInv, SourceOK, ResultsAreOfTheDocument, matches, runMatchesSource
<1> QED BY <1>1, CanvasInvHolds, PTL

\* The history search gives the canvas a run of the document shown at that moment
\* (use-canvas-run.ts: the effect that searches the history).
THEOREM HistoryMatchesTheDocument == Spec => HistoryIsOfTheDocument
<1>1. CanvasInv /\ [Next]_vars
        => [canvas = NoRun /\ canvas' # NoRun /\ source' = None /\ job' = job
              => host[canvas'.run].doc = doc']_vars
  BY FoundStep
<1> QED BY <1>1, CanvasInvHolds, PTL DEF Spec, HistoryIsOfTheDocument
=============================================================================
