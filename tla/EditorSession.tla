--------------------------- MODULE EditorSession ---------------------------
(***************************************************************************)
(* The document of one editor window (web/src/history.ts and the document  *)
(* handlers of web/src/App.tsx) beside the host that stores projects.      *)
(*                                                                         *)
(* The user edits, undoes and redoes at any time.  Saving, opening,        *)
(* importing, publishing, compiling and running are requests: the handler  *)
(* captures the document it was called with, and its answer is applied to  *)
(* whatever the window shows by then.  The host writes and reads the       *)
(* documents of a project one by one.                                      *)
(*                                                                         *)
(* A content stands for graph, inputs, sidecar and program without the     *)
(* viewport: it is what documentKey compares, so moving the view is no     *)
(* step of this module.                                                    *)
(***************************************************************************)
EXTENDS Naturals, Sequences, FiniteSets

CONSTANTS
    Revisions,     \* contents that edits produce
    Paths,         \* project paths
    Workflows,     \* identities of workflows, numbers
    Calls,         \* the requests that can be in flight
    MaxSent,       \* bound: requests made
    Ops,           \* the requests the user makes
    HistoryLimit,  \* HISTORY_LIMIT
    NoKey, NoPath, NoDoc

\* createGraph(), and a project whose documents are not of one save.
Blank == "blank"
Torn == "torn"
Whole == Revisions \cup {Blank}
Contents == Whole \cup {Torn}

AllOps == {"save", "publish", "load", "open", "edit", "run"}

ASSUME SessionAssumption ==
    /\ HistoryLimit \in Nat \ {0}
    /\ Workflows \subseteq Nat /\ MaxSent \in Nat
    \* There is always an identity that nothing has.
    /\ IsFiniteSet(Paths) /\ IsFiniteSet(Calls) /\ IsFiniteSet(Workflows)
    /\ Cardinality(Workflows) > Cardinality(Paths) + Cardinality(Calls) + 1
    /\ Ops \subseteq AllOps
    /\ {Blank, Torn} \cap Revisions = {}
    /\ NoKey \notin Contents /\ NoPath \notin Paths /\ NoDoc \notin Contents

VARIABLES
    past, present, future,  \* DocumentHistory
    savedKey,               \* the key of the content that counts as saved
    projectPath,            \* the path a plain save writes to
    recovery,               \* the recovery document in the browser's storage
    exclusive,              \* the ref exclusiveTask
    shareBusy,              \* a publication is under way
    call,                   \* the requests in flight
    sent,                   \* bound: how many were made
    disk,                   \* the host's project files
    workflow,               \* ghost: which workflow the window shows
    crossed                 \* ghost: requests have overlapped, or an answer was lost

history == <<past, present, future, savedKey>>
vars == <<past, present, future, savedKey, projectPath, recovery, exclusive, shareBusy,
          call, sent, disk, workflow, crossed>>

Idle == [op |-> "none", stage |-> "idle", path |-> NoPath, content |-> Blank, workflow |-> 0]
NoFile == [first |-> NoDoc, second |-> NoDoc, workflow |-> 0]

\* A file is written in two steps; read between them it belongs to no save.
FileContent(f) == IF f.first = f.second THEN f.first ELSE Torn

dirty == present # savedKey

Newest(s, n) == IF Len(s) <= n THEN s ELSE SubSeq(s, Len(s) - n + 1, Len(s))

(* ------------------------------ history.ts ----------------------------- *)

\* Mutant: the recovery document is written by edits and cleared by nothing.
RecoveryOnlyWritten == recovery' = IF present' # savedKey' THEN present' ELSE recovery

\* The effect that runs after every change of the document or of the mark.
RecoveryFollows == recovery' = IF present' # savedKey' THEN present' ELSE NoDoc

\* Mutant: an edit keeps what undo left ahead of it.
CommitKeepsFuture(c) ==
    /\ IF c = present
       THEN UNCHANGED <<past, present, future>>
       ELSE /\ past' = Newest(Append(past, present), HistoryLimit)
            /\ present' = c
            /\ UNCHANGED future
    /\ UNCHANGED savedKey
    /\ RecoveryFollows

\* commitHistory: an edit that changes nothing leaves the history alone.
Commit(c) ==
    /\ IF c = present
       THEN UNCHANGED <<past, present, future>>
       ELSE /\ past' = Newest(Append(past, present), HistoryLimit)
            /\ present' = c
            /\ future' = <<>>
    /\ UNCHANGED savedKey
    /\ RecoveryFollows

UndoHistory ==
    /\ past # <<>>
    /\ past' = SubSeq(past, 1, Len(past) - 1)
    /\ present' = past[Len(past)]
    /\ future' = <<present>> \o future
    /\ UNCHANGED savedKey
    /\ RecoveryFollows

RedoHistory ==
    /\ future # <<>>
    /\ past' = Newest(Append(past, present), HistoryLimit)
    /\ present' = Head(future)
    /\ future' = Tail(future)
    /\ UNCHANGED savedKey
    /\ RecoveryFollows

\* replace(): a new document without history.
Replace(c, saved) ==
    /\ past' = <<>> /\ present' = c /\ future' = <<>>
    /\ savedKey' = IF saved THEN c ELSE NoKey
    /\ RecoveryFollows

MarkSaved(c) ==
    /\ savedKey' = c
    /\ UNCHANGED <<past, present, future>>
    /\ RecoveryFollows

(* ----------------------------- the requests ---------------------------- *)

InFlight(ops) == \E k \in Calls : call[k].op \in ops
Writing == InFlight({"save", "publish", "orphan"})

\* An identity no window, file or request has.
Unused ==
    CHOOSE w \in Workflows :
      w \notin {workflow} \cup {disk[p].workflow : p \in Paths} \cup {call[k].workflow : k \in Calls}

\* The window shows another workflow while requests for the old one may be out.
Open(c, saved, path, w) ==
    /\ Replace(c, saved)
    /\ projectPath' = path
    /\ workflow' = w
    /\ crossed' = (crossed \/ Writing)

\* beginExclusive and endExclusive.
BeginExclusive == ~exclusive /\ exclusive' = TRUE
EndExclusive == exclusive' = FALSE

OneMore == sent < MaxSent /\ sent' = sent + 1

Send(k, op, path) ==
    /\ OneMore
    /\ call' = [call EXCEPT ![k] = [Idle EXCEPT !.op = op, !.stage = "sent", !.path = path]]

\* A save takes along the document that is on the screen.
SendDocument(k, op, path) ==
    /\ OneMore
    /\ call' = [call EXCEPT ![k] = [op |-> op, stage |-> "sent", path |-> path,
                                    content |-> present, workflow |-> workflow]]

\* saveProject: the shortcut, the palette and the button get here at any time;
\* the ref lets one exclusive task in.  The save dialog supplies any path.
SaveProject(k, path) ==
    /\ call[k] = Idle /\ "save" \in Ops
    /\ BeginExclusive
    /\ SendDocument(k, "save", path)
    /\ crossed' = (crossed \/ Writing \/ InFlight({"load"}))
    /\ UNCHANGED <<history, projectPath, recovery, shareBusy, disk, workflow>>

RunGraph(k) ==
    /\ call[k] = Idle /\ "run" \in Ops
    /\ BeginExclusive
    /\ Send(k, "run", NoPath)
    /\ UNCHANGED <<history, projectPath, recovery, shareBusy, disk, workflow, crossed>>

\* publishAppVersion saves what it was called with and then asks the host to
\* publish what it has at that path.
PublishAppVersion(k) ==
    /\ call[k] = Idle /\ "publish" \in Ops
    /\ projectPath # NoPath /\ ~shareBusy
    /\ shareBusy' = TRUE
    /\ SendDocument(k, "publish", projectPath)
    /\ crossed' = (crossed \/ Writing \/ InFlight({"load"}))
    /\ UNCHANGED <<history, projectPath, recovery, exclusive, disk, workflow>>

LoadProject(k, path) ==
    /\ call[k] = Idle /\ "load" \in Ops
    /\ disk[path] # NoFile
    /\ Send(k, "load", path)
    /\ crossed' = (crossed \/ Writing)
    /\ UNCHANGED <<history, projectPath, recovery, exclusive, shareBusy, disk, workflow>>

\* importProject, importComfy and the shared app of the address bar open what they
\* get; compileProgram, importDroppedFiles and applyBoardOutput edit with it.
Ask(k, op) ==
    /\ call[k] = Idle /\ op \in Ops \cap {"open", "edit"}
    /\ Send(k, op, NoPath)
    /\ UNCHANGED <<history, projectPath, recovery, exclusive, shareBusy, disk, workflow, crossed>>

(* ------------------------------- the host ------------------------------ *)

Advance(k, stage) == call' = [call EXCEPT ![k].stage = stage]
HostOnly == UNCHANGED <<history, projectPath, recovery, exclusive, shareBusy, workflow, crossed, sent>>

\* save_project and the account's save: the documents are written one after the
\* other.
HostWritesFirst(k) ==
    /\ call[k].op \in {"save", "publish", "orphan"} /\ call[k].stage = "sent"
    /\ disk' = [disk EXCEPT ![call[k].path].first = call[k].content,
                            ![call[k].path].workflow = call[k].workflow]
    /\ Advance(k, "half")
    /\ HostOnly

HostWritesSecond(k) ==
    /\ call[k].op \in {"save", "publish", "orphan"} /\ call[k].stage = "half"
    /\ disk' = [disk EXCEPT ![call[k].path].second = call[k].content]
    /\ Advance(k, "done")
    /\ HostOnly

\* A load takes the files as it finds them; the step stands for its last read.
HostReads(k) ==
    /\ call[k].op = "load" /\ call[k].stage = "sent"
    /\ call' = [call EXCEPT ![k].stage = "done",
                            ![k].content = FileContent(disk[call[k].path]),
                            ![k].workflow = disk[call[k].path].workflow]
    /\ HostOnly /\ UNCHANGED disk

HostPublishes(k) ==
    /\ call[k].op = "publish" /\ call[k].stage = "publishing"
    /\ call' = [call EXCEPT ![k].stage = "published",
                            ![k].content = FileContent(disk[call[k].path])]
    /\ HostOnly /\ UNCHANGED disk

(* ------------------------------ the answers ---------------------------- *)

Settle(k) == call' = [call EXCEPT ![k] = Idle]

\* Mutant: the host answers before it has written every document.
SaveAnsweredEarly(k) ==
    /\ call[k].op = "save" /\ call[k].stage \in {"half", "done"}
    /\ projectPath' = call[k].path
    /\ MarkSaved(call[k].content)
    /\ exclusive' = FALSE
    /\ Settle(k)
    /\ UNCHANGED <<shareBusy, disk, workflow, crossed, sent>>

SaveAnswered(k) ==
    /\ call[k].op = "save" /\ call[k].stage = "done"
    /\ projectPath' = call[k].path
    /\ MarkSaved(call[k].content)
    /\ EndExclusive
    /\ Settle(k)
    /\ UNCHANGED <<shareBusy, disk, workflow, crossed, sent>>

\* Mutant: the version is asked for while the save is still being written.
PublishBesideSave(k) ==
    /\ call[k].op = "publish" /\ call[k].stage \in {"sent", "half", "done"}
    /\ MarkSaved(call[k].content)
    /\ Advance(k, "publishing")
    /\ UNCHANGED <<projectPath, exclusive, shareBusy, disk, workflow, crossed, sent>>

PublishSaved(k) ==
    /\ call[k].op = "publish" /\ call[k].stage = "done"
    /\ MarkSaved(call[k].content)
    /\ Advance(k, "publishing")
    /\ UNCHANGED <<projectPath, exclusive, shareBusy, disk, workflow, crossed, sent>>

PublishAnswered(k) ==
    /\ call[k].op = "publish" /\ call[k].stage = "published"
    /\ shareBusy' = FALSE
    /\ Settle(k)
    /\ UNCHANGED <<history, projectPath, recovery, exclusive, disk, workflow, crossed, sent>>

LoadAnswered(k) ==
    /\ call[k].op = "load" /\ call[k].stage = "done"
    /\ Open(call[k].content, TRUE, call[k].path, call[k].workflow)
    /\ Settle(k)
    /\ UNCHANGED <<exclusive, shareBusy, disk, sent>>

\* What is imported counts as unsaved, a shared app as saved.
ImportProject(c) == Open(c, FALSE, NoPath, Unused)
ImportComfy(c) == Open(c, FALSE, NoPath, Unused)
OpenSharedApp(c) == Open(c, TRUE, NoPath, Unused)

ImportAnswered(k) ==
    /\ call[k].op = "open" /\ call[k].stage = "sent"
    /\ \E c \in Whole : ImportProject(c) \/ ImportComfy(c) \/ OpenSharedApp(c)
    /\ Settle(k)
    /\ UNCHANGED <<exclusive, shareBusy, disk, sent>>

\* The answer edits the document that is shown now, whichever it was asked for.
CompileProgram(c) == Commit(c)
ImportDroppedFiles(c) == Commit(c)
ApplyBoardOutput(c) == Commit(c)

EditAnswered(k) ==
    /\ call[k].op = "edit" /\ call[k].stage = "sent"
    /\ \E c \in Whole : CompileProgram(c) \/ ImportDroppedFiles(c) \/ ApplyBoardOutput(c)
    /\ Settle(k)
    /\ UNCHANGED <<projectPath, exclusive, shareBusy, disk, workflow, crossed, sent>>

RunAnswered(k) ==
    /\ call[k].op = "run"
    /\ EndExclusive
    /\ Settle(k)
    /\ UNCHANGED <<history, projectPath, recovery, shareBusy, disk, workflow, crossed, sent>>

\* A request is refused, or its answer gets lost: the handlers show the error and
\* leave the document alone.  What the host has written by then stays written.
RequestFails(k) ==
    /\ call[k].op \notin {"none", "orphan"}
    /\ exclusive' = (exclusive /\ call[k].op \notin {"save", "run"})
    /\ shareBusy' = (shareBusy /\ call[k].op # "publish")
    /\ Settle(k)
    /\ crossed' = (crossed \/ (call[k].op \in {"save", "publish"} /\ call[k].stage \in {"half", "done"}))
    /\ UNCHANGED <<history, projectPath, recovery, disk, workflow, sent>>

\* Nobody waits for the answer of a request made before a reload.
OrphanEnds(k) ==
    /\ call[k].op = "orphan" /\ call[k].stage = "done"
    /\ Settle(k)
    /\ UNCHANGED <<history, projectPath, recovery, exclusive, shareBusy, disk, workflow, crossed, sent>>

(* ---------------------------- user and window -------------------------- *)

DocumentOnly == UNCHANGED <<projectPath, exclusive, shareBusy, call, disk, workflow, crossed, sent>>

EditDocument(c) == Commit(c) /\ DocumentOnly
Undo == UndoHistory /\ DocumentOnly
Redo == RedoHistory /\ DocumentOnly

\* Mutant: a new workflow keeps the path of the one before.
NewWorkflowKeepsPath ==
    /\ Open(Blank, TRUE, projectPath, Unused)
    /\ UNCHANGED <<exclusive, shareBusy, call, disk, sent>>

NewWorkflow ==
    /\ Open(Blank, TRUE, NoPath, Unused)
    /\ UNCHANGED <<exclusive, shareBusy, call, disk, sent>>

ApplyTemplate(c) ==
    /\ Open(c, FALSE, NoPath, Unused)
    /\ UNCHANGED <<exclusive, shareBusy, call, disk, sent>>

\* loadRecoveredDocument: a recovered document does not count as saved.
Recovered == IF recovery = NoDoc THEN [content |-> Blank, key |-> Blank]
             ELSE [content |-> recovery, key |-> NoKey]

\* The window is reloaded, or the desktop settings replace the editor and are
\* left again: the recovery document is all that is kept.  Writes the host has
\* begun go on.
Reload ==
    /\ past' = <<>> /\ future' = <<>>
    /\ present' = Recovered.content
    /\ savedKey' = Recovered.key
    /\ RecoveryFollows
    /\ projectPath' = NoPath
    /\ workflow' = IF recovery = NoDoc THEN Unused ELSE workflow
    /\ exclusive' = FALSE /\ shareBusy' = FALSE
    /\ call' = [k \in Calls |->
                  IF call[k].op \in {"save", "publish", "orphan"} /\ call[k].stage \in {"sent", "half", "done"}
                  THEN [call[k] EXCEPT !.op = "orphan"]
                  ELSE Idle]
    /\ crossed' = (crossed \/ Writing)
    /\ UNCHANGED <<disk, sent>>

Init ==
    /\ past = <<>> /\ present = Blank /\ future = <<>> /\ savedKey = Blank
    /\ projectPath = NoPath /\ recovery = NoDoc
    /\ exclusive = FALSE /\ shareBusy = FALSE
    /\ call = [k \in Calls |-> Idle] /\ sent = 0
    /\ disk = [p \in Paths |-> NoFile]
    /\ workflow = 1 /\ crossed = FALSE

CallStep(k) ==
    \/ \E p \in Paths : SaveProject(k, p)
    \/ RunGraph(k)
    \/ PublishAppVersion(k)
    \/ \E p \in Paths : LoadProject(k, p)
    \/ \E op \in AllOps : Ask(k, op)
    \/ HostWritesFirst(k) \/ HostWritesSecond(k) \/ HostReads(k) \/ HostPublishes(k)
    \/ SaveAnswered(k) \/ PublishSaved(k) \/ PublishAnswered(k)
    \/ LoadAnswered(k) \/ ImportAnswered(k) \/ EditAnswered(k) \/ RunAnswered(k)
    \/ RequestFails(k) \/ OrphanEnds(k)

Next ==
    \/ \E k \in Calls : CallStep(k)
    \/ \E c \in Whole : EditDocument(c) \/ ApplyTemplate(c)
    \/ Undo \/ Redo \/ NewWorkflow \/ Reload

Spec == Init /\ [][Next]_vars

(* ------------------------------ properties ----------------------------- *)

Stages == {"idle", "sent", "half", "done", "publishing", "published"}

TypeOK ==
    /\ past \in Seq(Contents) /\ present \in Contents /\ future \in Seq(Contents)
    /\ savedKey \in Contents \cup {NoKey}
    /\ projectPath \in Paths \cup {NoPath}
    /\ recovery \in Contents \cup {NoDoc}
    /\ exclusive \in BOOLEAN /\ shareBusy \in BOOLEAN /\ crossed \in BOOLEAN
    /\ call \in [Calls -> [op : AllOps \cup {"none", "orphan"}, stage : Stages,
                           path : Paths \cup {NoPath}, content : Contents, workflow : Nat]]
    /\ disk \in [Paths -> [first : Contents \cup {NoDoc}, second : Contents \cup {NoDoc}, workflow : Nat]]
    /\ workflow \in Nat /\ sent \in 0..MaxSent

Line == INSTANCE EditHistory WITH line <- past \o <<present>> \o future, at <- Len(past) + 1

\* Undo and redo move along the line of contents and lose nothing of it: the
\* bounded past and the future of history.ts are one line with a place shown.
\* In particular redo's own cut at the limit never drops anything.
ImplementsHistory == Line!HistorySpec

\* "No changes" (App.tsx:1704) and the recovery document between them never lose
\* what is on the screen: unsaved contents are in the recovery document, and what
\* counts as saved is at the project path, as long as no write overlapped another
\* request or an opening, and no answer to a write was lost.
ShownIsKept ==
    /\ dirty => recovery = present
    /\ ~dirty => recovery = NoDoc
    /\ ~dirty /\ projectPath # NoPath /\ ~crossed /\ ~Writing
         => FileContent(disk[projectPath]) = present

\* A plain save writes to the file of the workflow that is shown, under the same
\* exceptions: the path always belongs to the document, although the two are set
\* by answers that come at any time.
PathIsOwn ==
    projectPath # NoPath /\ ~crossed => disk[projectPath].workflow = workflow

\* A published version is the document its author published, not a later one and
\* no mixture, under the same exceptions.
VersionIsWhatWasShown ==
    [][\A k \in Calls :
         call[k].stage = "publishing" /\ call'[k].stage = "published" /\ ~crossed
           => call'[k].content = call[k].content]_vars

\* No project is opened that was never saved as a whole, under the same exceptions.
OpenedWasSaved == ~crossed => present # Torn
=============================================================================
