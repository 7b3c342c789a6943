# TLA+ models of Mere Graph Studio

Mere Graph Studio is an editor for `mere.run` workflow graphs: a React editor
(`src/web`), a Tauri host in Rust that owns projects, settings, child processes
and model pulls (`src/src-tauri`), and a Cloudflare worker with one Durable Object
per account (`src/cloud`).  This directory holds specifications of its parts that
are hard to test, the configurations under which TLC checks them, and theorems
that TLAPS proves about them.  Line numbers refer to the sources under `src/`.

## Inventory

| Part | State it keeps | Operations | What is hard | What makes it correct | Module |
| --- | --- | --- | --- | --- | --- |
| Run host (`service_runs.rs`, `service_run_support.rs`) | run table, process table, one record file per run, execution threads | start, list, inspect, cancel, fetch, retry, resume; crash and restore | commands run concurrently on blocking threads; the tables have a lock each; command line calls happen unlocked; writes fail; the host crashes | nothing runs without a record; a launch is settled once; a cancelled run stays cancelled; the saved history only grows; watched runs end | `RunHost` |
| Desktop settings (`service_projects.rs` 54-90) | workspace, commands | configure | check, switch and reload are separate steps beside running threads | the table shows the runs of the workspace; records stay where they belong | `RunHostSettings` |
| Model pulls (`service_projects.rs` 425-637, `App.tsx` 1278-1363) | pull table, watchers, the sheet, fleet plans | preflight, confirm, poll, finish, fail | duplicate pulls, a thread that cannot start, a watch taken over by another | one pull per model; each end is reported; the sheet shows its own model | `ModelInstall` |
| Project store (`service_projects.rs` 112-349) | files of the workspace | save, load, import, export, assets | several files written one by one | an opened project is one that was saved | `EditorSession`, `Documents` |
| Cloud account (`cloud/account.ts`) | storage keys of one account | projects, publish, versions, share, revoke, delete | several keys changed across awaits; restarts | a version stands until it is revoked, and then is gone | `CloudStudio` |
| Cloud worker and sessions (`cloud/worker.ts`, `cloud/auth.ts`) | cookies, rotating tokens | sign-in, refresh, sign-out, routing | concurrent refresh, lost answers, checks that fail after a token was exchanged | a session ends for a reason only | `CloudStudio` |
| Cloud runtime (`cloud-runtime.ts`, `cloud-contract.ts`) | fleet cache, request retries | requests, submission, plans, jobs | 401 answered to parallel requests; create, upload and commit are separate; the cached fleet is old | no run is created twice or committed without its files; a job asks for what it needs | `CloudStudio`, `FleetJob` |
| Editor session (`App.tsx`, `history.ts`, `use-draft.ts`) | document, history, path, recovery copy, drafts | edit, undo, redo, save, open, new, publish, compile, run, reload | answers that come after the document changed | what is shown is saved or in the recovery copy; the path belongs to the document | `EditorSession`, `EditHistory`, `Drafts` |
| Run watches (`use-canvas-run.ts`, `canvas-execution.ts`, `App.tsx`) | canvas run, selected run, list, node states | start, inspect, cancel, stop, resume, retry, polls, history search | late, missing and reordered answers and events | results shown as current are those of the document; a node is shown as it is | `CanvasRuns`, `NodeProgress` |
| Graph edits (`graph.ts`, `document-edits.ts`, `presets.ts`, `program.ts`, the canvas, the inspector) | the document: graph, sidecar, program | add, connect, rename, delete, promote, inline, group, presets, layout, structured values, modules, steps | sequences of edits | no reference to what is gone, no cycle, the sidecar follows the graph | `GraphEdits`, `ArgumentWires`, `ArgumentValues`, `Programs` |
| App form and tiles (`app-mode.ts`, `AppView.tsx`, `App.tsx` 1239-1390) | field order and locks, variation tiles | hide, lock, move, rename; run variations, watch | mixed explicit and implicit order; watches started over | fields move by one; tiles settle | `AppForm`, `AppTiles` |
| Decoders, contracts, commands (`decode.ts`, `runtime.ts`, `commands.rs`, `contracts/`) | none | request, answer, decode, store | three descriptions of one document | what one side writes the other reads and keeps | `Documents`, `RuntimeCommands` |
| Setup, updater, scripts | none that outlives a call | | | | not modelled |

The editor calls the host through IPC commands; `commands.rs` 11-18 puts each on a
blocking thread, so any two overlap.  `start_run` and `resume_run` spawn an
execution thread that owns one child process.  The host reaches remote executors
through the same `mere.run` command line.  `watchRun` (`runtime.ts` 388-401) polls
`inspect_run`; the canvas, the Runs view and the tiles have a watch each.
`configure` replaces the run table that all commands share.  In the browser the
same editor runs over `CloudRuntime`, whose requests go through the worker to the
account's object or to the relay; both refresh the same cookies.

## Modules

Each module says at its head what it leaves out.  `PROJECT.json` names, for every
definition that models code, the lines it stands for.

| Module | Models | State and actions |
| --- | --- | --- |
| `RunHost` | `StudioService` in `service_runs.rs` | `runs` and `processes` are the two tables, `disk` the record files of each workspace, `worker` the threads of `execute_run` with their children, `call` the IPC commands in flight, `jobs` the remote jobs |
| `RunLedger` | the promise of the record files: a history that only grows and is a legal story | `ledger`, one action `Extend` |
| `RunHostSettings` | `RunHost` with `configure` | adds `settings` (where configure is, the table it read, what was in flight when settings were saved) and `poisoned` (the lock of the run table after a panic) |
| `EditorSession` | the document and its requests in `App.tsx` 851-1130, `history.ts`, the two-phase write of `save_project` | `past`, `present`, `future`, `savedKey` are the reducer's; `call[k]` is a handler between its awaits with the document it captured; `disk[p]` has what the first and the last file of a project hold, so that a failed or half done save is seen |
| `EditHistory` | the promise of undo and redo: one line of contents and a place on it | `line`, `at`; `Edit`, `StepBack`, `StepForth`, `Reopen` |
| `NodeProgress` | `canvas-execution.ts`, the reads of `run_public` and of the cloud runtime | `happened` is the truth, `onDisk` how much of it events and manifest tell, `answer` a poll being put together, `shown` what was merged |
| `EditorWindow` | a window is a session or a node: the two beside each other | |
| `CanvasRuns` | `use-canvas-run.ts` and the run handlers of `App.tsx` | `host` (the runs as the runtime has them), the three places a run is shown, `poll` and `stray` (questions out, also of aborted watches), `job` (the user's requests) |
| `GraphEdits` | `graph.ts`, `document-edits.ts`, `presets.ts` in the order of the handlers | `doc` is the document; every edit of the source is an operator from document to document, every handler an action |
| `ArgumentWires` | where a wire to a part of an argument goes: values, paths and handles of `graph.ts` 561-612 | `argument`, a tree; `aim`, the place of the last wire; names are sequences of characters because handles escape them |
| `ArgumentValues` | one structured argument, on top of `ArgumentWires`: `Inspector.tsx` part editors, nested ports of `WorkflowNode.tsx`, the schema at a path | `schema`; `DropWire`, `RemoveWire`, `ArgumentValueEditor` |
| `Identifiers` | `uniqueId` of `graph.ts` | the names given to nodes, inputs, groups, modules and steps; `Numbers` are the numbers as they are written |
| `Programs` | `program.ts`, `ProgramView.tsx` | `program`, and the graph `drawn` that changes under it |
| `FleetJob` | `cloud-contract.ts`, `prepareSubmission` | `fleet` (what the relay would answer), `capabilities` (the cache), `task` (between the awaits), `submission` |
| `AppForm` | `app-mode.ts`, the layout editor of `AppView.tsx` | `inputs` in graph order, `app` (hidden, locked, order) |
| `RuntimeCommands` | every command of `commands.rs`, as the client sends it and as the host takes it | constant tables |
| `Documents` | decoders, host answers and contracts as tables from field to the types it may have; where a contract leaves a part open, its table has every type and a field `other` | a document is asked for, written, read or refused, and stored |
| `DocumentPanels` | the six parts above beside each other | |
| `ModelInstall` | the sheet, its watchers, pull threads, fleet plans | `sheet`, `watch[c]` (one per press of Install), `record` and `threads` of the host, `plan` and `modelPlans` of the cloud |
| `AppTiles` | `runVariations`, the tile watches | `tiles`, `watchers`, `late` answers |
| `WatchPanels` | the two beside each other | |
| `CloudStudio` | `cloud-runtime.ts`, `auth.ts`, `worker.ts`, `account.ts` together | `jar` (cookies), `call[c]` (a chain of requests, each refreshed and repeated once), `docs`, `shares`, `index` (storage), external `broker`, `jobs`, `fleet` |
| `Drafts` | `use-draft.ts` with its two kinds of field | `line`, `at` (the values undo moves on), `draft`, `focus` |
| `MC...` | instances for TLC: symmetry, names, schemas, drawings, fleets | |
| `RunHostProofs`, `RunHostSettingsProofs` | theorems about `RunHost`: its types and records; its histories, process table and the refinement of `RunLedger`; about `RunHostSettings` | |
| `EditorSessionProofs`, `CanvasRunsProofs`, `ModelInstallProofs`, `CloudStudioProofs` | theorems about the module of that name, the first also about `NodeProgress` | |
| `DocumentProofs` | theorems about `GraphEdits`, `Programs` and `FleetJob`, and about the names of `Identifiers` | |
| `PanelProofs` | theorems about `AppForm`, `Documents` and `ArgumentWires` | |

**Components beside each other.**  `EditorWindow`, `WatchPanels` and
`DocumentPanels` put parts side by side that share no state.  A behaviour
exercises one of them and leaves the others in a fixed state; the product of
their states would show nothing more.  `RunHostSettings` by contrast composes
parts that do interact, and so does `CloudStudio`, which has browser, worker,
object, broker and relay in one next-state relation.

**Grain.**  A step is what a thread does between two points where another can
get in.  In the host that is one critical section of a mutex, or one command line
call: `update_run` holds the table's lock while it writes the file, so table and
file change in one step (`UpdateRun`); `start_run` writes the file without the
lock and enters the run later, two steps; `cancel_run` keeps the process table
locked until its `if let` block ends, so there is no registration while a command
is at `cancel_kill`; the polling thread sleeps with the child's lock in hand (the
guard is a temporary of the `match`), so `CancelKill` waits for a thread that is
not at `sleep`.  In the editor and the worker a step is what runs between two
awaits, with the React effects that follow it in the same batch; a handler keeps
the values it captured, refs are read when used.  In the Durable Object the
storage calls of one request that are not separated by an outside await are one
step; the two writes of a save are two, because a restart may fall between them.

**Data.**  A run record keeps what later steps read: executor, workspace, state,
whether an exit code is known, remote reference, the kinds of its history
entries.  A document is an identity in `EditorSession`, `CanvasRuns` and
`CloudStudio`, since these never look inside; `GraphEdits` has one argument per
node, absent, plain or a list; names are sequences of their parts between
hyphens, because renames and unique names work on those.  In `Documents` a JSON
value is its class, and a nested document is a table of its own: a program has
tables for its inputs and for the nodes of its modules, apart from those of a graph,
because its contract leaves them open (`workflow-program.v1.schema.json` 12, 71-83).
Time stamps, labels, wording and paths are left out.

**Ghosts.**  Some handlers do break what the rest of the code keeps, in cases
that can be named: two requests that cross each other (`crossed`), the answer of
a write that is lost (`crossed`), a refresh token that was exchanged and whose
successor reached nobody (`lost`), a rename of an input that others'
names begin with (`clipped`), an inlined material that an ordering or a group
still names (`orphaned`), a reference chosen in the inspector against the order
(`looped`), a step deleted under a program output (`removed`), a pull thread that
cannot be started (`spawnFailed`), two plans of one model side by side
(`replanned`), refreshes that overlap (`overlapped`), a save interrupted between
its writes (`torn`), an event of the dialog that overlaps another (`mixed`), a
tile watch that failed (`silent`), settings saved while a command, or a start, is
in flight (`settings.overlapped`, `settings.starting`).  A ghost variable records that the case has
happened; the properties speak of all other behaviours.  No action reads a ghost.
The list at the end says what goes wrong in each; the notes of the hazards in
`PROJECT.json` say which exception leaves which hazard open.

**Simplifications.**  Identifiers are fresh (`Uuid`).  Legacy records
(`studio-run.json`) are restored like the others.  `restore_runs` reads the files
of a workspace in one step.  A poisoned run table blocks the threads and commands
that use it instead of ending them one by one.  Commands are issued under the
conditions of the buttons (`RunsView.tsx` 115-123), for the state of the record
when the button was shown; the handler may start any time later.  A page that is
left forgets its requests, while what they started at the server goes on; of a
refresh that is at the server at that moment the model has the exchange before, or
never.  A broker that refuses, does not answer or answers what is not understood, and
a check of the user that fails for any cause, are one outcome: the handlers
answer 401 or an error to each, and the page treats both alike (`cloud-runtime.ts` 374-376).

## What is checked

| Run | Question | Result |
| --- | --- | --- |
| `local_runs` | start, cancel and resume with a crash and a fault: `TypeOK`, `LaunchIsRecorded`, `TableCoversDisk`, `LaunchesAreSettledOnce`, `ProcessTableIsExact`, `CancelledLeftOnRecord`, and `RunLedger` is implemented | holds |
| `remote_runs` | a remote run under all commands: `RunLedger` is implemented, `ReferenceIsKept` | holds |
| `runs_settle` | `WatchedRunsSettle`: a watched run becomes terminal and stays so | holds |
| `settings_overlap` | settings saved under threads, commands, a fault and a crash: `QuietTableMatchesDisk`, `HomeRecordsGrow` | holds |
| `editor_window` | `ShownIsKept`, `PathIsOwn`, `OpenedWasSaved`, `VersionIsWhatWasShown`: the document, its path, its recovery copy and its files while requests cross; `EditHistory` is implemented; `NodesShownAreTrue` | holds |
| `canvas_runs` | `ResultsAreOfTheDocument`, `HistoryIsOfTheDocument`; and no deadlock | holds |
| `document_panels` | `ReferencesResolve`, `NoCycle`, `SidecarFollowsGraph`, `InlineUndoesPromote`, `PresetsAreSelfContained`, `LayoutFollowsDependencies`, `WiresKeepToTheirPlace`, `ProgramsAreWhole`, `JobsAskForWhatTheyRun`, `FieldsMoveByOne`, `DocumentsSurvive` | holds |
| `watch_panels` | `OnePullPerModel`, `SheetFollowsItsModel`, `InstalledIsOffered`, `EndIsReported`, `TilesSettle` | holds |
| `cloud_studio` | `SessionIsKept`, `CommittedRunsAreWhole`, `VersionsStand`, `DialogShowsVersions` | holds |
| `two_children` | `OneChildPerRun` | violated |
| `graph_rename_input` | `InputReferencesResolve` | violated |
| `json_draft` | `UndoIsNotOverwritten` | violated |

The violated properties state what a message, a comment or a test of the
repository says; `PROJECT.json` quotes it under "findings":

- *two children*: `resume_run` refuses an active run by the process table, which
  shows a run only once its child is registered.  Start, cancel and resume before
  that give one run two threads and two children in one directory.
- *rename of an input*: the rename replaces a prefix, so references to `input-2`
  become references to nothing when `input` is renamed.
- *draft after undo*: a JSON field whose commit is undone takes its old draft for
  current again and commits it on the next blur.

**Bounds, and why they are enough.**

- Run host: one run, since every step but `configure` reads and writes the entry
  of its own run only; two execution threads, so that a run is resumed while its
  first thread lives; two commands, so that any two overlap; two remote jobs, so
  that a retry replaces one.  `MaxCalls` (3 or 4) fits start, cancel, resume,
  cancel; inspections are free.  `MaxFaults` and `MaxCrashes` are 1: a fault after
  a fault meets the same code.  `MaxSettings` is 2, there and back, with
  `MaxCalls` 2; settings are saved whatever the two commands are doing.
  `runs_settle` adds the job state queued.
- Editor: one revision beside the blank document, one path, two requests in
  flight and three in all (`MaxSent`), and a `HistoryLimit` of 1, so that the limit
  is met at once and a redo meets it too; a save may be followed by a publication
  that crosses a third request.  `MaxHappened` 4 lets a node fail and be resumed; an
  `EventWindow` of 2 is shorter than that, so events fall out of it; one fetch may
  fail.
- Canvas: two runs and two documents, so that a run is of another document; two
  requests of the user beside the two watches and the search; four changes of the
  runs at the host, of which the creation of each run is one.
- Panels: three edits of a graph with at most four nodes and two inputs, from
  twelve first graphs, with as many numbers for names as four nodes and the four of
  a preset can take; four changes of an argument for four schemas with names
  that contain the escaped characters; four changes of a program over five
  drawings; four fleets, one change while the job is built; five arrangements of
  three fields; documents with every field complete, every one left out, and every
  single field changed.
- Install and tiles: two models and two confirmations, so that one takes over the
  other and one sheet hides another; two sheets; one fault; two tiles.
- Cloud: two calls in flight, two paths, two tokens, one asset, two asks, three
  refresh tokens (so that a token is rotated twice), one more sign-in, two events
  from outside (expiry, withdrawal, a failure of the broker or of a check, lost answer,
  restart, page load).

Deadlock is checked in `canvas_runs`.  Elsewhere the system stops when the bounds
are used up, as an idle program does.  Symmetry is used for identities only, and
not where liveness is checked.

**Fairness.**  `RunHost`: `ThreadsRun`, the operating system schedules each thread,
weakly fair, no mutex is fair; `OutsideEnds`, children exit, jobs end, and an
inspection made again and again is answered at last; `RunsAreWatched`, `watchRun`
inspects until the record is terminal.  `ModelInstall`: each watcher's next step
(an answer, a failure, a timer), the end of each plan and of each pull.
`AppTiles`: each poll is answered and the next is made; an aborted watch's answer
comes too.  Nothing is assumed of the user.  The settling run assumes no fault: a
failed update of a dead thread leaves its state for good.

## What is proved

Eight modules hold theorems, each about the specification of one component, for
every value of the constants that meets the assumptions the component names; TLC
evaluates those on every run.  Each theorem but the one about wires, which needs
none, rests on one inductive invariant; TLC checked every one of these on the
instances above before it was proved (the numbers of `Ranked` within the number of
nodes).

- **Types and records of the run host** (`RunHostProofs`).  `TypeOK` is not
  inductive: that the last update writes an exit status depends on the thread
  being at `join` only after its child exited, and that a start writes a record on
  the command carrying one.  `TypeInv` adds these facts per thread and command.
  `DiskInv`, for `LaunchIsRecorded` and `TableCoversDisk`, adds that a run that is
  being started is known to no other thread or command (`StartsApart`), so that
  what `start_run` wrote is still there when it enters the run in the table.  Every
  step but a start and a crash does three things (`TablesGrow`, `CallsGoOn`,
  `WorkersGoOn`) that together keep it (`GoingOnKeepsDiskInv`).
- **Histories of the run host** (`RunHostProofs`): `LaunchesAreSettledOnce`,
  `ProcessTableIsExact`, `CancelledLeftOnRecord`, `ReferenceIsKept` and the
  refinement of `RunLedger`.  A history is legal because of a count: whoever may
  still write an entry is counted with the entries that are there (`Story`).  The
  counts of a tracked history and of a saved one differ when a write has failed, so
  both are kept (`TableStories`, `DiskStories`, `CleanDisk`), and a command that
  waits relies on what the history already told (`CallStories`).  The lemmas per
  kind of entry (`LegalAppend` and those after it) know nothing of the host.
- **Settings** (`RunHostSettingsProofs`): `QuietTableMatchesDisk` and
  `HomeRecordsGrow`, about `SettingsSpec`, where `TableCoversDisk` does not hold.
  What takes its place: a record has one home (`OneHome`), the table is never
  behind it there even while it is another workspace's table (`HomeCovered`), and
  from the clearing of the table to its replacement nothing is written (`Window`).
  A start under way when settings are saved breaks each of these; proving it is
  how that exception was found (see "Also seen").
- **Editor session** (`EditorSessionProofs`), about `Spec` of `EditorSession`, of
  which `EditorWindow` runs an instance: `ShownIsKept`, `PathIsOwn`,
  `OpenedWasSaved`, `VersionIsWhatWasShown`.  As long as nothing has crossed
  (`Calm`), one write is under way at most and it is of the workflow that is shown,
  a file is torn only under that write, and what a request carries agrees with the
  files (`Agrees`).  `EditHistory` is implemented because undo and redo together
  never exceed the limit (`Bounded`).
- **A node on the canvas** (`EditorSessionProofs`), about `ProgressSpec`:
  `NodesShownAreTrue`.  A manifest that was read tells the state of a time the disk
  knows, with the completion of that time (`ManifestTells`); a stop cuts off only what
  the disk does not know (`DiskGoesOn`), so it still does.  `nodeExecution` is a
  function over the events: by induction over their number the state is the
  manifest's as long as no event counts, and else that of the newest event
  (`StateTells`).
- **Canvas runs** (`CanvasRunsProofs`): `ResultsAreOfTheDocument` and
  `HistoryIsOfTheDocument`.  Answers are applied whenever they come; what keeps
  them in place is that each rendering ends the watch of another run and a search
  for another canvas (`PollsFollow`), and that a start carries its document (`JobOK`).
- **Model install** (`ModelInstallProofs`): `OnePullPerModel`,
  `SheetFollowsItsModel`, `InstalledIsOffered`.  A watcher that works is the one on
  the list (`Listed`), the sheet has a working watcher of its model (`Followed`),
  nothing says "installed" before it is so (`Truthful`), and refreshes that do not
  overlap carry what was announced (`Offers`).
- **Hosted studio** (`CloudStudioProofs`): `CommittedRunsAreWhole`,
  `VersionsStand`, `SessionIsKept`, `DialogShowsVersions`.  Each is held together by
  what a call in flight carries: the assets still to be sent (`RunsWhole`), the gate
  of a save whose second write is to come (`DocsWhole`), a refresh token that is
  good or spent (`RefreshTells`, `OneGrant`), an answer that completes what the
  dialog shows (`DialogInv`).  `SessionIsKept` holds with a broker and checks that fail
  at any time, also between the exchange and the cookie: the loss is then on record
  (`lost`), each denial has its reason, and with a broker that keeps its tokens there
  is neither a loss nor a race.

- **Graph edits** (`DocumentProofs`), about `Spec` of `GraphEdits`: all six safety
  properties of the editor's graph.  Four follow from `GraphInv`: the parts of the
  document agree (`DocOK`), input references and orderings resolve unless a ghost
  says otherwise (`InputRefsOK`, `OrderOK`), and the preset that was saved is
  self-contained (`IsPreset`).  `DocOK` says more than the properties: names are
  sequences of words, so that `uniqueId` finds a free one (`UniqueIdIsFree`); a
  promotion is told of a node of values and a task; every field of the document has
  its shape.  Each edit is an operator from document to document, so each has one
  lemma (`...Kept`: what was so in the document is so in the edited one), and
  handlers that do several edits chain them (`KeptOn`).  `InlineUndoesPromote` and
  `PresetsAreSelfContained` speak of two edits on the document at hand, and are
  shown of every document that is `DocOK`.
- **The order of the nodes** (`DocumentProofs`): `NoCycle` and
  `LayoutFollowsDependencies`.  That a node is not its own ancestor is not inductive
  in a useful way; that the nodes can be numbered so that each waits for smaller
  numbers only (`Ranked`, in `GraphOrderInv`) is.  A new wire lifts the target and all
  that is downstream of it above the source, which the canvas has checked not to
  be there; a promotion doubles the numbers, to put the new node between; an
  inserted preset brings its own; a deletion only takes dependencies away
  (`Fewer`).  No node has the empty name, so an emptied reference is to none.  For the
  layout, after as many layers as there are nodes every node is in one, because as
  long as one is missing the smallest such can be placed.
- **Programs** (`DocumentProofs`): `ProgramsAreWhole`.  A new module or step gets a
  name nothing has (`UniqueIdIsFree`: there are more numbers than names taken, by
  the pigeonhole principle), so the modules that steps call stand as they did
  (`StepsCall`, `ModulesStand`), and a drawing that resolves gives modules that do.
- **Jobs in the cloud** (`DocumentProofs`): `JobsAskForWhatTheyRun`.  The invariant
  says only that a submitted job was built from one fleet; the rest is about the
  operators.  Filling in defaults changes no argument that is there, the highest
  version is at least every other because versions are ordered totally, and the
  count of the providers suffices because a worker has one version of each.
- **The form of an app** (`PanelProofs`): `FieldsMoveByOne`.  The fields are sorted,
  and the model says of the sorted sequence only that it is in order.  So it is shown
  of every strict order (`Order` is one, because each input has a place of its own)
  that a finite set can be put in that order (`CanBeOrdered`) and in one way only
  (`OneOrder`).  A move numbers the fields anew, after which the sequence with the
  two neighbours exchanged is in order (`MoveSwaps`), and therefore is what the sort
  gives, whatever numbers hidden, renamed or removed fields have left behind.
- **Documents** (`PanelProofs`): `DocumentsSurvive`.  TLC varies one field of a
  document at a time; the proof takes any combination.  It goes through the tables
  once: each writer has something for every field and its decoder takes all of that
  (`Reads`), the decoder knows each field that is written (`Keeps`), and every
  command is sent and read as the host has it (`Agree`), but for the refusals, losses
  and the one misnamed command that are listed.  Where the contract of a program
  leaves a part open, a document is refused only for a field that is not of the type the
  Studio declares for it (`Declared`, from `types.ts`), and what it has beside the
  declared fields is lost (`OpenIsRead`, `OpenAreRead`, `Refused`).
- **Wires to a part of an argument** (`PanelProofs`): `WiresKeepToTheirPlace`, about
  `WiresSpec`, for any value, any path, any names of any characters.  `DropWire` and
  `RemoveWire` do to the argument what `Wire` does and `ArgumentValueEditor` what
  `EditArgument` does, which is all that `WiresSpec` says (TLC finds it implemented).  Escaping and splitting
  are recursive functions over names: that such a recursion has exactly one answer
  follows by induction on the length (`RecursionEnds`, `RecursionIsUnique`).  Undoing
  the escapes in the opposite order gives the name back (`EscapedComesBack`), an
  escaped name has no `/`, so the handle falls apart where it was put together, and a
  port is found again at its handle (`AtHandleIs`).  What is set at a path is there,
  a place apart from it leaves the path at a first segment that differs
  (`SetKeepsToItsPlace`), and behind what is missing there is nothing
  (`NothingBehind`).

*Assumptions.*  Threads and commands are finitely many, since the histories count
them; sentinels are none of the values they stand beside; the bounds are numbers;
and the editor has more workflow identities than files and requests, so that a
document that begins gets one of its own (`crypto.randomUUID`).  The numbers a name can end in are at
least as many as steps and edits, as inputs, and as twice the nodes, since the source
counts without end; an opened document has two nodes, so `MaxNodes` is no less; a drawing
and a workflow are what the editor makes, without references to nothing; a fleet
reports finitely many providers, and a worker runs one version of each; an unset order is
no number; names are made of characters among which are the four that handles use.
`MaxDepth`, how deep the properties look into an argument, is 6 in the run, where no value
is as deep as that.  The bounds are
constants like the others: the theorems hold however large they are.

*Only model-checked.*  Liveness (`WatchedRunsSettle`, `EndIsReported`,
`TilesSettle`) is beyond the prover.  So is what a `RECURSIVE` operator computes
for every input: of `ArgumentValues`, the ports of a schema, its defaults and what the
editors can make of a value; `WiresKeepToTheirPlace` does not depend on them.  A
recursive function is within reach, by induction stated of a set (`AllNumbers`,
`EveryNumber`).  Every safety property of a passing run is proved.

## Plan

The modules of the plan are written, and their safety is proved.  What could follow:
the local verification of an installation, which is not modelled, and the hazards of
`PROJECT.json` that no property covers: each is behaviour the code has, and a property
would ask for a change of the code first.

## Also seen

Behaviour met while modelling that the repository promises nothing about, or that
a property names as its exception.

*Run host.*  A job seen as `planned` or `preflighting` is never refreshed
(`service_runs.rs` 78), so `WatchedRunsSettle` is checked for jobs that report the
other states.  A cancellation may wait as long as the child lives, because the
polling thread sleeps with the lock in hand (392, 127).  A run cancelled before
its thread begins is put back to running (357).  A resume decides on a copy of the
record and may resume a run that has a remote reference by then (264); with a
stale inspection it stays running.  `inspect_run` panics when settings emptied the
table meanwhile (95).  A thread whose run has left the table updates it a second time,
in vain, before it ends (316-330).  Settings can be switched under a run that has started and
is not registered yet (`service_projects.rs` 55).  A run that a start enters while the
records are read back is put back to the record of its start when the restored
table takes the place of the other (523), and its next update saves the shorter
history.

*Editor.*  A load discards what was edited while it was under way (`App.tsx` 943);
a compiled program is applied to whatever is open by then (1181).  A save whose
answer comes after another document was opened gives that document its path.
The Runs view can stay behind the canvas (549-550).  A resume or an inspection may
leave a running canvas run with a failed watch and no reconnection.  Unapplied
text of a JSON tab reappears on undo.  Selections are stale after undo, redo and
an opened app, and saving a selection stores identifiers that are gone.

*Canvas.*  A cancellation's answer is terminal and ends the watch, so the last
events are not fetched; a final cloud answer whose two fetches failed shows "Not
run"; an event with the time of a completion is dropped.

*Graph.*  Inlining a material leaves it in orderings, groups and selections
(`graph.ts` 481).  References chosen in the inspector are not checked for cycles
(`Inspector.tsx` 116).  Positions of presets lose what they add to coordinates,
and one unreadable preset empties the library (`presets.ts` 129).  Removing an
output leaves its position.  A port is offered for a part of a record that does not
exist yet; dropping a wire there throws (`GraphCanvas.tsx` 609-629).  A whole-object
wire on a field with further properties shows a port `$ref`.  Deleting a step of a
program leaves outputs that name it (`ProgramView.tsx` 104).  Renaming an input does
not carry its app settings along, and a new input of that name inherits them.

*Host answers.*  `probeExecutor` sends `text` (`runtime.ts` 328) where the host takes
`value` (`commands.rs` 75), so each desktop probe is refused, and `App.tsx` 540-547
drops the error.  A failing command line that answers without nodes or templates
makes the whole environment unavailable (503-530).  The contract of a program allows
any object as its inputs and as the execution of a node, and the decoders read both
as those of a graph: a project is refused when an input has no field type or is no
object (`decode.ts` 284-285, 373) or a node an unknown `cache` (304-307), and other
keys of an execution or an input are lost with the next save (315-319, 284-294).  A
program without modules cannot be opened, nor a preset that lacks the position of
one of its nodes (`presets.ts` 116); `content_types` of an input are lost with the next save; a run
whose output has no kind cannot be read.  Models found by a probe are dropped by
the next refresh (496-497).

*Variations.*  When one start is refused the others run without a tile (1244); tiles
of runs seen as planned are not watched (1366).

*Cloud.*  `/auth/refresh` exchanges the token before it checks the new one and the
admission of its user (`auth.ts` 197-204): when a check fails, also because of the
network, the successor is dropped, and with a broker that rotates the user has to
sign in again.  So does a broker that cannot be reached, although the refresh token
is still good (`cloud-runtime.ts` 374-376).  Two requests refused at the same time
refresh with the same token, and the later one signs the user out.
`/auth/session` is not refreshed on load (2105), so a page whose access token has
expired shows the sign-in.  The share dialog shows the
former project's versions while it loads (984-990).  Uploads are not refreshed
after a 401 (`cloud-runtime.ts` 526).  No client sends `DELETE /project`.  A cloud
install announces that applying accepts the model's terms (646), and sends
`accept_model_licenses` false (671).  The
cached fleet keeps old secrets and providers.  Required providers are counted
(`cloud-contract.ts` 159-164), so one that the fleet reports in two versions makes up
for one that is missing, and no worker can take that job.  An asset that is the default of an
input or argument slips past the check for local files, and a model that comes
from a reference is not asked for (`cloud-contract.ts` 118-126, 200-251).

## Not modelled

Rendering, wording and layout of the user interface; limits on the length and
range of decoded values; what a preset is refused for inside its nodes
(`validateSelection`: credentials, references to what is not in it); setup and verification of installed tools
(`service_setup.rs`: one sequential check, no state); the native updater; bytes and
fingerprints of artifacts and assets (`artifactBlob`, hashing); file pickers, drag
and drop of files; the list of projects; build scripts, the screenshot harness and
fixtures.  The command line `mere.run`, the broker and the relay are external and
appear as what the code assumes of them.
