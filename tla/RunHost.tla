------------------------------ MODULE RunHost ------------------------------
(***************************************************************************)
(* The run host of the desktop application: the part of StudioService      *)
(* (src-tauri/src/service_runs.rs) that starts, watches, cancels, fetches, *)
(* retries and resumes workflow runs.                                      *)
(*                                                                         *)
(* IPC commands run concurrently on blocking threads (Callers); every      *)
(* start and every resume also spawns an execution thread (Workers) that   *)
(* owns one `mere.run` child process.  They share the run table `runs`,    *)
(* the process table `processes` and one record file per run.  A step of   *)
(* this module is what a thread does between two points where another      *)
(* thread can get in: a critical section of a mutex, or a command line     *)
(* call that takes arbitrarily long.                                       *)
(*                                                                         *)
(* The workspace never changes here; RunHostSettings adds the command that *)
(* changes it.                                                             *)
(***************************************************************************)
EXTENDS Naturals, Sequences, FiniteSets

CONSTANTS
    Runs,        \* run identifiers
    Workers,     \* execution threads that can exist at once
    Callers,     \* IPC commands that can be in flight at once
    Refs,        \* references of remote jobs
    Workspaces,  \* workspace directories
    Executors,   \* the executors a start may ask for
    Ops,         \* the commands the user issues
    JobStates,   \* the states a remote job reports
    MaxCalls,    \* bound on the commands issued, inspections excepted
    MaxFaults,   \* bound on failed writes, spawns and waits
    MaxCrashes,  \* bound on crashes of the host
    NoRecord, NoRun, NoWorker, NoRef

Terminal == {"finished", "failed", "cancelled"}

\* The states find_run_state accepts from a remote inspection.
RemoteStates == Terminal \cup {"planned", "preflighting", "queued", "assigned", "running"}

\* Mutant: a queued job is not asked about.
RefreshableForgotten == {"assigned", "running", "submitting"}

\* The states in which inspect_run asks the remote executor again.
Refreshable == {"queued", "assigned", "running", "submitting"}

RunStates == RemoteStates \cup {"starting", "submitting"}

Kinds == {"created", "execution_started", "execution_finished", "execution_failed",
          "cancelled", "resumed", "retried", "fetch_started", "fetch_finished", "fetch_failed"}

AllOps == {"start", "inspect", "cancel", "fetch", "retry", "resume"}

ASSUME ConstantsAssumption ==
    /\ Executors \subseteq {"local", "remote"}
    /\ Ops \subseteq AllOps
    /\ JobStates \subseteq RemoteStates
    /\ JobStates \ Terminal # {}
    /\ MaxCalls \in Nat /\ MaxFaults \in Nat /\ MaxCrashes \in Nat
    /\ IsFiniteSet(Workers) /\ IsFiniteSet(Callers)

\* StudioRun, less the texts no step reads back.
Record == [executor : {"local", "remote"}, home : Workspaces, state : RunStates,
           exit : {"none", "ok", "failed"}, ref : Refs \cup {NoRef}, history : Seq(Kinds)]

ASSUME SentinelsAssumption ==
    /\ NoRun \notin Runs
    /\ NoWorker \notin Workers
    /\ NoRef \notin Refs
    /\ NoRecord \notin Record

VARIABLES
    workspace,   \* config.workspace
    runs,        \* the run table in memory
    disk,        \* run-records/<id>.json of every workspace
    processes,   \* the process table: the worker whose child is registered
    worker,      \* execute_run threads and their children
    call,        \* the commands in flight
    jobs,        \* remote jobs
    used         \* how much of the bounds is spent

vars == <<workspace, runs, disk, processes, worker, call, jobs, used>>

WorkerPc == {"idle", "begin", "spawn", "register", "poll", "sleep", "unregister",
             "join", "failing", "gone"}

CallPc == {"idle", "start", "start_insert", "inspect", "inspect_cli", "inspect_apply",
           "cancel", "cancel_kill", "cancel_remote", "cancel_cli", "cancel_mark",
           "fetch", "fetch_cli", "retry", "retry_cli", "retry_apply",
           "resume", "resume_check", "resume_launch"}

IdleWorker == [pc |-> "idle", run |-> NoRun, child |-> "none", out |-> NoRef]
IdleCall == [pc |-> "idle", run |-> NoRun, ref |-> NoRef, seen |-> "none", record |-> NoRecord]

Tracked(r) == runs[r] # NoRecord

-----------------------------------------------------------------------------
(* Shared steps. *)

Fault == /\ used.faults < MaxFaults
         /\ used' = [used EXCEPT !.faults = @ + 1]

\* persist_run: the record file is replaced atomically, or the write fails and
\* the previous file stays.
Persist(saved, r, record) ==
    \/ saved /\ disk' = [disk EXCEPT ![workspace][r] = record] /\ UNCHANGED used
    \/ ~saved /\ Fault /\ UNCHANGED disk

\* Mutant: the record is saved but the table is left behind.
UpdateRunBehind(saved, r, record) ==
    /\ UNCHANGED runs
    /\ Persist(saved, r, record)

\* update_run: the table and the file change under one lock; a failed write is
\* reported after the table has changed.
UpdateRun(saved, r, record) ==
    /\ runs' = [runs EXCEPT ![r] = record]
    /\ Persist(saved, r, record)

\* Mutants: a history that is replaced, and one that leaves resumes out.
NotingReplaced(kind, record) == [record EXCEPT !.history = <<kind>>]
NotingLaunchesOnly(kind, record) ==
    [record EXCEPT !.history = IF kind = "resumed" THEN @ ELSE Append(@, kind)]

Noting(kind, record) == [record EXCEPT !.history = Append(@, kind)]

\* A spawned execution thread has not run its first statement yet.
Launch(w, r) == worker' = [worker EXCEPT ![w] = [IdleWorker EXCEPT !.pc = "begin", !.run = r]]

WorkerAt(w, pc) == worker[w].pc = pc
WorkerGoes(w, pc) == worker' = [worker EXCEPT ![w].pc = pc]
WorkerEnds(w) == worker' = [worker EXCEPT ![w] = IdleWorker]

CallAt(c, pc) == call[c].pc = pc
CallGoes(c, pc) == call' = [call EXCEPT ![c].pc = pc]
Return(c) == call' = [call EXCEPT ![c] = IdleCall]

\* cancel_run keeps the process table locked while it waits for the child's
\* own lock: the guard it looked the child up with lives as long as the block.
ProcessesLocked == \E c \in Callers : CallAt(c, "cancel_kill")

RunVars == <<runs, disk>>
HostRest == <<workspace, jobs>>

-----------------------------------------------------------------------------
(* The execution thread: execute_run and execute_run_inner. *)

\* The first update of the thread.  It does not look at the state it replaces,
\* and errs, as the last one does, when the run has left the table.
BeginExecution(w) ==
    LET r == worker[w].run
        record == [runs[r] EXCEPT !.state = IF runs[r].executor = "local"
                                            THEN "running" ELSE "submitting"]
    IN  /\ WorkerAt(w, "begin")
        /\ \/ /\ ~Tracked(r)
              /\ WorkerGoes(w, "failing")
              /\ UNCHANGED <<RunVars, used>>
           \/ /\ Tracked(r)
              /\ \E saved \in BOOLEAN :
                    /\ UpdateRun(saved, r, Noting("execution_started", record))
                    /\ WorkerGoes(w, IF saved THEN "spawn" ELSE "failing")
           \/ /\ Tracked(r)          \* mere_run_command is not configured
              /\ Fault
              /\ WorkerGoes(w, "failing")
              /\ UNCHANGED RunVars
        /\ UNCHANGED <<processes, call, HostRest>>

SpawnChild(w) ==
    /\ WorkerAt(w, "spawn")
    /\ \/ /\ worker' = [worker EXCEPT ![w].pc = "register", ![w].child = "alive"]
          /\ UNCHANGED used
       \/ /\ Fault
          /\ WorkerGoes(w, "failing")
    /\ UNCHANGED <<RunVars, processes, call, HostRest>>

\* HashMap::insert replaces an entry another thread of the same run left.
RegisterChild(w) ==
    /\ WorkerAt(w, "register")
    /\ ~ProcessesLocked
    /\ processes' = [processes EXCEPT ![worker[w].run] = w]
    /\ WorkerGoes(w, "poll")
    /\ UNCHANGED <<RunVars, call, used, HostRest>>

\* try_wait.  While the child lives the thread sleeps with the child's lock in
\* hand: the guard is a temporary of the match it sleeps in.
PollChild(w) ==
    /\ WorkerAt(w, "poll")
    /\ \/ /\ WorkerGoes(w, IF worker[w].child = "alive" THEN "sleep" ELSE "unregister")
          /\ UNCHANGED used
       \/ /\ Fault
          /\ WorkerGoes(w, "failing")
    /\ UNCHANGED <<RunVars, processes, call, HostRest>>

WakeUp(w) ==
    /\ WorkerAt(w, "sleep")
    /\ WorkerGoes(w, "poll")
    /\ UNCHANGED <<RunVars, processes, call, used, HostRest>>

\* Mutant: the child stays in the process table.
UnregisterChildForgotten(w) ==
    /\ WorkerAt(w, "unregister")
    /\ ~ProcessesLocked
    /\ WorkerGoes(w, "join")
    /\ UNCHANGED <<RunVars, processes, call, used, HostRest>>

\* HashMap::remove takes whatever entry the run has.
UnregisterChild(w) ==
    /\ WorkerAt(w, "unregister")
    /\ ~ProcessesLocked
    /\ processes' = [processes EXCEPT ![worker[w].run] = NoWorker]
    /\ WorkerGoes(w, "join")
    /\ UNCHANGED <<RunVars, call, used, HostRest>>

\* Mutants: the exit code taken for a state, and a cancellation overwritten.
SettledStateIsCode(record, child, out) == child
SettledStateUncancelled(record, child, out) ==
    IF child # "ok" THEN "failed" ELSE IF out # NoRef THEN "queued" ELSE "finished"

SettledState(record, child, out) ==
    CASE record.state = "cancelled" -> "cancelled"
      [] record.state # "cancelled" /\ child # "ok" -> "failed"
      [] record.state # "cancelled" /\ child = "ok" -> IF out # NoRef THEN "queued" ELSE "finished"

\* The last update of the thread, once the pipe readers have joined.
FinishExecution(w) ==
    LET r == worker[w].run
        record == [runs[r] EXCEPT !.exit = worker[w].child,
                                  !.ref = worker[w].out,
                                  !.state = SettledState(runs[r], worker[w].child, worker[w].out)]
    IN  /\ WorkerAt(w, "join")
        /\ \/ /\ ~Tracked(r)
              /\ WorkerGoes(w, "failing")
              /\ UNCHANGED <<RunVars, used>>
           \/ /\ Tracked(r)
              /\ \E saved \in BOOLEAN :
                    /\ UpdateRun(saved, r, Noting("execution_finished", record))
                    /\ IF saved THEN WorkerEnds(w) ELSE WorkerGoes(w, "failing")
           \/ /\ Fault               \* a pipe could not be read
              /\ WorkerGoes(w, "failing")
              /\ UNCHANGED RunVars
        /\ UNCHANGED <<processes, call, HostRest>>

\* execute_run's handler: whether its own update is saved is ignored.  A child
\* whose wait failed stays registered.
FailExecution(w) ==
    LET r == worker[w].run
        record == [runs[r] EXCEPT !.state = IF @ = "cancelled" THEN @ ELSE "failed"]
    IN  /\ WorkerAt(w, "failing")
        /\ IF Tracked(r)
           THEN \E saved \in BOOLEAN : UpdateRun(saved, r, Noting("execution_failed", record))
           ELSE UNCHANGED <<RunVars, used>>
        /\ IF worker[w].child = "alive" \/ processes[r] = w
           THEN WorkerGoes(w, "gone")
           ELSE WorkerEnds(w)
        /\ UNCHANGED <<processes, call, HostRest>>

-----------------------------------------------------------------------------
(* The child process, and the remote jobs: code outside the repository. *)

\* `graph submit` creates the job before it prints the reference.
ChildSubmits(w, j) ==
    /\ worker[w].child = "alive" /\ worker[w].out = NoRef
    /\ \E ws \in Workspaces : LET record == disk[ws][worker[w].run] IN
          record # NoRecord /\ record.executor = "remote"
    /\ jobs[j] = "absent"
    /\ \E s \in JobStates \ Terminal : jobs' = [jobs EXCEPT ![j] = s]
    /\ worker' = [worker EXCEPT ![w].out = j]
    /\ UNCHANGED <<workspace, RunVars, processes, call, used>>

\* A child the host lost track of is gone once it exits.
ChildExits(w) ==
    /\ worker[w].child = "alive"
    /\ \E code \in {"ok", "failed"} :
          worker' = [worker EXCEPT ![w] =
              IF @.pc = "gone" /\ processes[@.run] # w THEN IdleWorker ELSE [@ EXCEPT !.child = code]]
    /\ UNCHANGED <<RunVars, processes, call, used, HostRest>>

JobMoves(j) ==
    /\ jobs[j] \notin Terminal \cup {"absent"}
    /\ \E s \in JobStates : jobs' = [jobs EXCEPT ![j] = s]
    /\ UNCHANGED <<workspace, RunVars, processes, worker, call, used>>

-----------------------------------------------------------------------------
(* The commands.  A command is issued by a button the interface shows for   *)
(* the record as it is then; the handler starts any time later.             *)

Offered(op, r) ==
    /\ Tracked(r)
    /\ LET run == runs[r] IN
       CASE op = "inspect" -> TRUE
         [] op = "cancel"  -> run.state \notin Terminal
         [] op = "fetch"   -> run.ref # NoRef
         [] op = "retry"   -> run.ref # NoRef /\ run.state \in Terminal
         [] op = "resume"  -> run.ref = NoRef /\ run.state \in {"failed", "cancelled"}

Counted(op) ==
    IF op = "inspect" THEN UNCHANGED used
    ELSE used.calls < MaxCalls /\ used' = [used EXCEPT !.calls = @ + 1]

Issue(c, op, r) ==
    /\ CallAt(c, "idle")
    /\ op \in Ops \ {"start"}
    /\ Offered(op, r)
    /\ Counted(op)
    /\ call' = [call EXCEPT ![c] = [IdleCall EXCEPT !.pc = op, !.run = r]]
    /\ UNCHANGED <<RunVars, processes, worker, HostRest>>

Fresh(r) ==
    /\ ~Tracked(r)
    /\ \A ws \in Workspaces : disk[ws][r] = NoRecord
    /\ \A c \in Callers : call[c].run # r

\* start_run: the record is built for the workspace of the moment, written,
\* and only then entered in the table and launched.
StartBuild(c, r, executor) ==
    /\ CallAt(c, "idle")
    /\ "start" \in Ops
    /\ Fresh(r)
    /\ Counted("start")
    /\ call' = [call EXCEPT ![c] = [IdleCall EXCEPT !.pc = "start", !.run = r, !.record =
                   [executor |-> executor, home |-> workspace, state |-> "starting",
                    exit |-> "none", ref |-> NoRef, history |-> <<"created">>]]]
    /\ UNCHANGED <<RunVars, processes, worker, HostRest>>

\* Mutant: a start that could not be saved goes on.
StartPersistUnchecked(c) ==
    /\ CallAt(c, "start")
    /\ \E saved \in BOOLEAN : Persist(saved, call[c].run, call[c].record)
    /\ CallGoes(c, "start_insert")
    /\ UNCHANGED <<runs, processes, worker, HostRest>>

StartPersist(c) ==
    /\ CallAt(c, "start")
    /\ \E saved \in BOOLEAN :
          /\ Persist(saved, call[c].run, call[c].record)
          /\ IF saved THEN CallGoes(c, "start_insert") ELSE Return(c)
    /\ UNCHANGED <<runs, processes, worker, HostRest>>

StartInsert(c) ==
    /\ CallAt(c, "start_insert")
    /\ runs' = [runs EXCEPT ![call[c].run] = call[c].record]
    /\ \/ /\ \E w \in Workers : WorkerAt(w, "idle") /\ Launch(w, call[c].run)
          /\ UNCHANGED used
       \/ Fault /\ UNCHANGED worker          \* no thread
    /\ Return(c)
    /\ UNCHANGED <<disk, processes, HostRest>>

\* inspect_run: read the reference, ask the executor, write the answer.
InspectSnapshot(c) ==
    LET run == runs[call[c].run] IN
    /\ CallAt(c, "inspect")
    /\ IF Tracked(call[c].run) /\ run.ref # NoRef /\ run.state \in Refreshable
       THEN call' = [call EXCEPT ![c].pc = "inspect_cli", ![c].ref = run.ref]
       ELSE Return(c)
    /\ UNCHANGED <<RunVars, processes, worker, used, HostRest>>

\* The command line answers with the job's state, answers without one, or fails.
InspectCli(c) ==
    /\ CallAt(c, "inspect_cli")
    /\ \/ \E answer \in {jobs[call[c].ref], "none"} :
             call' = [call EXCEPT ![c].pc = "inspect_apply", ![c].seen = answer]
       \/ Return(c)
    /\ UNCHANGED <<RunVars, processes, worker, used, HostRest>>

InspectApply(c) ==
    LET r == call[c].run IN
    /\ CallAt(c, "inspect_apply")
    /\ Tracked(r)
    /\ \E saved \in BOOLEAN :
          UpdateRun(saved, r, [runs[r] EXCEPT !.state =
                                  IF call[c].seen \in RemoteStates THEN call[c].seen ELSE @])
    /\ Return(c)
    /\ UNCHANGED <<processes, worker, HostRest>>

\* cancel_run: kill a registered child, cancel a known job, then write the state.
CancelLookup(c) ==
    LET r == call[c].run IN
    /\ CallAt(c, "cancel")
    /\ ~ProcessesLocked
    /\ \/ /\ IF processes[r] = NoWorker THEN CallGoes(c, "cancel_remote")
             ELSE IF Tracked(r) THEN CallGoes(c, "cancel_kill")
             ELSE Return(c)
          /\ UNCHANGED used
       \/ /\ processes[r] # NoWorker /\ Tracked(r)   \* cancel.request is not written
          /\ Fault
          /\ Return(c)
    /\ UNCHANGED <<RunVars, processes, worker, HostRest>>

\* The kill needs the child's lock, which its worker holds while it sleeps.
CancelKill(c) ==
    LET w == processes[call[c].run] IN
    /\ CallAt(c, "cancel_kill")
    /\ ~WorkerAt(w, "sleep")
    /\ \/ /\ worker' = [worker EXCEPT ![w].child = IF @ = "alive" THEN "failed" ELSE @]
          /\ CallGoes(c, "cancel_remote")
          /\ UNCHANGED used
       \/ /\ Fault
          /\ Return(c)
          /\ UNCHANGED worker
    /\ UNCHANGED <<RunVars, processes, HostRest>>

CancelRemote(c) ==
    LET r == call[c].run IN
    /\ CallAt(c, "cancel_remote")
    /\ IF ~Tracked(r) THEN Return(c)
       ELSE IF runs[r].ref = NoRef THEN CallGoes(c, "cancel_mark")
       ELSE call' = [call EXCEPT ![c].pc = "cancel_cli", ![c].ref = runs[r].ref]
    /\ UNCHANGED <<RunVars, processes, worker, used, HostRest>>

\* Whether the executor accepts the cancellation is ignored.
CancelCli(c) ==
    LET j == call[c].ref IN
    /\ CallAt(c, "cancel_cli")
    /\ jobs' \in {jobs, [jobs EXCEPT ![j] = IF @ \in Terminal THEN @ ELSE "cancelled"]}
    /\ CallGoes(c, "cancel_mark")
    /\ UNCHANGED <<workspace, RunVars, processes, worker, used>>

CancelMark(c) ==
    LET r == call[c].run IN
    /\ CallAt(c, "cancel_mark")
    /\ IF Tracked(r)
       THEN \E saved \in BOOLEAN :
               UpdateRun(saved, r, Noting("cancelled", [runs[r] EXCEPT !.state = "cancelled"]))
       ELSE UNCHANGED <<RunVars, used>>
    /\ Return(c)
    /\ UNCHANGED <<processes, worker, HostRest>>

\* fetch_run touches the history only.
FetchBegin(c) ==
    LET r == call[c].run IN
    /\ CallAt(c, "fetch")
    /\ IF Tracked(r) /\ runs[r].ref # NoRef
       THEN \E saved \in BOOLEAN :
               /\ UpdateRun(saved, r, Noting("fetch_started", runs[r]))
               /\ IF saved THEN CallGoes(c, "fetch_cli") ELSE Return(c)
       ELSE Return(c) /\ UNCHANGED <<RunVars, used>>
    /\ UNCHANGED <<processes, worker, HostRest>>

FetchEnd(c) ==
    LET r == call[c].run IN
    /\ CallAt(c, "fetch_cli")
    /\ \/ /\ Tracked(r)
          /\ \E kind \in {"fetch_finished", "fetch_failed"}, saved \in BOOLEAN :
                UpdateRun(saved, r, Noting(kind, runs[r]))
       \/ ~Tracked(r) /\ UNCHANGED <<RunVars, used>>
       \/ Fault /\ UNCHANGED RunVars        \* the command could not be run
    /\ Return(c)
    /\ UNCHANGED <<processes, worker, HostRest>>

\* retry_run: the executor restarts the job, or starts another in its place.
RetryTake(c) ==
    LET r == call[c].run IN
    /\ CallAt(c, "retry")
    /\ IF Tracked(r) /\ runs[r].ref # NoRef
       THEN call' = [call EXCEPT ![c].pc = "retry_cli", ![c].ref = runs[r].ref]
       ELSE Return(c)
    /\ UNCHANGED <<RunVars, processes, worker, used, HostRest>>

RetryCli(c) ==
    LET old == call[c].ref IN
    /\ CallAt(c, "retry_cli")
    /\ \/ /\ jobs[old] \in Terminal
          /\ \E j \in {old} \cup {k \in Refs : jobs[k] = "absent"}, s \in JobStates \ Terminal :
                /\ jobs' = [jobs EXCEPT ![j] = s]
                /\ \E printed \in {j, NoRef} :
                      call' = [call EXCEPT ![c].pc = "retry_apply", ![c].ref = printed]
       \/ Return(c) /\ UNCHANGED jobs
    /\ UNCHANGED <<workspace, RunVars, processes, worker, used>>

\* Mutant: a retry that prints no reference clears the one there was.
RetryApplyUnchecked(c) ==
    LET r == call[c].run
        record == [runs[r] EXCEPT !.ref = call[c].ref, !.state = "queued"]
    IN  /\ CallAt(c, "retry_apply")
        /\ IF Tracked(r)
           THEN \E saved \in BOOLEAN : UpdateRun(saved, r, Noting("retried", record))
           ELSE UNCHANGED <<RunVars, used>>
        /\ Return(c)
        /\ UNCHANGED <<processes, worker, HostRest>>

RetryApply(c) ==
    LET r == call[c].run
        record == [runs[r] EXCEPT !.ref = IF call[c].ref # NoRef THEN call[c].ref ELSE @,
                                  !.state = "queued"]
    IN  /\ CallAt(c, "retry_apply")
        /\ IF Tracked(r)
           THEN \E saved \in BOOLEAN : UpdateRun(saved, r, Noting("retried", record))
           ELSE UNCHANGED <<RunVars, used>>
        /\ Return(c)
        /\ UNCHANGED <<processes, worker, HostRest>>

\* resume_run: two separate checks, then the update, then a new thread.
ResumeCheckRef(c) ==
    LET r == call[c].run IN
    /\ CallAt(c, "resume")
    /\ IF Tracked(r) /\ runs[r].ref = NoRef THEN CallGoes(c, "resume_check") ELSE Return(c)
    /\ UNCHANGED <<RunVars, processes, worker, used, HostRest>>

ResumeCheckProcess(c) ==
    /\ CallAt(c, "resume_check")
    /\ ~ProcessesLocked
    /\ IF processes[call[c].run] = NoWorker THEN CallGoes(c, "resume_launch") ELSE Return(c)
    /\ UNCHANGED <<RunVars, processes, worker, used, HostRest>>

ResumeLaunch(c) ==
    LET r == call[c].run
        record == Noting("resumed", [runs[r] EXCEPT !.state = "starting"])
    IN  /\ CallAt(c, "resume_launch")
        /\ \/ /\ ~Tracked(r)
              /\ UNCHANGED <<RunVars, worker, used>>
           \/ /\ Tracked(r)
              /\ UpdateRun(TRUE, r, record)
              /\ \E w \in Workers : WorkerAt(w, "idle") /\ Launch(w, r)
           \/ /\ Tracked(r)                  \* saved without a thread, or not saved
              /\ runs' = [runs EXCEPT ![r] = record]
              /\ Fault
              /\ disk' \in {disk, [disk EXCEPT ![workspace][r] = record]}
              /\ UNCHANGED worker
        /\ Return(c)
        /\ UNCHANGED <<processes, HostRest>>

-----------------------------------------------------------------------------
(* Crash and restart: StudioService::new reads the records back; children   *)
(* live on without an owner.                                                *)

Restored(ws) ==
    [r \in Runs |-> IF disk[ws][r] # NoRecord /\ disk[ws][r].home = ws
                    THEN disk[ws][r] ELSE NoRecord]

Crash ==
    /\ used.crashes < MaxCrashes
    /\ used' = [used EXCEPT !.crashes = @ + 1]
    /\ runs' = Restored(workspace)
    /\ processes' = [r \in Runs |-> NoWorker]
    /\ call' = [c \in Callers |-> IdleCall]
    /\ worker' = [w \in Workers |-> IF worker[w].child = "alive"
                                    THEN [worker[w] EXCEPT !.pc = "gone"] ELSE IdleWorker]
    /\ UNCHANGED <<disk, HostRest>>

-----------------------------------------------------------------------------
Init ==
    /\ workspace \in Workspaces
    /\ runs = [r \in Runs |-> NoRecord]
    /\ disk = [ws \in Workspaces |-> [r \in Runs |-> NoRecord]]
    /\ processes = [r \in Runs |-> NoWorker]
    /\ worker = [w \in Workers |-> IdleWorker]
    /\ call = [c \in Callers |-> IdleCall]
    /\ jobs = [j \in Refs |-> "absent"]
    /\ used = [calls |-> 0, faults |-> 0, crashes |-> 0]

WorkerStep(w) ==
    \/ BeginExecution(w) \/ SpawnChild(w) \/ RegisterChild(w) \/ PollChild(w) \/ WakeUp(w)
    \/ UnregisterChild(w) \/ FinishExecution(w) \/ FailExecution(w)

HandlerStep(c) ==
    \/ StartPersist(c) \/ StartInsert(c)
    \/ InspectSnapshot(c) \/ InspectCli(c) \/ InspectApply(c)
    \/ CancelLookup(c) \/ CancelKill(c) \/ CancelRemote(c) \/ CancelCli(c) \/ CancelMark(c)
    \/ FetchBegin(c) \/ FetchEnd(c)
    \/ RetryTake(c) \/ RetryCli(c) \/ RetryApply(c)
    \/ ResumeCheckRef(c) \/ ResumeCheckProcess(c) \/ ResumeLaunch(c)

CommandStep(c) ==
    \/ \E r \in Runs, op \in AllOps : Issue(c, op, r)
    \/ \E r \in Runs, executor \in Executors : StartBuild(c, r, executor)
    \/ HandlerStep(c)

OutsideStep ==
    \/ \E w \in Workers : ChildExits(w) \/ \E j \in Refs : ChildSubmits(w, j)
    \/ \E j \in Refs : JobMoves(j)

Next ==
    \/ \E w \in Workers : WorkerStep(w)
    \/ \E c \in Callers : CommandStep(c)
    \/ OutsideStep
    \/ Crash

Spec == Init /\ [][Next]_vars

\* The operating system schedules every thread; nothing makes a mutex fair.
ThreadsRun == /\ \A w \in Workers : WF_vars(WorkerStep(w))
              /\ \A c \in Callers : WF_vars(HandlerStep(c))

\* Outside the host: children exit, jobs end, and a command line call that is
\* made again and again answers at last.
JobEnds(j) == JobMoves(j) /\ jobs'[j] \in Terminal
InspectAnswered(c) == InspectCli(c) /\ call'[c].seen \in RemoteStates
OutsideEnds == /\ \A w \in Workers : WF_vars(ChildExits(w))
               /\ \A j \in Refs : WF_vars(JobEnds(j))
               /\ \A c \in Callers : SF_vars(InspectAnswered(c))

\* watchRun inspects a run until the record it gets is terminal.
Watch(r) == runs[r].state \notin Terminal /\ \E c \in Callers : Issue(c, "inspect", r)
RunsAreWatched == \A r \in Runs : WF_vars(Tracked(r) /\ Watch(r))

FairSpec == Spec /\ ThreadsRun /\ OutsideEnds /\ RunsAreWatched

-----------------------------------------------------------------------------
(* What the host promises. *)

TypeOK ==
    /\ workspace \in Workspaces
    /\ runs \in [Runs -> Record \cup {NoRecord}]
    /\ disk \in [Workspaces -> [Runs -> Record \cup {NoRecord}]]
    /\ processes \in [Runs -> Workers \cup {NoWorker}]
    /\ worker \in [Workers -> [pc : WorkerPc, run : Runs \cup {NoRun},
                               child : {"none", "alive", "ok", "failed"}, out : Refs \cup {NoRef}]]
    /\ \A w \in Workers : ~WorkerAt(w, "idle") => worker[w].run \in Runs
    /\ call \in [Callers -> [pc : CallPc, run : Runs \cup {NoRun}, ref : Refs \cup {NoRef},
                             seen : RemoteStates \cup {"absent", "none"},
                             record : Record \cup {NoRecord}]]
    /\ \A c \in Callers : ~CallAt(c, "idle") => call[c].run \in Runs
    /\ jobs \in [Refs -> RemoteStates \cup {"absent"}]
    /\ used \in [calls : Nat, faults : Nat, crashes : Nat]

Count(history, kinds) == Cardinality({i \in DOMAIN history : history[i] \in kinds})
Launches(history) == Count(history, {"created", "resumed"})
Endings(history) == Count(history, {"execution_finished", "execution_failed"})
LaunchedOnce(r) == Tracked(r) /\ Launches(runs[r].history) = 1
Saved(r) == disk[workspace][r]

\* docs/architecture.md: the host persists run records before launch.  At every
\* instant, also in a crash, each execution thread and each living child works
\* for a run that has a record on disk, and no step takes a record away.
LaunchIsRecorded ==
    \A w \in Workers : ~WorkerAt(w, "idle") =>
        \E ws \in Workspaces : disk[ws][worker[w].run] # NoRecord

\* The table never falls behind the disk: whatever writes fail, the history of
\* a saved record is a prefix of the tracked one, so the next successful write
\* loses nothing that was saved (update_run, persist_run, start_run, restore_runs).
TableCoversDisk ==
    \A r \in Runs : Tracked(r) =>
        /\ Saved(r) # NoRecord
        /\ Len(Saved(r).history) <= Len(runs[r].history)
        /\ \A i \in 1..Len(Saved(r).history) : Saved(r).history[i] = runs[r].history[i]

\* Every launch, a start or a resume, runs at most one child and is settled at
\* most once, however threads, commands and crashes interleave.  A thread that
\* fails after its last update settles a second time, but only when a write
\* failed (execute_run's handler).
LaunchesAreSettledOnce ==
    \A r \in Runs : Tracked(r) =>
        Endings(runs[r].history)
            + Cardinality({w \in Workers : worker[w].run = r
                             /\ worker[w].pc \notin {"idle", "gone"}})
        <= Launches(runs[r].history) + used.faults

\* The process table names exactly the threads that poll a child: never one that
\* has given its child up or works for another run, so cancel_run kills the right
\* child and only a live child blocks configure (a child whose wait failed is the
\* exception); and, until a run is resumed, never less than the child polled.
ProcessTableIsExact ==
    /\ \A r \in Runs : processes[r] # NoWorker =>
          /\ worker[processes[r]].run = r
          /\ worker[processes[r]].pc \in {"poll", "sleep", "unregister"}
               \cup (IF used.faults > 0 THEN {"failing", "gone"} ELSE {})
    /\ \A w \in Workers :
          worker[w].pc \in {"poll", "sleep"} /\ LaunchedOnce(worker[w].run)
              => processes[worker[w].run] = w

\* A crash takes back only what a failed write had not saved.
LostToCrash == used'.crashes > used.crashes /\ used.faults > 0

\* A run that was cancelled leaves that state only where its history says so, or
\* by a remote inspection: the result of a process that ends after the
\* cancellation never replaces it (execute_run_inner, execute_run).  The
\* inspection is of the job the run knows, unless a second execution has dropped
\* the reference while the executor answered.
CancelledLeftOnRecord ==
    [][\A r \in Runs :
          Tracked(r) /\ runs[r].state = "cancelled" /\ Tracked(r)' /\ runs'[r].state # "cancelled"
              => LET h == runs'[r].history IN
                 \/ h[Len(h)] \in {"execution_started", "resumed", "retried"}
                 \/ (runs[r].ref # NoRef \/ ~LaunchedOnce(r)) /\ h = runs[r].history
                 \/ LostToCrash]_vars

\* Once a run that was launched once knows its remote job it keeps a reference:
\* neither a retry without a new reference nor a late update drops it.
ReferenceIsKept ==
    [][\A r \in Runs :
          LaunchedOnce(r) /\ runs[r].ref # NoRef /\ Tracked(r)'
              => runs'[r].ref # NoRef \/ LostToCrash]_vars

\* The record files implement the ledger: whatever the threads, the crashes and
\* the failed writes do, a saved history only grows, and stays a legal story.
Ledger == INSTANCE RunLedger WITH
    ledger <- [r \in Runs |-> IF Saved(r) = NoRecord THEN <<>> ELSE Saved(r).history]
ImplementsLedger == Ledger!Spec

\* A run that is watched settles for good: once commands stop coming, its child
\* has exited and its job has ended, the record is terminal and stays so, stale
\* answers of overlapping inspections included.
WatchedRunsSettle ==
    \A r \in Runs : <>[](Tracked(r) => runs[r].state \in Terminal)

\* "run is already active" (resume_run): a run never has two children at once.
OneChildPerRun ==
    \A r \in Runs :
        Cardinality({w \in Workers : worker[w].run = r /\ worker[w].child = "alive"
                                       /\ ~WorkerAt(w, "gone")}) <= 1
=============================================================================
