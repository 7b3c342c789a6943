--------------------------- MODULE RunHostProofs ---------------------------
(***************************************************************************)
(* Theorems about the run host, for every number of runs, threads,         *)
(* commands, jobs, faults and crashes.                                     *)
(*                                                                         *)
(* TypeInv is the inductive form of TypeOK.  It splits the state into the  *)
(* tables, the execution threads and the commands, because most steps      *)
(* touch one of the three through a helper (UpdateRun, WorkerGoes,         *)
(* CallGoes, ...); each helper has a lemma that the actions cite.          *)
(*                                                                         *)
(* The second part is about the histories: that the record files implement *)
(* RunLedger, that each launch is settled once, that the process table is  *)
(* exact, and that neither a cancellation nor a reference is lost.  What   *)
(* makes a history legal is a count: whoever may still write an entry is   *)
(* counted together with the entries that are there.  Story says so for    *)
(* one history and the sets of those who work for the run; each kind of    *)
(* entry has a lemma about Story that knows nothing of the host, and each  *)
(* action cites the lemma of the entry it writes.                          *)
(***************************************************************************)
EXTENDS RunHost, FiniteSetTheorems, TLAPS

ChildStates == {"none", "alive", "ok", "failed"}

WorkerRecord == [pc : WorkerPc, run : Runs \cup {NoRun}, child : ChildStates, out : Refs \cup {NoRef}]

CallRecord == [pc : CallPc, run : Runs \cup {NoRun}, ref : Refs \cup {NoRef},
               seen : RemoteStates \cup {"absent", "none"}, record : Record \cup {NoRecord}]

RunsOK == runs \in [Runs -> Record \cup {NoRecord}]
DiskOK == disk \in [Workspaces -> [Runs -> Record \cup {NoRecord}]]
UsedOK == used \in [calls : Nat, faults : Nat, crashes : Nat]
TablesOK ==
    /\ workspace \in Workspaces
    /\ RunsOK /\ DiskOK /\ UsedOK
    /\ processes \in [Runs -> Workers \cup {NoWorker}]
    /\ jobs \in [Refs -> RemoteStates \cup {"absent"}]

\* Where the exit status of the child is used, the child has exited.
WorkerOK(v) ==
    /\ v.pc # "idle" => v.run \in Runs
    /\ v.pc = "idle" => v.child = "none"
    /\ v.pc \in {"register", "poll", "sleep"} => v.child # "none"
    /\ v.pc \in {"unregister", "join"} => v.child \in {"ok", "failed"}
WorkersOK == worker \in [Workers -> WorkerRecord] /\ \A w \in Workers : WorkerOK(worker[w])

\* A start carries the record it is about to write or enter, and an inspection
\* the job it asks about.
CallOK(v) ==
    /\ v.pc # "idle" => v.run \in Runs
    /\ v.pc \in {"start", "start_insert"} => v.record \in Record
    /\ v.pc = "inspect_cli" => v.ref \in Refs
CallsOK == call \in [Callers -> CallRecord] /\ \A c \in Callers : CallOK(call[c])

TypeInv == TablesOK /\ WorkersOK /\ CallsOK

-----------------------------------------------------------------------------
(* The helpers. *)

\* The inductive form implies the type invariant the runs check.
LEMMA TypeInvIsTypeOK == TypeInv => TypeOK
BY DEF TypeInv, TypeOK, TablesOK, RunsOK, DiskOK, UsedOK, WorkersOK, WorkerOK, CallsOK, CallOK,
       WorkerAt, CallAt, WorkerRecord, CallRecord, ChildStates

\* A record with one more history entry is a record, different only there.
LEMMA NotingIsRecord ==
    ASSUME NEW record \in Record, NEW kind \in Kinds
    PROVE  Noting(kind, record) \in Record
BY DEF Noting, Record

LEMMA FaultTypes == UsedOK /\ Fault => UsedOK'
BY DEF UsedOK, Fault

LEMMA CountedTypes ==
    ASSUME UsedOK, NEW op, Counted(op)
    PROVE  UsedOK'
<1>1. CASE used' = [used EXCEPT !.calls = @ + 1]
  BY <1>1 DEF UsedOK
<1>2. CASE UNCHANGED used
  BY <1>2 DEF UsedOK
<1> QED BY <1>1, <1>2 DEF Counted

\* persist_run: whether or not the write succeeds the tables keep their types.
LEMMA PersistTypes ==
    ASSUME TablesOK, NEW saved \in BOOLEAN, NEW r \in Runs, NEW record \in Record,
           Persist(saved, r, record)
    PROVE  DiskOK' /\ UsedOK'
BY FaultTypes DEF TablesOK, DiskOK, UsedOK, Persist

\* update_run likewise.
LEMMA UpdateRunTypes ==
    ASSUME TablesOK, NEW saved \in BOOLEAN, NEW r \in Runs, NEW record \in Record,
           UpdateRun(saved, r, record)
    PROVE  RunsOK' /\ DiskOK' /\ UsedOK'
BY PersistTypes DEF TablesOK, RunsOK, UpdateRun

\* Moving a thread to a place its child allows.
LEMMA WorkerGoesTypes ==
    ASSUME WorkersOK, NEW w \in Workers, NEW pc \in WorkerPc,
           worker[w].pc # "idle", WorkerOK([worker[w] EXCEPT !.pc = pc]), WorkerGoes(w, pc)
    PROVE  WorkersOK'
BY DEF WorkersOK, WorkerGoes, WorkerOK, WorkerRecord

LEMMA WorkerEndsTypes ==
    ASSUME WorkersOK, NEW w \in Workers, WorkerEnds(w)
    PROVE  WorkersOK'
BY DEF WorkersOK, WorkerEnds, WorkerOK, WorkerRecord, IdleWorker, WorkerPc, ChildStates

LEMMA LaunchTypes ==
    ASSUME WorkersOK, NEW w \in Workers, NEW r \in Runs, Launch(w, r)
    PROVE  WorkersOK'
BY DEF WorkersOK, Launch, WorkerOK, WorkerRecord, IdleWorker, WorkerPc, ChildStates

\* Moving a command on to a step that needs neither its record nor its job.
LEMMA CallGoesTypes ==
    ASSUME CallsOK, NEW c \in Callers, NEW pc \in CallPc \ {"start", "start_insert", "inspect_cli"},
           call[c].pc # "idle", CallGoes(c, pc)
    PROVE  CallsOK'
BY DEF CallsOK, CallGoes, CallOK, CallRecord

LEMMA ReturnTypes ==
    ASSUME CallsOK, NEW c \in Callers, Return(c)
    PROVE  CallsOK'
BY DEF CallsOK, Return, CallOK, CallRecord, IdleCall, CallPc, RemoteStates

-----------------------------------------------------------------------------
(* The execution thread. *)

\* Every update a thread makes writes a record.
LEMMA BeginTypes ==
    ASSUME TypeInv, NEW w \in Workers, BeginExecution(w)
    PROVE  TypeInv'
<1> DEFINE r == worker[w].run
           record == [runs[r] EXCEPT !.state = IF runs[r].executor = "local"
                                               THEN "running" ELSE "submitting"]
<1>1. r \in Runs /\ worker[w].pc = "begin"
  BY DEF BeginExecution, WorkerAt, TypeInv, WorkersOK, WorkerOK
<1>2. processes' = processes /\ workspace' = workspace /\ jobs' = jobs /\ CallsOK'
  BY DEF BeginExecution, TypeInv, CallsOK, HostRest
<1>3. CASE ~Tracked(r) /\ WorkerGoes(w, "failing") /\ UNCHANGED <<RunVars, used>>
  <2>1. WorkersOK'
    BY <1>1, <1>3, WorkerGoesTypes DEF TypeInv, WorkersOK, WorkerOK, WorkerRecord, WorkerPc
  <2> QED BY <1>2, <1>3, <2>1 DEF TypeInv, TablesOK, RunsOK, DiskOK, UsedOK, RunVars
<1>4. CASE Tracked(r) /\ \E saved \in BOOLEAN :
                /\ UpdateRun(saved, r, Noting("execution_started", record))
                /\ WorkerGoes(w, IF saved THEN "spawn" ELSE "failing")
  <2>1. record \in Record
    BY <1>1, <1>4 DEF TypeInv, TablesOK, RunsOK, Tracked, Record, RunStates, RemoteStates
  <2>2. Noting("execution_started", record) \in Record
    BY <2>1, NotingIsRecord DEF Kinds
  <2>3. PICK saved \in BOOLEAN :
            /\ UpdateRun(saved, r, Noting("execution_started", record))
            /\ WorkerGoes(w, IF saved THEN "spawn" ELSE "failing")
    BY <1>4
  <2>4. RunsOK' /\ DiskOK' /\ UsedOK'
    BY <1>1, <2>2, <2>3, UpdateRunTypes DEF TypeInv
  <2>5. WorkersOK'
    BY <1>1, <2>3, WorkerGoesTypes DEF TypeInv, WorkersOK, WorkerOK, WorkerRecord, WorkerPc
  <2> QED BY <1>2, <2>4, <2>5 DEF TypeInv, TablesOK
<1>5. CASE Tracked(r) /\ Fault /\ WorkerGoes(w, "failing") /\ UNCHANGED RunVars
  <2>1. WorkersOK'
    BY <1>1, <1>5, WorkerGoesTypes DEF TypeInv, WorkersOK, WorkerOK, WorkerRecord, WorkerPc
  <2>2. UsedOK'
    BY <1>5, FaultTypes DEF TypeInv, TablesOK
  <2> QED BY <1>2, <1>5, <2>1, <2>2 DEF TypeInv, TablesOK, RunsOK, DiskOK, RunVars
<1> QED BY <1>3, <1>4, <1>5 DEF BeginExecution

LEMMA SpawnTypes ==
    ASSUME TypeInv, NEW w \in Workers, SpawnChild(w)
    PROVE  TypeInv'
<1>1. worker[w].pc = "spawn" /\ worker[w] \in WorkerRecord /\ worker[w].run \in Runs
  BY DEF SpawnChild, WorkerAt, TypeInv, WorkersOK, WorkerOK
<1>2. CallsOK' /\ RunsOK' /\ DiskOK' /\ UNCHANGED <<workspace, processes, jobs>>
  BY DEF SpawnChild, TypeInv, TablesOK, RunsOK, DiskOK, CallsOK, RunVars, HostRest
<1>3. UsedOK'
  BY FaultTypes DEF SpawnChild, TypeInv, TablesOK, UsedOK
<1>4. WorkersOK'
  <2>1. CASE worker' = [worker EXCEPT ![w].pc = "register", ![w].child = "alive"]
    BY <1>1, <2>1 DEF TypeInv, WorkersOK, WorkerOK, WorkerRecord, WorkerPc, ChildStates
  <2>2. CASE WorkerGoes(w, "failing")
    BY <1>1, <2>2, WorkerGoesTypes DEF TypeInv, WorkersOK, WorkerOK, WorkerRecord, WorkerPc
  <2> QED BY <2>1, <2>2 DEF SpawnChild
<1> QED BY <1>2, <1>3, <1>4 DEF TypeInv, TablesOK

\* Registration, polling, waking up and unregistration touch the process table
\* and the place of the thread only.
LEMMA PollingTypes ==
    ASSUME TypeInv, NEW w \in Workers,
           RegisterChild(w) \/ PollChild(w) \/ WakeUp(w) \/ UnregisterChild(w)
    PROVE  TypeInv'
<1>1. worker[w] \in WorkerRecord /\ WorkerOK(worker[w])
  BY DEF TypeInv, WorkersOK
<1>2. CallsOK' /\ RunsOK' /\ DiskOK' /\ UNCHANGED <<workspace, jobs>>
  BY DEF RegisterChild, PollChild, WakeUp, UnregisterChild, TypeInv, TablesOK, RunsOK, DiskOK,
         CallsOK, RunVars, HostRest
<1>3. UsedOK'
  BY FaultTypes DEF RegisterChild, PollChild, WakeUp, UnregisterChild, TypeInv, TablesOK, UsedOK
<1>4. processes' \in [Runs -> Workers \cup {NoWorker}]
  BY DEF RegisterChild, PollChild, WakeUp, UnregisterChild, TypeInv, TablesOK
<1>5. WorkersOK'
  <2>1. CASE RegisterChild(w)
    BY <1>1, <2>1, WorkerGoesTypes DEF RegisterChild, WorkerAt, TypeInv, WorkerOK, WorkerRecord, WorkerPc
  <2>2. CASE PollChild(w)
    <3>1. worker[w].pc = "poll"
      BY <2>2 DEF PollChild, WorkerAt
    <3>2. CASE WorkerGoes(w, "sleep")
      BY <1>1, <3>1, <3>2, WorkerGoesTypes DEF TypeInv, WorkerOK, WorkerRecord, WorkerPc
    <3>3. CASE worker[w].child # "alive" /\ WorkerGoes(w, "unregister")
      <4>1. worker[w].child \in {"ok", "failed"}
        BY <1>1, <3>1, <3>3 DEF WorkerOK, WorkerRecord, ChildStates
      <4> QED
        BY <1>1, <3>1, <3>3, <4>1, WorkerGoesTypes DEF TypeInv, WorkerOK, WorkerRecord, WorkerPc
    <3>4. CASE WorkerGoes(w, "failing")
      BY <1>1, <3>1, <3>4, WorkerGoesTypes DEF TypeInv, WorkerOK, WorkerRecord, WorkerPc
    <3> QED BY <2>2, <3>2, <3>3, <3>4 DEF PollChild
  <2>3. CASE WakeUp(w)
    BY <1>1, <2>3, WorkerGoesTypes DEF WakeUp, WorkerAt, TypeInv, WorkerOK, WorkerRecord, WorkerPc
  <2>4. CASE UnregisterChild(w)
    BY <1>1, <2>4, WorkerGoesTypes DEF UnregisterChild, WorkerAt, TypeInv, WorkerOK, WorkerRecord, WorkerPc
  <2> QED BY <2>1, <2>2, <2>3, <2>4
<1> QED BY <1>2, <1>3, <1>4, <1>5 DEF TypeInv, TablesOK

LEMMA FinishTypes ==
    ASSUME TypeInv, NEW w \in Workers, FinishExecution(w)
    PROVE  TypeInv'
<1> DEFINE r == worker[w].run
           state == SettledState(runs[r], worker[w].child, worker[w].out)
           record == [runs[r] EXCEPT !.exit = worker[w].child, !.ref = worker[w].out,
                                     !.state = state]
<1>1. /\ worker[w] \in WorkerRecord /\ r \in Runs /\ worker[w].pc = "join"
      /\ worker[w].child \in {"ok", "failed"}
  BY DEF FinishExecution, WorkerAt, TypeInv, WorkersOK, WorkerOK
<1>2. CallsOK' /\ UNCHANGED <<workspace, processes, jobs>>
  BY DEF FinishExecution, TypeInv, CallsOK, HostRest
<1>3. WorkersOK' \/ ~(WorkerEnds(w) \/ WorkerGoes(w, "failing"))
  BY <1>1, WorkerEndsTypes, WorkerGoesTypes DEF TypeInv, WorkerOK, WorkerRecord, WorkerPc
<1>4. CASE ~Tracked(r) /\ WorkerGoes(w, "failing") /\ UNCHANGED <<RunVars, used>>
  BY <1>2, <1>3, <1>4 DEF TypeInv, TablesOK, RunsOK, DiskOK, UsedOK, RunVars
<1>5. CASE Tracked(r) /\ \E saved \in BOOLEAN :
                /\ UpdateRun(saved, r, Noting("execution_finished", record))
                /\ IF saved THEN WorkerEnds(w) ELSE WorkerGoes(w, "failing")
  <2>1. runs[r] \in Record
    BY <1>1, <1>5 DEF TypeInv, TablesOK, RunsOK, Tracked
  <2>2. state \in RunStates
    BY <1>1, <2>1 DEF SettledState, RunStates, RemoteStates, Terminal
  <2>3. record \in Record
    BY <1>1, <2>1, <2>2 DEF Record, WorkerRecord
  <2>4. Noting("execution_finished", record) \in Record
    BY <2>3, NotingIsRecord DEF Kinds
  <2> QED
    BY <1>1, <1>2, <1>3, <1>5, <2>4, UpdateRunTypes DEF TypeInv, TablesOK
<1>6. CASE Fault /\ WorkerGoes(w, "failing") /\ UNCHANGED RunVars
  BY <1>2, <1>3, <1>6, FaultTypes DEF TypeInv, TablesOK, RunsOK, DiskOK, RunVars
<1> QED BY <1>4, <1>5, <1>6 DEF FinishExecution

LEMMA FailTypes ==
    ASSUME TypeInv, NEW w \in Workers, FailExecution(w)
    PROVE  TypeInv'
<1> DEFINE r == worker[w].run
           record == [runs[r] EXCEPT !.state = IF @ = "cancelled" THEN @ ELSE "failed"]
<1>1. worker[w] \in WorkerRecord /\ r \in Runs /\ worker[w].pc = "failing"
  BY DEF FailExecution, WorkerAt, TypeInv, WorkersOK, WorkerOK
<1>2. CallsOK' /\ UNCHANGED <<workspace, processes, jobs>>
  BY DEF FailExecution, TypeInv, CallsOK, HostRest
<1>3. WorkersOK'
  BY <1>1, WorkerEndsTypes, WorkerGoesTypes DEF FailExecution, TypeInv, WorkerOK, WorkerRecord, WorkerPc
<1>4. RunsOK' /\ DiskOK' /\ UsedOK'
  <2>1. CASE Tracked(r)
    <3>1. record \in Record
      BY <1>1, <2>1 DEF TypeInv, TablesOK, RunsOK, Tracked, Record, RunStates, RemoteStates, Terminal
    <3>2. Noting("execution_failed", record) \in Record
      BY <3>1, NotingIsRecord DEF Kinds
    <3> QED BY <1>1, <2>1, <3>2, UpdateRunTypes DEF FailExecution, TypeInv
  <2>2. CASE ~Tracked(r)
    BY <2>2 DEF FailExecution, TypeInv, TablesOK, RunsOK, DiskOK, UsedOK, RunVars
  <2> QED BY <2>1, <2>2
<1> QED BY <1>2, <1>3, <1>4 DEF TypeInv, TablesOK

-----------------------------------------------------------------------------
(* The child process, the remote jobs, and the crash. *)

LEMMA OutsideTypes ==
    ASSUME TypeInv, OutsideStep
    PROVE  TypeInv'
<1>1. ASSUME NEW w \in Workers, ChildExits(w) PROVE TypeInv'
  <2>1. worker[w] \in WorkerRecord /\ WorkerOK(worker[w])
    BY DEF TypeInv, WorkersOK
  <2>2. PICK code \in {"ok", "failed"} : worker' = [worker EXCEPT ![w] =
            IF @.pc = "gone" /\ processes[@.run] # w THEN IdleWorker ELSE [@ EXCEPT !.child = code]]
    BY <1>1 DEF ChildExits
  <2>3. WorkersOK'
    BY <1>1, <2>1, <2>2
    DEF ChildExits, TypeInv, WorkersOK, WorkerOK, WorkerRecord, WorkerPc, ChildStates, IdleWorker
  <2> QED
    BY <1>1, <2>3 DEF ChildExits, TypeInv, TablesOK, RunsOK, DiskOK, UsedOK, CallsOK, RunVars, HostRest
<1>2. ASSUME NEW w \in Workers, NEW j \in Refs, ChildSubmits(w, j) PROVE TypeInv'
  <2>1. PICK s \in JobStates \ Terminal : jobs' = [jobs EXCEPT ![j] = s]
    BY <1>2 DEF ChildSubmits
  <2>2. jobs' \in [Refs -> RemoteStates \cup {"absent"}]
    BY <2>1, ConstantsAssumption DEF TypeInv, TablesOK
  <2>3. WorkersOK'
    BY <1>2 DEF ChildSubmits, TypeInv, WorkersOK, WorkerOK, WorkerRecord
  <2> QED
    BY <1>2, <2>2, <2>3 DEF ChildSubmits, TypeInv, TablesOK, RunsOK, DiskOK, UsedOK, CallsOK, RunVars
<1>3. ASSUME NEW j \in Refs, JobMoves(j) PROVE TypeInv'
  <2>1. PICK s \in JobStates : jobs' = [jobs EXCEPT ![j] = s]
    BY <1>3 DEF JobMoves
  <2>2. jobs' \in [Refs -> RemoteStates \cup {"absent"}]
    BY <2>1, ConstantsAssumption DEF TypeInv, TablesOK
  <2> QED
    BY <1>3, <2>2 DEF JobMoves, TypeInv, TablesOK, RunsOK, DiskOK, UsedOK, WorkersOK, CallsOK, RunVars
<1> QED BY <1>1, <1>2, <1>3 DEF OutsideStep

LEMMA CrashTypes ==
    ASSUME TypeInv, Crash
    PROVE  TypeInv'
<1>1. WorkersOK'
  BY DEF Crash, TypeInv, WorkersOK, WorkerOK, WorkerRecord, IdleWorker, WorkerPc, ChildStates
<1>2. CallsOK'
  BY DEF Crash, TypeInv, CallsOK, CallOK, CallRecord, IdleCall, CallPc
<1>3. RunsOK'
  BY DEF Crash, Restored, TypeInv, TablesOK, RunsOK, DiskOK
<1>4. DiskOK' /\ UsedOK'
  BY DEF Crash, TypeInv, TablesOK, DiskOK, UsedOK
<1>5. processes' \in [Runs -> Workers \cup {NoWorker}] /\ UNCHANGED <<workspace, jobs>>
  BY DEF Crash, HostRest
<1> QED BY <1>1, <1>2, <1>3, <1>4, <1>5 DEF TypeInv, TablesOK

-----------------------------------------------------------------------------
(* The commands. *)

\* What a step of a command leaves alone when it changes the tables only.
LEMMA UpdatingTypes ==
    ASSUME TypeInv, NEW c \in Callers, NEW record \in Record, NEW saved \in BOOLEAN,
           UpdateRun(saved, call[c].run, record), call[c].pc # "idle",
           CallsOK', UNCHANGED <<processes, worker, HostRest>>
    PROVE  TypeInv'
<1>1. RunsOK' /\ DiskOK' /\ UsedOK'
  BY UpdateRunTypes DEF TypeInv, CallsOK, CallOK
<1> QED BY <1>1 DEF TypeInv, TablesOK, WorkersOK, HostRest

LEMMA UnchangedTypes ==
    ASSUME TypeInv, CallsOK', UsedOK', UNCHANGED <<RunVars, processes, worker, HostRest>>
    PROVE  TypeInv'
BY DEF TypeInv, TablesOK, RunsOK, DiskOK, WorkersOK, RunVars, HostRest

LEMMA TrackedIsRecord ==
    ASSUME RunsOK, NEW r \in Runs, Tracked(r)
    PROVE  runs[r] \in Record
BY DEF RunsOK, Tracked

\* Issuing a command, and building the record of a start.
LEMMA IssueTypes ==
    ASSUME TypeInv, NEW c \in Callers, NEW r \in Runs,
           (\E op \in AllOps : Issue(c, op, r)) \/ (\E e \in Executors : StartBuild(c, r, e))
    PROVE  TypeInv'
<1>1. CASE \E op \in AllOps : Issue(c, op, r)
  <2>1. PICK op \in AllOps : Issue(c, op, r)
    BY <1>1
  <2>2. op \in CallPc \ {"idle", "start", "start_insert", "inspect_cli"}
    BY <2>1 DEF Issue, AllOps, CallPc
  <2>3. CallsOK'
    BY <2>1, <2>2 DEF Issue, TypeInv, CallsOK, CallOK, CallRecord, IdleCall
  <2>4. UsedOK'
    BY <2>1, CountedTypes DEF Issue, TypeInv, TablesOK
  <2> QED BY <2>1, <2>3, <2>4, UnchangedTypes DEF Issue
<1>2. CASE \E e \in Executors : StartBuild(c, r, e)
  <2>1. PICK e \in Executors : StartBuild(c, r, e)
    BY <1>2
  <2> DEFINE record == [executor |-> e, home |-> workspace, state |-> "starting",
                        exit |-> "none", ref |-> NoRef, history |-> <<"created">>]
  <2>2. record \in Record
    BY ConstantsAssumption DEF TypeInv, TablesOK, Record, RunStates, Kinds
  <2>3. CallsOK'
    BY <2>1, <2>2 DEF StartBuild, TypeInv, CallsOK, CallOK, CallRecord, IdleCall, CallPc
  <2>4. UsedOK'
    BY <2>1, CountedTypes DEF StartBuild, TypeInv, TablesOK
  <2> QED BY <2>1, <2>3, <2>4, UnchangedTypes DEF StartBuild
<1> QED BY <1>1, <1>2

LEMMA StartTypes ==
    ASSUME TypeInv, NEW c \in Callers, StartPersist(c) \/ StartInsert(c)
    PROVE  TypeInv'
<1>1. call[c] \in CallRecord /\ call[c].run \in Runs /\ call[c].record \in Record
  BY DEF StartPersist, StartInsert, CallAt, TypeInv, CallsOK, CallOK
<1>2. CASE StartPersist(c)
  <2>1. PICK saved \in BOOLEAN :
            /\ Persist(saved, call[c].run, call[c].record)
            /\ IF saved THEN CallGoes(c, "start_insert") ELSE Return(c)
    BY <1>2 DEF StartPersist
  <2>2. DiskOK' /\ UsedOK'
    BY <1>1, <2>1, PersistTypes DEF TypeInv
  <2>3. CallsOK'
    <3>1. CASE CallGoes(c, "start_insert")
      BY <1>1, <3>1 DEF CallGoes, TypeInv, CallsOK, CallOK, CallRecord, CallPc
    <3> QED BY <2>1, <3>1, ReturnTypes DEF TypeInv
  <2> QED
    BY <1>2, <2>2, <2>3 DEF StartPersist, TypeInv, TablesOK, RunsOK, WorkersOK, HostRest
<1>3. CASE StartInsert(c)
  <2>1. RunsOK' /\ DiskOK' /\ CallsOK'
    BY <1>1, <1>3, ReturnTypes DEF StartInsert, TypeInv, TablesOK, RunsOK, DiskOK
  <2>2. UsedOK' /\ WorkersOK'
    <3>1. CASE (\E w \in Workers : WorkerAt(w, "idle") /\ Launch(w, call[c].run)) /\ UNCHANGED used
      BY <1>1, <3>1, LaunchTypes DEF TypeInv, TablesOK, UsedOK
    <3>2. CASE Fault /\ UNCHANGED worker
      BY <3>2, FaultTypes DEF TypeInv, TablesOK, WorkersOK
    <3> QED BY <1>3, <3>1, <3>2 DEF StartInsert
  <2> QED BY <1>3, <2>1, <2>2 DEF StartInsert, TypeInv, TablesOK, HostRest
<1> QED BY <1>2, <1>3

LEMMA InspectTypes ==
    ASSUME TypeInv, NEW c \in Callers, InspectSnapshot(c) \/ InspectCli(c) \/ InspectApply(c)
    PROVE  TypeInv'
<1> DEFINE r == call[c].run
<1>1. call[c] \in CallRecord /\ CallOK(call[c]) /\ call[c].pc # "idle" /\ r \in Runs
  BY DEF InspectSnapshot, InspectCli, InspectApply, CallAt, TypeInv, CallsOK, CallOK
<1>2. CASE InspectSnapshot(c)
  <2>1. CASE /\ Tracked(r) /\ runs[r].ref # NoRef
             /\ call' = [call EXCEPT ![c].pc = "inspect_cli", ![c].ref = runs[r].ref]
    <3>1. runs[r].ref \in Refs
      BY <1>1, <2>1, TrackedIsRecord DEF TypeInv, TablesOK, Record
    <3>2. CallsOK'
      BY <1>1, <2>1, <3>1 DEF TypeInv, CallsOK, CallOK, CallRecord, CallPc
    <3> QED BY <1>2, <3>2, UnchangedTypes DEF InspectSnapshot, TypeInv, TablesOK, UsedOK
  <2>2. CASE Return(c)
    BY <1>2, <2>2, ReturnTypes, UnchangedTypes DEF InspectSnapshot, TypeInv, TablesOK, UsedOK
  <2> QED BY <1>2, <2>1, <2>2 DEF InspectSnapshot
<1>3. CASE InspectCli(c)
  <2>1. ASSUME NEW answer \in {jobs[call[c].ref], "none"},
               call' = [call EXCEPT ![c].pc = "inspect_apply", ![c].seen = answer]
        PROVE  CallsOK'
    <3>1. answer \in RemoteStates \cup {"absent", "none"}
      BY <1>1, <1>3 DEF InspectCli, CallAt, CallOK, TypeInv, TablesOK
    <3> QED BY <1>1, <2>1, <3>1, ZenonT(60) DEF TypeInv, CallsOK, CallOK, CallRecord, CallPc
  <2>2. CallsOK'
    BY <1>3, <2>1, ReturnTypes DEF InspectCli, TypeInv
  <2> QED BY <1>3, <2>2, UnchangedTypes DEF InspectCli, TypeInv, TablesOK, UsedOK
<1>4. CASE InspectApply(c)
  <2> DEFINE record == [runs[r] EXCEPT !.state =
                           IF call[c].seen \in RemoteStates THEN call[c].seen ELSE @]
  <2>1. record \in Record
    BY <1>1, <1>4, TrackedIsRecord DEF InspectApply, TypeInv, TablesOK, Record, RunStates
  <2> QED
    BY <1>1, <1>4, <2>1, ReturnTypes, UpdatingTypes DEF InspectApply, TypeInv
<1> QED BY <1>2, <1>3, <1>4

\* Of the steps of a cancellation only the last writes the record.
LEMMA CancelTypes ==
    ASSUME TypeInv, NEW c \in Callers,
           CancelLookup(c) \/ CancelKill(c) \/ CancelRemote(c) \/ CancelCli(c) \/ CancelMark(c)
    PROVE  TypeInv'
<1> DEFINE r == call[c].run
<1>1. call[c] \in CallRecord /\ CallOK(call[c]) /\ call[c].pc # "idle" /\ r \in Runs
  BY DEF CancelLookup, CancelKill, CancelRemote, CancelCli, CancelMark, CallAt, TypeInv, CallsOK, CallOK
<1>2. CASE CancelLookup(c)
  <2>1. CallsOK'
    BY <1>1, <1>2, CallGoesTypes, ReturnTypes DEF CancelLookup, TypeInv, CallPc
  <2>2. UsedOK'
    BY <1>2, FaultTypes DEF CancelLookup, TypeInv, TablesOK, UsedOK
  <2> QED BY <1>2, <2>1, <2>2, UnchangedTypes DEF CancelLookup
<1>3. CASE CancelKill(c)
  <2>1. CallsOK'
    BY <1>1, <1>3, CallGoesTypes, ReturnTypes DEF CancelKill, TypeInv, CallPc
  <2>2. UsedOK'
    BY <1>3, FaultTypes DEF CancelKill, TypeInv, TablesOK, UsedOK
  <2>3. WorkersOK'
    BY <1>3 DEF CancelKill, TypeInv, WorkersOK, WorkerOK, WorkerRecord, ChildStates
  <2> QED BY <1>3, <2>1, <2>2, <2>3 DEF CancelKill, TypeInv, TablesOK, RunsOK, DiskOK, RunVars, HostRest
<1>4. CASE CancelRemote(c)
  <2>1. CASE /\ Tracked(r)
             /\ call' = [call EXCEPT ![c].pc = "cancel_cli", ![c].ref = runs[r].ref]
    <3>1. runs[r].ref \in Refs \cup {NoRef}
      BY <1>1, <2>1, TrackedIsRecord DEF TypeInv, TablesOK, Record
    <3>2. CallsOK'
      BY <1>1, <2>1, <3>1, ZenonT(60) DEF TypeInv, CallsOK, CallOK, CallRecord, CallPc
    <3> QED BY <1>4, <3>2, UnchangedTypes DEF CancelRemote, TypeInv, TablesOK, UsedOK
  <2>2. CASE CallGoes(c, "cancel_mark") \/ Return(c)
    BY <1>1, <1>4, <2>2, CallGoesTypes, ReturnTypes, UnchangedTypes
    DEF CancelRemote, TypeInv, TablesOK, UsedOK, CallPc
  <2> QED BY <1>4, <2>1, <2>2 DEF CancelRemote
<1>5. CASE CancelCli(c)
  <2>1. CallsOK'
    BY <1>1, <1>5, CallGoesTypes DEF CancelCli, TypeInv, CallPc
  <2>2. jobs' \in [Refs -> RemoteStates \cup {"absent"}]
    BY <1>5 DEF CancelCli, TypeInv, TablesOK, RemoteStates, Terminal
  <2> QED BY <1>5, <2>1, <2>2 DEF CancelCli, TypeInv, TablesOK, RunsOK, DiskOK, UsedOK, WorkersOK, RunVars
<1>6. CASE CancelMark(c)
  <2>1. CASE Tracked(r)
    <3>1. [runs[r] EXCEPT !.state = "cancelled"] \in Record
      BY <1>1, <2>1, TrackedIsRecord DEF TypeInv, TablesOK, Record, RunStates, RemoteStates, Terminal
    <3>2. Noting("cancelled", [runs[r] EXCEPT !.state = "cancelled"]) \in Record
      BY <3>1, NotingIsRecord DEF Kinds
    <3> QED BY <1>1, <1>6, <2>1, <3>2, ReturnTypes, UpdatingTypes DEF CancelMark, TypeInv
  <2>2. CASE ~Tracked(r)
    BY <1>6, <2>2, ReturnTypes, UnchangedTypes DEF CancelMark, TypeInv, TablesOK, UsedOK
  <2> QED BY <2>1, <2>2
<1> QED BY <1>2, <1>3, <1>4, <1>5, <1>6

LEMMA FetchTypes ==
    ASSUME TypeInv, NEW c \in Callers, FetchBegin(c) \/ FetchEnd(c)
    PROVE  TypeInv'
<1> DEFINE r == call[c].run
<1>1. call[c].pc # "idle" /\ r \in Runs
  BY DEF FetchBegin, FetchEnd, CallAt, TypeInv, CallsOK, CallOK
<1>2. CallsOK' /\ UNCHANGED <<processes, worker, HostRest>>
  BY <1>1, CallGoesTypes, ReturnTypes DEF FetchBegin, FetchEnd, TypeInv, CallPc
<1>3. ASSUME NEW kind \in {"fetch_started", "fetch_finished", "fetch_failed"}, Tracked(r)
      PROVE  Noting(kind, runs[r]) \in Record
  BY <1>1, <1>3, TrackedIsRecord, NotingIsRecord DEF TypeInv, TablesOK, Kinds
<1>4. CASE FetchBegin(c)
  <2>1. CASE Tracked(r) /\ \E saved \in BOOLEAN : UpdateRun(saved, r, Noting("fetch_started", runs[r]))
    BY <1>1, <1>2, <1>3, <2>1, UpdatingTypes
  <2>2. CASE UNCHANGED <<RunVars, used>>
    BY <1>2, <2>2, UnchangedTypes DEF TypeInv, TablesOK, UsedOK
  <2> QED BY <1>4, <2>1, <2>2 DEF FetchBegin
<1>5. CASE FetchEnd(c)
  <2>1. CASE Tracked(r) /\ \E kind \in {"fetch_finished", "fetch_failed"}, saved \in BOOLEAN :
                               UpdateRun(saved, r, Noting(kind, runs[r]))
    BY <1>1, <1>2, <1>3, <2>1, UpdatingTypes
  <2>2. CASE UNCHANGED <<RunVars, used>> \/ (Fault /\ UNCHANGED RunVars)
    BY <1>2, <2>2, FaultTypes, UnchangedTypes DEF TypeInv, TablesOK, UsedOK
  <2> QED BY <1>5, <2>1, <2>2 DEF FetchEnd
<1> QED BY <1>4, <1>5

LEMMA RetryTypes ==
    ASSUME TypeInv, NEW c \in Callers, RetryTake(c) \/ RetryCli(c) \/ RetryApply(c)
    PROVE  TypeInv'
<1> DEFINE r == call[c].run
<1>1. call[c] \in CallRecord /\ CallOK(call[c]) /\ call[c].pc # "idle" /\ r \in Runs
  BY DEF RetryTake, RetryCli, RetryApply, CallAt, TypeInv, CallsOK, CallOK
<1>2. CASE RetryTake(c)
  <2>1. CASE Tracked(r) /\ call' = [call EXCEPT ![c].pc = "retry_cli", ![c].ref = runs[r].ref]
    <3>1. runs[r].ref \in Refs \cup {NoRef}
      BY <1>1, <2>1, TrackedIsRecord DEF TypeInv, TablesOK, Record
    <3>2. CallsOK'
      BY <1>1, <2>1, <3>1, ZenonT(60) DEF TypeInv, CallsOK, CallOK, CallRecord, CallPc
    <3> QED BY <1>2, <3>2, UnchangedTypes DEF RetryTake, TypeInv, TablesOK, UsedOK
  <2>2. CASE Return(c)
    BY <1>2, <2>2, ReturnTypes, UnchangedTypes DEF RetryTake, TypeInv, TablesOK, UsedOK
  <2> QED BY <1>2, <2>1, <2>2 DEF RetryTake
<1>3. CASE RetryCli(c)
  <2>1. CASE Return(c) /\ UNCHANGED jobs
    BY <1>3, <2>1, ReturnTypes, UnchangedTypes DEF RetryCli, TypeInv, TablesOK, UsedOK, HostRest
  <2>2. ASSUME NEW j \in {call[c].ref} \cup {k \in Refs : jobs[k] = "absent"},
               NEW s \in JobStates \ Terminal, NEW printed \in {j, NoRef},
               jobs' = [jobs EXCEPT ![j] = s],
               call' = [call EXCEPT ![c].pc = "retry_apply", ![c].ref = printed]
        PROVE  TypeInv'
    <3>1. jobs' \in [Refs -> RemoteStates \cup {"absent"}]
      BY <2>2, ConstantsAssumption DEF TypeInv, TablesOK
    <3>2. CallsOK'
      BY <1>1, <2>2, ZenonT(60) DEF TypeInv, CallsOK, CallOK, CallRecord, CallPc
    <3> QED
      BY <1>3, <3>1, <3>2 DEF RetryCli, TypeInv, TablesOK, RunsOK, DiskOK, UsedOK, WorkersOK, RunVars
  <2> QED BY <1>3, <2>1, <2>2 DEF RetryCli
<1>4. CASE RetryApply(c)
  <2> DEFINE record == [runs[r] EXCEPT !.ref = IF call[c].ref # NoRef THEN call[c].ref ELSE @,
                                       !.state = "queued"]
  <2>1. CASE Tracked(r)
    <3>1. record \in Record
      <4>1. runs[r] \in Record
        BY <1>1, <2>1, TrackedIsRecord DEF TypeInv, TablesOK
      <4>2. (IF call[c].ref # NoRef THEN call[c].ref ELSE runs[r].ref) \in Refs \cup {NoRef}
        BY <1>1, <4>1 DEF Record, CallRecord
      <4>3. "queued" \in RunStates
        BY DEF RunStates, RemoteStates
      <4> QED BY <4>1, <4>2, <4>3 DEF Record
    <3>2. Noting("retried", record) \in Record
      BY <3>1, NotingIsRecord DEF Kinds
    <3> QED BY <1>1, <1>4, <2>1, <3>2, ReturnTypes, UpdatingTypes DEF RetryApply, TypeInv
  <2>2. CASE ~Tracked(r)
    BY <1>4, <2>2, ReturnTypes, UnchangedTypes DEF RetryApply, TypeInv, TablesOK, UsedOK
  <2> QED BY <2>1, <2>2
<1> QED BY <1>2, <1>3, <1>4

LEMMA ResumeTypes ==
    ASSUME TypeInv, NEW c \in Callers,
           ResumeCheckRef(c) \/ ResumeCheckProcess(c) \/ ResumeLaunch(c)
    PROVE  TypeInv'
<1> DEFINE r == call[c].run
<1>1. call[c].pc # "idle" /\ r \in Runs
  BY DEF ResumeCheckRef, ResumeCheckProcess, ResumeLaunch, CallAt, TypeInv, CallsOK, CallOK
<1>2. CallsOK'
  BY <1>1, CallGoesTypes, ReturnTypes
  DEF ResumeCheckRef, ResumeCheckProcess, ResumeLaunch, TypeInv, CallPc
<1>3. CASE ResumeCheckRef(c) \/ ResumeCheckProcess(c)
  BY <1>2, <1>3, UnchangedTypes DEF ResumeCheckRef, ResumeCheckProcess, TypeInv, TablesOK, UsedOK
<1>4. CASE ResumeLaunch(c)
  <2> DEFINE record == Noting("resumed", [runs[r] EXCEPT !.state = "starting"])
  <2>1. UNCHANGED <<processes, HostRest>>
    BY <1>4 DEF ResumeLaunch
  <2>2. CASE ~Tracked(r) /\ UNCHANGED <<RunVars, worker, used>>
    BY <1>2, <2>1, <2>2, UnchangedTypes DEF TypeInv, TablesOK, UsedOK
  <2>3. Tracked(r) => record \in Record
    <3>1. Tracked(r) => [runs[r] EXCEPT !.state = "starting"] \in Record
      BY <1>1, TrackedIsRecord DEF TypeInv, TablesOK, Record, RunStates
    <3> QED BY <3>1, NotingIsRecord DEF Kinds
  <2>4. CASE /\ Tracked(r)
             /\ UpdateRun(TRUE, r, record)
             /\ \E w \in Workers : WorkerAt(w, "idle") /\ Launch(w, r)
    <3>1. RunsOK' /\ DiskOK' /\ UsedOK'
      BY <1>1, <2>3, <2>4, UpdateRunTypes DEF TypeInv
    <3>2. WorkersOK'
      BY <1>1, <2>4, LaunchTypes DEF TypeInv
    <3> QED BY <1>2, <2>1, <3>1, <3>2 DEF TypeInv, TablesOK, HostRest
  <2>5. CASE /\ Tracked(r)
             /\ runs' = [runs EXCEPT ![r] = record]
             /\ Fault
             /\ disk' \in {disk, [disk EXCEPT ![workspace][r] = record]}
             /\ UNCHANGED worker
    <3>1. RunsOK' /\ DiskOK'
      BY <1>1, <2>3, <2>5, SMTT(30) DEF TypeInv, TablesOK, RunsOK, DiskOK
    <3>2. UsedOK' /\ WorkersOK'
      BY <2>5, FaultTypes DEF TypeInv, TablesOK, WorkersOK
    <3> QED BY <1>2, <2>1, <3>1, <3>2 DEF TypeInv, TablesOK, HostRest
  <2> QED BY <1>4, <2>2, <2>4, <2>5 DEF ResumeLaunch
<1> QED BY <1>3, <1>4

-----------------------------------------------------------------------------
(* Type correctness. *)

LEMMA InitTypes == Init => TypeInv
BY DEF Init, TypeInv, TablesOK, RunsOK, DiskOK, UsedOK, WorkersOK, WorkerOK, CallsOK, CallOK,
       WorkerRecord, CallRecord, IdleWorker, IdleCall, WorkerPc, CallPc, ChildStates, RemoteStates

LEMMA NextTypes == TypeInv /\ [Next]_vars => TypeInv'
<1> SUFFICES ASSUME TypeInv, [Next]_vars PROVE TypeInv'
  OBVIOUS
<1>1. ASSUME NEW w \in Workers, WorkerStep(w) PROVE TypeInv'
  BY <1>1, BeginTypes, SpawnTypes, PollingTypes, FinishTypes, FailTypes DEF WorkerStep
<1>2. ASSUME NEW c \in Callers, HandlerStep(c) PROVE TypeInv'
  BY <1>2, StartTypes, InspectTypes, CancelTypes, FetchTypes, RetryTypes, ResumeTypes DEF HandlerStep
<1>3. ASSUME NEW c \in Callers, CommandStep(c) PROVE TypeInv'
  BY <1>2, <1>3, IssueTypes DEF CommandStep
<1>4. CASE UNCHANGED vars
  BY <1>4 DEF vars, TypeInv, TablesOK, RunsOK, DiskOK, UsedOK, WorkersOK, CallsOK
<1> QED BY <1>1, <1>3, <1>4, OutsideTypes, CrashTypes DEF Next

\* Every state the host reaches is well typed, whatever the threads, commands,
\* failed calls and crashes do: in particular no step reads the exit status of a
\* child that has not exited, or starts a run without a record.
THEOREM TypeCorrect == Spec => []TypeOK
<1>1. Spec => []TypeInv
  BY InitTypes, NextTypes, PTL DEF Spec
<1> QED BY <1>1, TypeInvIsTypeOK, PTL

-----------------------------------------------------------------------------
(* The records on disk.  A start is the one step that enters a run; until it *)
(* has, no other thread or command knows the run, so what the start wrote is *)
(* still there.  Every other step writes what it has just put in the table.  *)

Extends(longer, shorter) ==
    /\ Len(shorter) <= Len(longer)
    /\ \A i \in 1..Len(shorter) : shorter[i] = longer[i]

Covered == \A r \in Runs : Tracked(r) =>
    Saved(r) # NoRecord /\ Extends(runs[r].history, Saved(r).history)

Starting == {"start", "start_insert"}

StartApart(c) ==
    /\ ~Tracked(call[c].run)
    /\ \A d \in Callers \ {c} : call[d].run # call[c].run
    /\ Saved(call[c].run) = IF call[c].pc = "start" THEN NoRecord ELSE call[c].record

StartsApart == \A c \in Callers : call[c].pc \in Starting => StartApart(c)

LaunchesSaved == \A w \in Workers : worker[w].pc # "idle" => Saved(worker[w].run) # NoRecord

DiskInv == TypeInv /\ Covered /\ StartsApart /\ LaunchesSaved

\* What every step but a start and a crash does.
TablesGrow ==
    /\ workspace' = workspace
    /\ \A r \in Runs : Tracked(r)' <=> Tracked(r)
    /\ \A r \in Runs : Saved(r) # NoRecord => Saved(r)' # NoRecord
    /\ \A r \in Runs : ~Tracked(r) => Saved(r)' = Saved(r)
    /\ Covered'

CallsGoOn == \A c \in Callers :
    \/ call'[c] = call[c]
    \/ /\ call'[c].pc \notin Starting
       /\ \/ call'[c].run \in {call[c].run, NoRun}
          \/ call'[c].run \in Runs /\ Tracked(call'[c].run)

WorkersGoOn == \A w \in Workers :
    \/ worker'[w].pc = "idle"
    \/ worker[w].pc # "idle" /\ worker'[w].run = worker[w].run
    \/ worker'[w].run \in Runs /\ Saved(worker'[w].run) # NoRecord

\* Together they keep the invariant.
LEMMA GoingOnKeepsDiskInv ==
    ASSUME DiskInv, TypeInv', TablesGrow, CallsGoOn, WorkersGoOn
    PROVE  DiskInv'
<1>1. StartsApart'
  <2> SUFFICES ASSUME NEW c \in Callers, call'[c].pc \in Starting
               PROVE  StartApart(c)'
    BY DEF StartsApart
  <2>1. call'[c] = call[c]
    BY DEF CallsGoOn
  <2>2. call[c].run \in Runs
    BY <2>1 DEF DiskInv, TypeInv, CallsOK, CallOK, Starting
  <2>3. ~Tracked(call[c].run) /\ ~Tracked(call[c].run)'
    BY <2>1, <2>2 DEF DiskInv, StartsApart, StartApart, TablesGrow, Tracked
  <2>4. Saved(call[c].run)' = Saved(call[c].run)
    BY <2>1, <2>2, <2>3 DEF TablesGrow, Saved
  <2>5. ASSUME NEW d \in Callers \ {c} PROVE call'[d].run # call'[c].run
    BY <2>1, <2>2, <2>3, SentinelsAssumption DEF DiskInv, StartsApart, StartApart, CallsGoOn
  <2> QED BY <2>1, <2>3, <2>4, <2>5 DEF DiskInv, StartsApart, StartApart, Tracked, Saved
<1>2. LaunchesSaved'
  <2> SUFFICES ASSUME NEW w \in Workers, worker'[w].pc # "idle"
               PROVE  (Saved(worker[w].run) # NoRecord)'
    BY DEF LaunchesSaved
  <2>1. worker'[w].run \in Runs /\ Saved(worker'[w].run) # NoRecord
    BY DEF DiskInv, LaunchesSaved, WorkersGoOn, TypeInv, WorkersOK, WorkerOK
  <2> QED BY <2>1 DEF TablesGrow, Saved
<1> QED BY <1>1, <1>2 DEF DiskInv, TablesGrow

LEMMA NotingExtends ==
    ASSUME NEW record \in Record, NEW kind \in Kinds
    PROVE  Extends(Noting(kind, record).history, record.history)
<1>1. record.history \in Seq(Kinds)
  BY DEF Record
<1>2. Noting(kind, record).history = Append(record.history, kind)
  BY DEF Noting, Record
<1> QED BY <1>1, <1>2 DEF Extends

\* A step that leaves table and disk alone.
LEMMA UnchangedGrows ==
    ASSUME Covered, UNCHANGED <<workspace, RunVars>>
    PROVE  TablesGrow
BY DEF Covered, TablesGrow, Tracked, Saved, RunVars

\* A step that updates a tracked run, saved or not, and only adds to its history.
LEMMA UpdateGrows ==
    ASSUME TypeInv, Covered, workspace' = workspace,
           NEW r \in Runs, Tracked(r), NEW record \in Record,
           Extends(record.history, runs[r].history),
           runs' = [runs EXCEPT ![r] = record],
           disk' \in {disk, [disk EXCEPT ![workspace][r] = record]}
    PROVE  TablesGrow
<1>1. record # NoRecord
  BY SentinelsAssumption
<1>2. workspace \in Workspaces /\ RunsOK /\ DiskOK
  BY DEF TypeInv, TablesOK
<1>3. \A q \in Runs : runs'[q] = IF q = r THEN record ELSE runs[q]
  BY <1>2 DEF RunsOK
<1>4. \A q \in Runs : Saved(q)' = Saved(q) \/ (q = r /\ Saved(q)' = record)
  BY <1>2 DEF DiskOK, Saved
<1>5. \A q \in Runs : Tracked(q)' <=> Tracked(q)
  BY <1>1, <1>3 DEF Tracked
<1>6. Extends(record.history, record.history)
  BY DEF Extends, Record
<1>7. Saved(r) # NoRecord /\ Extends(record.history, Saved(r).history)
  <2>1. Saved(r) # NoRecord /\ Extends(runs[r].history, Saved(r).history)
    BY DEF Covered
  <2>2. Saved(r) \in Record /\ runs[r] \in Record
    BY <1>2, <2>1 DEF DiskOK, RunsOK, Saved, Tracked
  <2>3. Len(Saved(r).history) \in Nat /\ Len(runs[r].history) \in Nat /\ Len(record.history) \in Nat
    BY <2>2 DEF Record
  <2> QED BY <2>1, <2>3 DEF Extends
<1>8. Covered'
  <2> SUFFICES ASSUME NEW q \in Runs, Tracked(q)'
               PROVE  (Saved(q) # NoRecord /\ Extends(runs[q].history, Saved(q).history))'
    BY DEF Covered
  <2>1. CASE q = r
    BY <1>1, <1>3, <1>4, <1>6, <1>7, <2>1
  <2>2. CASE q # r
    BY <1>3, <1>4, <1>5, <2>2 DEF Covered
  <2> QED BY <2>1, <2>2
<1> QED BY <1>1, <1>4, <1>5, <1>8 DEF TablesGrow

\* update_run with one more history entry.
LEMMA NotedUpdateGrows ==
    ASSUME DiskInv, workspace' = workspace, NEW r \in Runs, Tracked(r),
           NEW record \in Record, record.history = runs[r].history, NEW kind \in Kinds,
           NEW saved \in BOOLEAN, UpdateRun(saved, r, Noting(kind, record))
    PROVE  TablesGrow
<1>1. Noting(kind, record) \in Record /\ Extends(Noting(kind, record).history, runs[r].history)
  BY NotingIsRecord, NotingExtends
<1>2. /\ runs' = [runs EXCEPT ![r] = Noting(kind, record)]
      /\ disk' \in {disk, [disk EXCEPT ![workspace][r] = Noting(kind, record)]}
  BY DEF UpdateRun, Persist
<1> QED BY <1>1, <1>2, UpdateGrows DEF DiskInv

LEMMA WorkerMoveGoesOn ==
    ASSUME WorkersOK, NEW w \in Workers, worker[w].pc # "idle",
           \/ WorkerEnds(w)
           \/ \E pc \in WorkerPc : WorkerGoes(w, pc)
    PROVE  WorkersGoOn
BY DEF WorkersOK, WorkerRecord, WorkerEnds, WorkerGoes, WorkersGoOn, IdleWorker

LEMMA CallMoveGoesOn ==
    ASSUME CallsOK, NEW c \in Callers,
           \/ Return(c)
           \/ \E pc \in CallPc \ Starting : CallGoes(c, pc)
    PROVE  CallsGoOn
BY DEF CallsOK, CallRecord, Return, CallGoes, CallsGoOn, IdleCall, Starting

LEMMA WorkerStepGrows ==
    ASSUME DiskInv, NEW w \in Workers, WorkerStep(w)
    PROVE  TablesGrow /\ CallsGoOn /\ WorkersGoOn
<1> DEFINE r == worker[w].run
<1>1. worker[w].pc # "idle" /\ r \in Runs /\ worker[w] \in WorkerRecord
  BY DEF WorkerStep, BeginExecution, SpawnChild, RegisterChild, PollChild, WakeUp, UnregisterChild,
         FinishExecution, FailExecution, WorkerAt, DiskInv, TypeInv, WorkersOK, WorkerOK
<1>2. CallsGoOn /\ workspace' = workspace
  BY DEF WorkerStep, BeginExecution, SpawnChild, RegisterChild, PollChild, WakeUp, UnregisterChild,
         FinishExecution, FailExecution, CallsGoOn, HostRest
<1>3. CASE SpawnChild(w) \/ RegisterChild(w) \/ PollChild(w) \/ WakeUp(w) \/ UnregisterChild(w)
  <2>1. TablesGrow
    BY <1>2, <1>3, UnchangedGrows
    DEF SpawnChild, RegisterChild, PollChild, WakeUp, UnregisterChild, RunVars, DiskInv
  <2>2. WorkersGoOn
    <3>1. CASE worker' = [worker EXCEPT ![w].pc = "register", ![w].child = "alive"]
      BY <1>1, <3>1 DEF WorkersGoOn, DiskInv, TypeInv, WorkersOK, WorkerRecord
    <3>2. CASE \E pc \in WorkerPc : WorkerGoes(w, pc)
      BY <1>1, <3>2, WorkerMoveGoesOn DEF DiskInv, TypeInv
    <3> QED BY <1>3, <3>1, <3>2
            DEF SpawnChild, RegisterChild, PollChild, WakeUp, UnregisterChild, WorkerPc
  <2> QED BY <1>2, <2>1, <2>2
<1>4. CASE BeginExecution(w)
  <2> DEFINE record == [runs[r] EXCEPT !.state = IF runs[r].executor = "local"
                                                 THEN "running" ELSE "submitting"]
  <2>1. WorkersGoOn
    BY <1>1, <1>4, WorkerMoveGoesOn DEF BeginExecution, DiskInv, TypeInv, WorkerPc
  <2>2. CASE UNCHANGED RunVars
    BY <1>2, <2>1, <2>2, UnchangedGrows DEF DiskInv, RunVars
  <2>3. CASE Tracked(r) /\ \E saved \in BOOLEAN : UpdateRun(saved, r, Noting("execution_started", record))
    <3>1. record \in Record /\ record.history = runs[r].history
      BY <1>1, <2>3, TrackedIsRecord DEF DiskInv, TypeInv, TablesOK, Record, RunStates, RemoteStates
    <3> QED BY <1>1, <1>2, <2>1, <2>3, <3>1, NotedUpdateGrows DEF Kinds
  <2> QED BY <1>4, <2>2, <2>3 DEF BeginExecution
<1>5. CASE FinishExecution(w)
  <2> DEFINE state == SettledState(runs[r], worker[w].child, worker[w].out)
             record == [runs[r] EXCEPT !.exit = worker[w].child, !.ref = worker[w].out, !.state = state]
  <2>1. WorkersGoOn
    BY <1>1, <1>5, WorkerMoveGoesOn DEF FinishExecution, DiskInv, TypeInv, WorkerPc
  <2>2. CASE UNCHANGED RunVars
    BY <1>2, <2>1, <2>2, UnchangedGrows DEF DiskInv, RunVars
  <2>3. CASE Tracked(r) /\ \E saved \in BOOLEAN : UpdateRun(saved, r, Noting("execution_finished", record))
    <3>1. worker[w].child \in {"ok", "failed"} /\ runs[r] \in Record
      BY <1>1, <1>5, <2>3, TrackedIsRecord
      DEF FinishExecution, WorkerAt, DiskInv, TypeInv, TablesOK, WorkersOK, WorkerOK
    <3>2. state \in RunStates
      BY <3>1 DEF SettledState, RunStates, RemoteStates, Terminal
    <3>3. record \in Record /\ record.history = runs[r].history
      BY <1>1, <3>1, <3>2 DEF Record, WorkerRecord
    <3> QED BY <1>1, <1>2, <2>1, <2>3, <3>3, NotedUpdateGrows DEF Kinds
  <2> QED BY <1>5, <2>2, <2>3 DEF FinishExecution
<1>6. CASE FailExecution(w)
  <2> DEFINE record == [runs[r] EXCEPT !.state = IF @ = "cancelled" THEN @ ELSE "failed"]
  <2>1. WorkersGoOn
    BY <1>1, <1>6, WorkerMoveGoesOn DEF FailExecution, DiskInv, TypeInv, WorkerPc
  <2>2. CASE UNCHANGED RunVars
    BY <1>2, <2>1, <2>2, UnchangedGrows DEF DiskInv, RunVars
  <2>3. CASE Tracked(r) /\ \E saved \in BOOLEAN : UpdateRun(saved, r, Noting("execution_failed", record))
    <3>1. record \in Record /\ record.history = runs[r].history
      BY <1>1, <2>3, TrackedIsRecord DEF DiskInv, TypeInv, TablesOK, Record, RunStates, RemoteStates, Terminal
    <3> QED BY <1>1, <1>2, <2>1, <2>3, <3>1, NotedUpdateGrows DEF Kinds
  <2> QED BY <1>6, <2>2, <2>3 DEF FailExecution
<1> QED BY <1>3, <1>4, <1>5, <1>6 DEF WorkerStep

LEMMA OutsideStepGrows ==
    ASSUME DiskInv, OutsideStep
    PROVE  TablesGrow /\ CallsGoOn /\ WorkersGoOn
<1>1. TablesGrow /\ CallsGoOn
  BY UnchangedGrows
  DEF OutsideStep, ChildExits, ChildSubmits, JobMoves, CallsGoOn, RunVars, HostRest, DiskInv
<1>2. ASSUME NEW w \in Workers, ChildExits(w) PROVE WorkersGoOn
  <2>1. worker[w] \in WorkerRecord /\ worker[w].pc # "idle"
    BY <1>2 DEF ChildExits, DiskInv, TypeInv, WorkersOK, WorkerOK
  <2> QED
    BY <1>2, <2>1 DEF ChildExits, WorkersGoOn, DiskInv, TypeInv, WorkersOK, WorkerRecord, IdleWorker
<1>3. ASSUME NEW w \in Workers, NEW j \in Refs, ChildSubmits(w, j) PROVE WorkersGoOn
  <2>1. worker[w] \in WorkerRecord /\ worker[w].pc # "idle"
    BY <1>3 DEF ChildSubmits, DiskInv, TypeInv, WorkersOK, WorkerOK
  <2> QED BY <1>3, <2>1 DEF ChildSubmits, WorkersGoOn, DiskInv, TypeInv, WorkersOK, WorkerRecord
<1>4. ASSUME NEW j \in Refs, JobMoves(j) PROVE WorkersGoOn
  BY <1>4 DEF JobMoves, WorkersGoOn, DiskInv, TypeInv, WorkersOK
<1> QED BY <1>1, <1>2, <1>3, <1>4 DEF OutsideStep

\* The steps of a command, a start excepted, that write no record.
LEMMA QuietStepGrows ==
    ASSUME DiskInv, NEW c \in Callers, call[c].pc # "idle", UNCHANGED <<RunVars, workspace, worker>>,
           \E pc \in CallPc \ Starting, ref \in Refs \cup {NoRef},
              seen \in RemoteStates \cup {"absent", "none"} :
              call' \in {[call EXCEPT ![c].pc = pc], [call EXCEPT ![c].pc = pc, ![c].ref = ref],
                         [call EXCEPT ![c].pc = pc, ![c].seen = seen], [call EXCEPT ![c] = IdleCall]}
    PROVE  TablesGrow /\ CallsGoOn /\ WorkersGoOn
<1>1. TablesGrow
  BY UnchangedGrows DEF DiskInv
<1>2. CallsGoOn
  BY DEF CallsGoOn, DiskInv, TypeInv, CallsOK, CallRecord, IdleCall, Starting
<1>3. WorkersGoOn
  BY DEF WorkersGoOn, DiskInv, TypeInv, WorkersOK, LaunchesSaved
<1> QED BY <1>1, <1>2, <1>3

LEMMA InspectGrows ==
    ASSUME DiskInv, NEW c \in Callers, InspectSnapshot(c) \/ InspectCli(c) \/ InspectApply(c)
    PROVE  TablesGrow /\ CallsGoOn /\ WorkersGoOn
<1> DEFINE r == call[c].run
<1>1. call[c] \in CallRecord /\ CallOK(call[c]) /\ call[c].pc # "idle" /\ r \in Runs
  BY DEF InspectSnapshot, InspectCli, InspectApply, CallAt, DiskInv, TypeInv, CallsOK, CallOK
<1>2. CASE InspectSnapshot(c)
  <2>1. Tracked(r) => runs[r].ref \in Refs \cup {NoRef}
    BY <1>1, TrackedIsRecord DEF DiskInv, TypeInv, TablesOK, Record
  <2>2. \/ call' = [call EXCEPT ![c] = IdleCall]
        \/ \E ref \in Refs \cup {NoRef} : call' = [call EXCEPT ![c].pc = "inspect_cli", ![c].ref = ref]
    BY <1>2, <2>1 DEF InspectSnapshot, Return
  <2>3. "inspect_cli" \in CallPc \ Starting /\ "none" \in RemoteStates \cup {"absent", "none"}
    BY DEF CallPc, Starting
  <2> QED BY <1>1, <1>2, <2>2, <2>3, QuietStepGrows DEF InspectSnapshot, HostRest, RunVars
<1>3. CASE InspectCli(c)
  <2>1. jobs[call[c].ref] \in RemoteStates \cup {"absent", "none"}
    BY <1>1, <1>3 DEF InspectCli, CallAt, CallOK, DiskInv, TypeInv, TablesOK
  <2>2. \/ call' = [call EXCEPT ![c] = IdleCall]
        \/ \E seen \in RemoteStates \cup {"absent", "none"} :
              call' = [call EXCEPT ![c].pc = "inspect_apply", ![c].seen = seen]
    BY <1>3, <2>1 DEF InspectCli, Return
  <2>3. "inspect_apply" \in CallPc \ Starting /\ NoRef \in Refs \cup {NoRef}
    BY DEF CallPc, Starting
  <2> QED BY <1>1, <1>3, <2>2, <2>3, QuietStepGrows DEF InspectCli, HostRest, RunVars
<1>4. CASE InspectApply(c)
  <2> DEFINE record == [runs[r] EXCEPT !.state =
                           IF call[c].seen \in RemoteStates THEN call[c].seen ELSE @]
  <2>1. runs[r] \in Record
    BY <1>1, <1>4, TrackedIsRecord DEF InspectApply, DiskInv, TypeInv, TablesOK
  <2>2. record \in Record /\ record.history = runs[r].history
    BY <2>1 DEF Record, RunStates
  <2>3. Extends(record.history, runs[r].history)
    BY <2>1, <2>2 DEF Extends, Record
  <2>4. /\ runs' = [runs EXCEPT ![r] = record]
        /\ disk' \in {disk, [disk EXCEPT ![workspace][r] = record]}
    BY <1>4 DEF InspectApply, UpdateRun, Persist
  <2>5. TablesGrow
    BY <1>1, <1>4, <2>2, <2>3, <2>4, UpdateGrows DEF InspectApply, DiskInv, HostRest
  <2>6. CallsGoOn
    BY <1>4, CallMoveGoesOn DEF InspectApply, DiskInv, TypeInv
  <2> QED BY <1>4, <2>5, <2>6 DEF InspectApply, WorkersGoOn, DiskInv, TypeInv, WorkersOK
<1> QED BY <1>2, <1>3, <1>4

LEMMA CancelGrows ==
    ASSUME DiskInv, NEW c \in Callers,
           CancelLookup(c) \/ CancelKill(c) \/ CancelRemote(c) \/ CancelCli(c) \/ CancelMark(c)
    PROVE  TablesGrow /\ CallsGoOn /\ WorkersGoOn
<1> DEFINE r == call[c].run
<1>1. call[c] \in CallRecord /\ call[c].pc # "idle" /\ r \in Runs
  BY DEF CancelLookup, CancelKill, CancelRemote, CancelCli, CancelMark, CallAt,
         DiskInv, TypeInv, CallsOK, CallOK
<1>2. CASE CancelLookup(c) \/ CancelKill(c) \/ CancelRemote(c) \/ CancelCli(c)
  <2>1. TablesGrow
    BY <1>2, UnchangedGrows
    DEF CancelLookup, CancelKill, CancelRemote, CancelCli, DiskInv, RunVars, HostRest
  <2>2. WorkersGoOn
    BY <1>2 DEF CancelLookup, CancelKill, CancelRemote, CancelCli, WorkersGoOn,
                DiskInv, TypeInv, WorkersOK, WorkerRecord
  <2>3. CallsGoOn
    <3>1. CASE Return(c) \/ \E pc \in CallPc \ Starting : CallGoes(c, pc)
      BY <3>1, CallMoveGoesOn DEF DiskInv, TypeInv
    <3>2. CASE call' = [call EXCEPT ![c].pc = "cancel_cli", ![c].ref = runs[r].ref]
      BY <3>2 DEF CallsGoOn, DiskInv, TypeInv, CallsOK, CallRecord, Starting
    <3> QED
      BY <1>2, <3>1, <3>2 DEF CancelLookup, CancelKill, CancelRemote, CancelCli, CallPc, Starting
  <2> QED BY <2>1, <2>2, <2>3
<1>3. CASE CancelMark(c)
  <2>1. CallsGoOn
    BY <1>3, CallMoveGoesOn DEF CancelMark, DiskInv, TypeInv
  <2>2. WorkersGoOn /\ workspace' = workspace
    BY <1>3 DEF CancelMark, WorkersGoOn, DiskInv, TypeInv, WorkersOK, HostRest
  <2>3. CASE ~Tracked(r)
    BY <1>3, <2>1, <2>2, <2>3, UnchangedGrows DEF CancelMark, DiskInv, RunVars
  <2>4. CASE Tracked(r)
    <3> DEFINE record == [runs[r] EXCEPT !.state = "cancelled"]
    <3>1. record \in Record /\ record.history = runs[r].history
      BY <1>1, <2>4, TrackedIsRecord
      DEF DiskInv, TypeInv, TablesOK, Record, RunStates, RemoteStates, Terminal
    <3> QED BY <1>1, <1>3, <2>1, <2>2, <2>4, <3>1, NotedUpdateGrows DEF CancelMark, Kinds
  <2> QED BY <2>3, <2>4
<1> QED BY <1>2, <1>3

LEMMA FetchGrows ==
    ASSUME DiskInv, NEW c \in Callers, FetchBegin(c) \/ FetchEnd(c)
    PROVE  TablesGrow /\ CallsGoOn /\ WorkersGoOn
<1> DEFINE r == call[c].run
<1>1. r \in Runs
  BY DEF FetchBegin, FetchEnd, CallAt, DiskInv, TypeInv, CallsOK, CallOK
<1>2. CallsGoOn
  BY CallMoveGoesOn DEF FetchBegin, FetchEnd, DiskInv, TypeInv, CallPc, Starting
<1>3. WorkersGoOn /\ workspace' = workspace
  BY DEF FetchBegin, FetchEnd, WorkersGoOn, DiskInv, TypeInv, WorkersOK, HostRest
<1>4. CASE UNCHANGED RunVars
  BY <1>2, <1>3, <1>4, UnchangedGrows DEF DiskInv, RunVars
<1>5. CASE Tracked(r) /\ \E kind \in {"fetch_started", "fetch_finished", "fetch_failed"}, saved \in BOOLEAN :
                            UpdateRun(saved, r, Noting(kind, runs[r]))
  <2>1. runs[r] \in Record
    BY <1>1, <1>5, TrackedIsRecord DEF DiskInv, TypeInv, TablesOK
  <2> QED BY <1>1, <1>2, <1>3, <1>5, <2>1, NotedUpdateGrows DEF Kinds
<1> QED BY <1>4, <1>5 DEF FetchBegin, FetchEnd

LEMMA RetryGrows ==
    ASSUME DiskInv, NEW c \in Callers, RetryTake(c) \/ RetryCli(c) \/ RetryApply(c)
    PROVE  TablesGrow /\ CallsGoOn /\ WorkersGoOn
<1> DEFINE r == call[c].run
<1>1. call[c] \in CallRecord /\ r \in Runs
  BY DEF RetryTake, RetryCli, RetryApply, CallAt, DiskInv, TypeInv, CallsOK, CallOK
<1>2. WorkersGoOn /\ workspace' = workspace
  BY DEF RetryTake, RetryCli, RetryApply, WorkersGoOn, DiskInv, TypeInv, WorkersOK, HostRest
<1>3. CallsGoOn
  <2>1. CASE Return(c)
    BY <2>1, CallMoveGoesOn DEF DiskInv, TypeInv
  <2>2. CASE \E ref : \/ call' = [call EXCEPT ![c].pc = "retry_cli", ![c].ref = ref]
                      \/ call' = [call EXCEPT ![c].pc = "retry_apply", ![c].ref = ref]
    BY <2>2 DEF CallsGoOn, DiskInv, TypeInv, CallsOK, CallRecord, Starting
  <2> QED BY <2>1, <2>2 DEF RetryTake, RetryCli, RetryApply
<1>4. CASE UNCHANGED RunVars
  BY <1>2, <1>3, <1>4, UnchangedGrows DEF DiskInv, RunVars
<1>5. CASE RetryApply(c) /\ Tracked(r)
  <2> DEFINE record == [runs[r] EXCEPT !.ref = IF call[c].ref # NoRef THEN call[c].ref ELSE @,
                                       !.state = "queued"]
  <2>1. runs[r] \in Record
    BY <1>1, <1>5, TrackedIsRecord DEF DiskInv, TypeInv, TablesOK
  <2>2. (IF call[c].ref # NoRef THEN call[c].ref ELSE runs[r].ref) \in Refs \cup {NoRef}
    BY <1>1, <2>1 DEF Record, CallRecord
  <2>3. record \in Record /\ record.history = runs[r].history
    BY <2>1, <2>2 DEF Record, RunStates, RemoteStates
  <2> QED BY <1>1, <1>2, <1>3, <1>5, <2>3, NotedUpdateGrows DEF RetryApply, Kinds
<1> QED BY <1>4, <1>5 DEF RetryTake, RetryCli, RetryApply, RunVars

LEMMA ResumeGrows ==
    ASSUME DiskInv, NEW c \in Callers,
           ResumeCheckRef(c) \/ ResumeCheckProcess(c) \/ ResumeLaunch(c)
    PROVE  TablesGrow /\ CallsGoOn /\ WorkersGoOn
<1> DEFINE r == call[c].run
           record == Noting("resumed", [runs[r] EXCEPT !.state = "starting"])
<1>1. r \in Runs
  BY DEF ResumeCheckRef, ResumeCheckProcess, ResumeLaunch, CallAt, DiskInv, TypeInv, CallsOK, CallOK
<1>2. CallsGoOn /\ workspace' = workspace
  BY CallMoveGoesOn
  DEF ResumeCheckRef, ResumeCheckProcess, ResumeLaunch, DiskInv, TypeInv, CallPc, Starting, HostRest
<1>3. CASE UNCHANGED RunVars /\ UNCHANGED worker
  BY <1>2, <1>3, UnchangedGrows DEF WorkersGoOn, DiskInv, TypeInv, WorkersOK, RunVars
<1>4. CASE /\ Tracked(r)
           /\ runs' = [runs EXCEPT ![r] = record]
           /\ disk' \in {disk, [disk EXCEPT ![workspace][r] = record]}
           /\ \/ UNCHANGED worker
              \/ \E w \in Workers : WorkerAt(w, "idle") /\ Launch(w, r)
  <2>1. runs[r] \in Record
    BY <1>1, <1>4, TrackedIsRecord DEF DiskInv, TypeInv, TablesOK
  <2>2. /\ [runs[r] EXCEPT !.state = "starting"] \in Record
        /\ [runs[r] EXCEPT !.state = "starting"].history = runs[r].history
    BY <2>1 DEF Record, RunStates
  <2>3. record \in Record /\ Extends(record.history, runs[r].history)
    BY <2>2, NotingIsRecord, NotingExtends DEF Kinds
  <2>4. TablesGrow
    BY <1>1, <1>2, <1>4, <2>3, UpdateGrows DEF DiskInv
  <2>5. Saved(r) # NoRecord
    BY <1>1, <1>4 DEF DiskInv, Covered
  <2>6. WorkersGoOn
    BY <1>1, <1>4, <2>5, ZenonT(60) DEF Launch, WorkersGoOn, DiskInv, TypeInv, WorkersOK, WorkerRecord, IdleWorker
  <2> QED BY <1>2, <2>4, <2>6
<1> QED
  BY <1>3, <1>4 DEF ResumeCheckRef, ResumeCheckProcess, ResumeLaunch, UpdateRun, Persist, RunVars

LEMMA IssueGrows ==
    ASSUME DiskInv, NEW c \in Callers, NEW r \in Runs, NEW op \in AllOps, Issue(c, op, r)
    PROVE  TablesGrow /\ CallsGoOn /\ WorkersGoOn
<1>1. op \notin Starting /\ Tracked(r)
  BY DEF Issue, Offered, AllOps, Starting
<1>2. CallsGoOn
  BY <1>1 DEF Issue, CallsGoOn, DiskInv, TypeInv, CallsOK, CallRecord, IdleCall
<1>3. TablesGrow
  BY UnchangedGrows DEF Issue, DiskInv, RunVars, HostRest
<1> QED BY <1>2, <1>3 DEF Issue, WorkersGoOn, DiskInv, TypeInv, WorkersOK

-----------------------------------------------------------------------------
(* The steps of a start, and the crash. *)

\* A new identifier is in no table, on no disk and in no other command.
LEMMA StartBuildKeepsDiskInv ==
    ASSUME DiskInv, TypeInv', NEW c \in Callers, NEW r \in Runs, NEW e \in Executors,
           StartBuild(c, r, e)
    PROVE  DiskInv'
<1>1. /\ ~Tracked(r) /\ Saved(r) = NoRecord
      /\ \A d \in Callers : call[d].run # r
  BY DEF StartBuild, Fresh, Saved, DiskInv, TypeInv, TablesOK
<1>2. \A q \in Runs : (Tracked(q)' <=> Tracked(q)) /\ Saved(q)' = Saved(q) /\ runs'[q] = runs[q]
  BY DEF StartBuild, Tracked, Saved, RunVars, HostRest
<1>3. /\ call'[c].pc = "start" /\ call'[c].run = r
      /\ \A d \in Callers \ {c} : call'[d] = call[d]
  BY DEF StartBuild, DiskInv, TypeInv, CallsOK, IdleCall
<1>4. Covered'
  BY <1>2 DEF Covered, DiskInv
<1>5. StartsApart'
  <2> SUFFICES ASSUME NEW d \in Callers, call'[d].pc \in Starting
               PROVE  StartApart(d)'
    BY DEF StartsApart
  <2>1. CASE d = c
    BY <1>1, <1>2, <1>3, <2>1 DEF StartApart, Tracked, Saved
  <2>2. CASE d # c
    <3>1. call[d].run \in Runs
      BY <1>3, <2>2 DEF DiskInv, TypeInv, CallsOK, CallOK, Starting
    <3> QED BY <1>1, <1>2, <1>3, <2>2, <3>1 DEF DiskInv, StartsApart, StartApart, Tracked, Saved
  <2> QED BY <2>1, <2>2
<1>6. LaunchesSaved'
  BY DEF StartBuild, LaunchesSaved, Saved, DiskInv, RunVars, HostRest
<1> QED BY <1>4, <1>5, <1>6 DEF DiskInv

LEMMA StartPersistKeepsDiskInv ==
    ASSUME DiskInv, TypeInv', NEW c \in Callers, StartPersist(c)
    PROVE  DiskInv'
<1> DEFINE r == call[c].run
<1>1. /\ r \in Runs /\ call[c].record \in Record /\ call[c].pc = "start"
      /\ ~Tracked(r) /\ Saved(r) = NoRecord
      /\ \A d \in Callers \ {c} : call[d].run # r
  BY DEF StartPersist, CallAt, DiskInv, TypeInv, CallsOK, CallOK, StartsApart, StartApart, Starting
<1>2. PICK saved \in BOOLEAN :
          /\ Persist(saved, r, call[c].record)
          /\ IF saved THEN CallGoes(c, "start_insert") ELSE Return(c)
  BY DEF StartPersist
<1>3. \A q \in Runs : Saved(q)' = IF saved /\ q = r THEN call[c].record ELSE Saved(q)
  <2>1. workspace' = workspace /\ workspace \in Workspaces /\ DiskOK
    BY DEF StartPersist, HostRest, DiskInv, TypeInv, TablesOK
  <2> QED BY <1>1, <1>2, <2>1 DEF Persist, Saved, DiskOK
<1>4. \A q \in Runs : (Tracked(q)' <=> Tracked(q)) /\ runs'[q] = runs[q]
  BY DEF StartPersist, Tracked
<1>5. \A d \in Callers \ {c} : call'[d] = call[d]
  BY <1>2 DEF CallGoes, Return, DiskInv, TypeInv, CallsOK
<1>6. \/ saved /\ call'[c] = [call[c] EXCEPT !.pc = "start_insert"]
      \/ ~saved /\ call'[c] = IdleCall
  BY <1>2 DEF CallGoes, Return, DiskInv, TypeInv, CallsOK
<1>7. Covered'
  BY <1>1, <1>3, <1>4 DEF Covered, DiskInv
<1>8. StartsApart'
  <2> SUFFICES ASSUME NEW d \in Callers, call'[d].pc \in Starting
               PROVE  StartApart(d)'
    BY DEF StartsApart
  <2>1. CASE d = c
    <3>1. /\ saved /\ call'[c].run = r /\ call'[c].pc = "start_insert"
          /\ call'[c].record = call[c].record
      BY <1>6, <2>1 DEF IdleCall, Starting, DiskInv, TypeInv, CallsOK, CallRecord
    <3> QED BY <1>1, <1>3, <1>4, <1>5, <2>1, <3>1 DEF StartApart, Tracked, Saved
  <2>2. CASE d # c
    <3>1. call'[d] = call[d] /\ call[d].run \in Runs /\ call[d].run # r
      BY <1>1, <1>5, <2>2 DEF DiskInv, TypeInv, CallsOK, CallOK, Starting
    <3>2. call'[c].run \in {r, NoRun}
      BY <1>6 DEF IdleCall, DiskInv, TypeInv, CallsOK, CallRecord
    <3>3. \A b \in Callers \ {d} : call'[b].run # call'[d].run
      BY <1>5, <3>1, <3>2, SentinelsAssumption DEF DiskInv, StartsApart, StartApart
    <3> QED BY <1>3, <1>4, <3>1, <3>3 DEF DiskInv, StartsApart, StartApart, Tracked, Saved
  <2> QED BY <2>1, <2>2
<1>9. LaunchesSaved'
  BY <1>1, <1>3, SentinelsAssumption
  DEF StartPersist, LaunchesSaved, DiskInv, TypeInv, WorkersOK, WorkerOK, Saved
<1> QED BY <1>7, <1>8, <1>9 DEF DiskInv

LEMMA StartInsertKeepsDiskInv ==
    ASSUME DiskInv, TypeInv', NEW c \in Callers, StartInsert(c)
    PROVE  DiskInv'
<1> DEFINE r == call[c].run
<1>1. /\ r \in Runs /\ call[c].record \in Record
      /\ Saved(r) = call[c].record /\ call[c].record # NoRecord
      /\ \A d \in Callers \ {c} : call[d].run # r
  BY SentinelsAssumption
  DEF StartInsert, CallAt, DiskInv, TypeInv, CallsOK, CallOK, StartsApart, StartApart, Starting
<1>2. \A q \in Runs : Saved(q)' = Saved(q)
  BY DEF StartInsert, Saved, HostRest
<1>3. \A q \in Runs : runs'[q] = IF q = r THEN call[c].record ELSE runs[q]
  BY DEF StartInsert, DiskInv, TypeInv, TablesOK, RunsOK
<1>4. call'[c] = IdleCall /\ \A d \in Callers \ {c} : call'[d] = call[d]
  BY DEF StartInsert, Return, DiskInv, TypeInv, CallsOK
<1>5. Covered'
  <2>1. Extends(call[c].record.history, call[c].record.history)
    BY <1>1 DEF Extends, Record
  <2> QED BY <1>1, <1>2, <1>3, <2>1 DEF Covered, Tracked, DiskInv
<1>6. StartsApart'
  <2> SUFFICES ASSUME NEW d \in Callers, call'[d].pc \in Starting
               PROVE  StartApart(d)'
    BY DEF StartsApart
  <2>1. d # c
    BY <1>4 DEF IdleCall, Starting
  <2>2. call'[d] = call[d] /\ call[d].run \in Runs /\ call[d].run # r
    BY <1>1, <1>4, <2>1 DEF DiskInv, TypeInv, CallsOK, CallOK, Starting
  <2>3. \A b \in Callers \ {d} : call'[b].run # call'[d].run
    BY <1>4, <2>2, SentinelsAssumption DEF DiskInv, StartsApart, StartApart, IdleCall
  <2> QED BY <1>2, <1>3, <2>2, <2>3 DEF DiskInv, StartsApart, StartApart, Tracked, Saved
<1>7. LaunchesSaved'
  <2> SUFFICES ASSUME NEW w \in Workers, worker'[w].pc # "idle"
               PROVE  (Saved(worker[w].run) # NoRecord)'
    BY DEF LaunchesSaved
  <2>1. CASE worker'[w] = worker[w]
    BY <1>2, <2>1 DEF DiskInv, LaunchesSaved, TypeInv, WorkersOK, WorkerOK, Saved
  <2>2. CASE worker'[w].run = r
    BY <1>1, <1>2, <2>2 DEF Saved
  <2> QED BY <2>1, <2>2 DEF StartInsert, Launch, DiskInv, TypeInv, WorkersOK, IdleWorker
<1> QED BY <1>5, <1>6, <1>7 DEF DiskInv

\* The restored table is what the disk says.
LEMMA CrashKeepsDiskInv ==
    ASSUME DiskInv, TypeInv', Crash
    PROVE  DiskInv'
<1>1. workspace' = workspace /\ disk' = disk /\ workspace \in Workspaces
  BY DEF Crash, HostRest, DiskInv, TypeInv, TablesOK
<1>2. \A r \in Runs : Tracked(r)' => runs'[r] = Saved(r)' /\ Saved(r)' \in Record
  BY <1>1 DEF Crash, Restored, Tracked, Saved, DiskInv, TypeInv, TablesOK, DiskOK
<1>3. Covered'
  <2> SUFFICES ASSUME NEW r \in Runs, Tracked(r)'
               PROVE  (Saved(r) # NoRecord /\ Extends(runs[r].history, Saved(r).history))'
    BY DEF Covered
  <2> QED BY <1>2, SentinelsAssumption DEF Extends, Record
<1>4. StartsApart'
  BY DEF Crash, StartsApart, IdleCall, Starting
<1>5. LaunchesSaved'
  <2> SUFFICES ASSUME NEW w \in Workers, worker'[w].pc # "idle"
               PROVE  (Saved(worker[w].run) # NoRecord)'
    BY DEF LaunchesSaved
  <2>1. worker[w].pc # "idle" /\ worker'[w].run = worker[w].run
    BY DEF Crash, IdleWorker, DiskInv, TypeInv, WorkersOK, WorkerOK, WorkerRecord
  <2> QED BY <1>1, <2>1 DEF DiskInv, LaunchesSaved, Saved
<1> QED BY <1>3, <1>4, <1>5 DEF DiskInv

-----------------------------------------------------------------------------
(* The theorems. *)

LEMMA InitDiskInv == Init => DiskInv
<1> SUFFICES ASSUME Init PROVE DiskInv
  OBVIOUS
<1>1. TypeInv
  BY InitTypes
<1>2. Covered /\ StartsApart /\ LaunchesSaved
  BY DEF Init, Covered, StartsApart, LaunchesSaved, Tracked, IdleCall, IdleWorker, Starting
<1> QED BY <1>1, <1>2 DEF DiskInv

LEMMA NextDiskInv == DiskInv /\ [Next]_vars => DiskInv'
<1> SUFFICES ASSUME DiskInv, [Next]_vars PROVE DiskInv'
  OBVIOUS
<1>1. TypeInv'
  BY NextTypes DEF DiskInv
<1>2. ASSUME NEW w \in Workers, WorkerStep(w) PROVE DiskInv'
  BY <1>1, <1>2, WorkerStepGrows, GoingOnKeepsDiskInv
<1>3. ASSUME NEW c \in Callers, HandlerStep(c) PROVE DiskInv'
  <2>1. CASE StartPersist(c) \/ StartInsert(c)
    BY <1>1, <2>1, StartPersistKeepsDiskInv, StartInsertKeepsDiskInv
  <2>2. CASE ~(StartPersist(c) \/ StartInsert(c))
    <3>1. TablesGrow /\ CallsGoOn /\ WorkersGoOn
      BY <1>3, <2>2, InspectGrows, CancelGrows, FetchGrows, RetryGrows, ResumeGrows DEF HandlerStep
    <3> QED BY <1>1, <3>1, GoingOnKeepsDiskInv
  <2> QED BY <2>1, <2>2
<1>4. ASSUME NEW c \in Callers, CommandStep(c) PROVE DiskInv'
  BY <1>1, <1>3, <1>4, IssueGrows, StartBuildKeepsDiskInv, GoingOnKeepsDiskInv DEF CommandStep
<1>5. CASE OutsideStep
  BY <1>1, <1>5, OutsideStepGrows, GoingOnKeepsDiskInv
<1>6. CASE Crash
  BY <1>1, <1>6, CrashKeepsDiskInv
<1>7. CASE UNCHANGED vars
  BY <1>1, <1>7 DEF vars, DiskInv, Covered, StartsApart, StartApart, LaunchesSaved, Tracked, Saved
<1> QED BY <1>2, <1>4, <1>5, <1>6, <1>7 DEF Next

LEMMA DiskInvHolds == Spec => []DiskInv
BY InitDiskInv, NextDiskInv, PTL DEF Spec

\* The record of a run is on disk before anything runs for it, and stays there:
\* start_run saves before it launches, and nothing removes or forgets a record.
THEOREM LaunchesAreRecorded == Spec => []LaunchIsRecorded
<1>1. DiskInv => LaunchIsRecorded
  BY DEF DiskInv, TypeInv, TablesOK, LaunchesSaved, LaunchIsRecorded, WorkerAt, Saved
<1> QED BY <1>1, DiskInvHolds, PTL

\* Whatever writes fail and whenever the host crashes, the saved history of a
\* tracked run is a prefix of the tracked one: update_run and start_run never
\* leave something on disk that the next update would overwrite.
THEOREM TableCoversTheDisk == Spec => []TableCoversDisk
<1>1. DiskInv => TableCoversDisk
  BY DEF DiskInv, Covered, TableCoversDisk, Extends
<1> QED BY <1>1, DiskInvHolds, PTL

-----------------------------------------------------------------------------
(* Histories. *)


Starts(h) == Count(h, {"execution_started"})
Finishes(h) == Count(h, {"execution_finished"})
Failures(h) == Count(h, {"execution_failed"})
Ends(h) == Count(h, {"cancelled", "execution_finished", "execution_failed"})
Fetches(h) == Count(h, {"fetch_started"})
FetchEnds(h) == Count(h, {"fetch_finished", "fetch_failed"})

\* RunLedger's Legal for the entry that comes after the others.
LegalLast(h) ==
    LET n == Len(h)
    IN  /\ n > 1 => h[n] # "created"
        /\ Starts(h) <= Launches(h) /\ Finishes(h) <= Launches(h) /\ Failures(h) <= Launches(h)
        /\ h[n] = "resumed" => Ends(h) > 0
        /\ FetchEnds(h) <= Fetches(h)

\* Who may still write: threads that have not begun, have not finished, have
\* not failed, and commands that fetch.
Beginning == {"begin"}
Executing == {"begin", "spawn", "register", "poll", "sleep", "unregister", "join"}
Living == Executing \cup {"failing"}
At(v, r, pcs) == {w \in Workers : v[w].run = r /\ v[w].pc \in pcs}
Fetching(v, r) == {c \in Callers : v[c].run = r /\ v[c].pc = "fetch_cli"}

Told(h) == h # <<>> /\ Ledger!Legal(h)

\* The counts of a history with those who may still write.
Tally(h, beginning, executing, living, fetching, faults) ==
    /\ Launches(h) > 0
    /\ Starts(h) + Cardinality(beginning) <= Launches(h)
    /\ Finishes(h) + Cardinality(executing) <= Launches(h)
    /\ Failures(h) + Cardinality(living) <= Launches(h)
    /\ FetchEnds(h) + Cardinality(fetching) <= Fetches(h)
    /\ Endings(h) + Cardinality(living) <= Launches(h) + faults

Story(h, beginning, executing, living, fetching, faults) ==
    Told(h) /\ Tally(h, beginning, executing, living, fetching, faults)

\* A run has a remote job only after an execution of it finished, and is in a
\* terminal state only after it ended.
Settled(record) ==
    /\ record.ref # NoRef => Finishes(record.history) > 0
    /\ record.state \in Terminal => Ends(record.history) > 0

StoryOf(r) ==
    Story(runs[r].history, At(worker, r, Beginning), At(worker, r, Executing),
          At(worker, r, Living), Fetching(call, r), used.faults)

TableStories == \A r \in Runs : Tracked(r) => StoryOf(r) /\ Settled(runs[r])
DiskStories == \A r \in Runs : Saved(r) # NoRecord =>
    Story(Saved(r).history, {}, {}, {}, {}, used.faults) /\ Settled(Saved(r))

\* Only after a write failed is a record on disk behind the table.
CleanDisk == used.faults = 0 => \A r \in Runs : Tracked(r) => runs[r] = Saved(r)

NewRecord(record) ==
    /\ record.history = <<"created">>
    /\ record.ref = NoRef
    /\ record.state = "starting"

\* What a command relies on while it waits.
CallStory(v) ==
    /\ v.pc \in Starting => NewRecord(v.record)
    /\ v.pc \in {"inspect_cli", "inspect_apply", "retry_cli", "retry_apply"} =>
          Tracked(v.run) /\ Finishes(runs[v.run].history) > 0
    /\ v.pc \in {"inspect_cli", "inspect_apply"} =>
          runs[v.run].ref # NoRef \/ Launches(runs[v.run].history) > 1
    /\ v.pc \in {"resume", "resume_check", "resume_launch"} =>
          Tracked(v.run) /\ Ends(runs[v.run].history) > 0
CallStories == \A c \in Callers : CallStory(call[c])

\* A thread that is not left over from a crash works for a run of the table.
WorkersTracked == \A w \in Workers : worker[w].pc \in Living => Tracked(worker[w].run)

\* ProcessTableIsExact, its first half.
ProcessesExact ==
    \A r \in Runs : processes[r] # NoWorker =>
        /\ worker[processes[r]].run = r
        /\ worker[processes[r]].pc \in {"poll", "sleep", "unregister"}
             \cup (IF used.faults > 0 THEN {"failing", "gone"} ELSE {})

\* Its second half: of a run that was launched once.
OnlyChildKnown ==
    \A w \in Workers :
        worker[w].pc \in {"poll", "sleep", "unregister"} /\ LaunchedOnce(worker[w].run)
            => processes[worker[w].run] = w

\* What the table and the disk tell, and what the threads rely on.
TablesTell == TableStories /\ DiskStories /\ CleanDisk
ThreadInv == WorkersTracked /\ ProcessesExact /\ OnlyChildKnown

LedgerInv == DiskInv /\ TablesTell /\ CallStories /\ ThreadInv

-----------------------------------------------------------------------------
(* Counting. *)

LEMMA CountType ==
    ASSUME NEW h \in Seq(Kinds), NEW K
    PROVE  Count(h, K) \in Nat
<1>1. {i \in DOMAIN h : h[i] \in K} \in SUBSET (1..Len(h))
  OBVIOUS
<1>2. IsFiniteSet(1..Len(h))
  BY FS_Interval
<1> QED BY <1>1, <1>2, FS_Subset, FS_CardinalityType DEF Count

LEMMA CountAppend ==
    ASSUME NEW h \in Seq(Kinds), NEW kind \in Kinds, NEW K
    PROVE  Count(Append(h, kind), K) = Count(h, K) + IF kind \in K THEN 1 ELSE 0
<1> DEFINE S == {i \in DOMAIN h : h[i] \in K}
           g == Append(h, kind)
           T == {i \in DOMAIN g : g[i] \in K}
<1>1. S \in SUBSET (1..Len(h))
  OBVIOUS
<1>2. IsFiniteSet(S)
  <2>1. IsFiniteSet(1..Len(h))
    BY FS_Interval
  <2> QED BY <1>1, <2>1, FS_Subset
<1>3. /\ DOMAIN g = 1..Len(h) + 1 /\ g[Len(h) + 1] = kind
      /\ \A i \in 1..Len(h) : g[i] = h[i]
  OBVIOUS
<1>4. T = IF kind \in K THEN S \cup {Len(h) + 1} ELSE S
  BY <1>3
<1>5. Len(h) + 1 \notin S
  BY <1>1
<1>6. Cardinality(T) = Cardinality(S) + IF kind \in K THEN 1 ELSE 0
  <2> HIDE DEF S, T
  <2>1. Cardinality(S) \in Nat
    BY <1>2, FS_CardinalityType
  <2>2. Cardinality(S \cup {Len(h) + 1}) = Cardinality(S) + 1
    BY <1>2, <1>5, FS_AddElement
  <2> QED BY <1>4, <2>1, <2>2
<1> QED BY <1>6 DEF Count

\* What a history counts, and what one more entry adds.
CountsOK(h) ==
    /\ Starts(h) \in Nat /\ Finishes(h) \in Nat /\ Failures(h) \in Nat /\ Ends(h) \in Nat
    /\ Fetches(h) \in Nat /\ FetchEnds(h) \in Nat /\ Launches(h) \in Nat /\ Endings(h) \in Nat

One(condition) == IF condition THEN 1 ELSE 0

CountsOneMore(g, h, kind) ==
    /\ Starts(g) = Starts(h) + One(kind = "execution_started")
    /\ Finishes(g) = Finishes(h) + One(kind = "execution_finished")
    /\ Failures(g) = Failures(h) + One(kind = "execution_failed")
    /\ Ends(g) = Ends(h) + One(kind \in {"cancelled", "execution_finished", "execution_failed"})
    /\ Fetches(g) = Fetches(h) + One(kind = "fetch_started")
    /\ FetchEnds(g) = FetchEnds(h) + One(kind \in {"fetch_finished", "fetch_failed"})
    /\ Launches(g) = Launches(h) + One(kind \in {"created", "resumed"})
    /\ Endings(g) = Endings(h) + One(kind \in {"execution_finished", "execution_failed"})

LEMMA CountsType ==
    ASSUME NEW h \in Seq(Kinds)
    PROVE  CountsOK(h)
BY CountType DEF CountsOK, Starts, Finishes, Failures, Ends, Fetches, FetchEnds, Launches, Endings

LEMMA CountsAppend ==
    ASSUME NEW h \in Seq(Kinds), NEW kind \in Kinds
    PROVE  CountsOneMore(Append(h, kind), h, kind)
<1>1. \A K : Count(Append(h, kind), K) = Count(h, K) + IF kind \in K THEN 1 ELSE 0
  BY CountAppend
<1> QED
  BY <1>1 DEF CountsOneMore, One, Starts, Finishes, Failures, Ends, Fetches, FetchEnds, Launches, Endings

\* Whoever leaves a finite set makes it smaller.
LEMMA Fewer ==
    ASSUME NEW S, IsFiniteSet(S), NEW T \in SUBSET S
    PROVE  /\ IsFiniteSet(T) /\ Cardinality(T) \in Nat /\ Cardinality(S) \in Nat
           /\ Cardinality(T) <= Cardinality(S)
           /\ T # S => Cardinality(T) + 1 <= Cardinality(S)
<1>1. /\ IsFiniteSet(T) /\ Cardinality(T) <= Cardinality(S)
      /\ Cardinality(S) = Cardinality(T) => S = T
  BY FS_Subset
<1>2. Cardinality(T) \in Nat /\ Cardinality(S) \in Nat
  BY <1>1, FS_CardinalityType
<1> QED BY <1>1, <1>2

\* One more at most.
LEMMA OneMore ==
    ASSUME NEW S, IsFiniteSet(S), NEW w, NEW T \in SUBSET (S \cup {w})
    PROVE  /\ IsFiniteSet(T) /\ Cardinality(T) \in Nat /\ Cardinality(S) \in Nat
           /\ Cardinality(T) <= Cardinality(S) + 1
<1>1. IsFiniteSet(S \cup {w}) /\ Cardinality(S \cup {w}) \in {Cardinality(S), Cardinality(S) + 1}
  BY FS_AddElement
<1>2. IsFiniteSet(T) /\ Cardinality(T) <= Cardinality(S \cup {w})
  BY <1>1, FS_Subset
<1>3. Cardinality(T) \in Nat /\ Cardinality(S) \in Nat
  BY <1>2, FS_CardinalityType
<1> QED BY <1>1, <1>2, <1>3

\* The threads of a run are finitely many, and so are the commands.
LEMMA WorkersFinite ==
    ASSUME NEW v, NEW r, NEW pcs
    PROVE  IsFiniteSet(At(v, r, pcs)) /\ IsFiniteSet(Fetching(v, r))
<1>1. At(v, r, pcs) \in SUBSET Workers /\ Fetching(v, r) \in SUBSET Callers
  BY DEF At, Fetching
<1> QED BY <1>1, FS_Subset, ConstantsAssumption

-----------------------------------------------------------------------------
(* Histories. *)

\* A legal history stays legal when its new entry may come last.
LEMMA LegalAppend ==
    ASSUME NEW h \in Seq(Kinds), NEW kind \in Kinds, h # <<>>, Ledger!Legal(h),
           LegalLast(Append(h, kind))
    PROVE  Ledger!Legal(Append(h, kind))
<1> DEFINE g == Append(h, kind)
<1>1. /\ g \in Seq(Kinds) /\ Len(g) = Len(h) + 1 /\ Len(h) \in Nat \ {0}
      /\ \A i \in 1..Len(h) : g[i] = h[i]
  OBVIOUS
<1>2. \A n \in 1..Len(h) : SubSeq(g, 1, n) = SubSeq(h, 1, n)
  OBVIOUS
<1>3. SubSeq(g, 1, Len(g)) = g
  BY <1>1
<1>4. ASSUME NEW past, NEW K
      PROVE  Ledger!Occurrences(past, K) = Count(past, K)
  BY DEF Ledger!Occurrences, Count, Ledger!Cardinality, Cardinality
<1>5. g[1] = "created"
  BY <1>1 DEF Ledger!Legal
<1>6. ASSUME NEW n \in 1..Len(g)
      PROVE  LET past == SubSeq(g, 1, n)
                 launches == Count(past, {"created", "resumed"})
             IN  /\ n > 1 => g[n] # "created"
                 /\ \A k \in {"execution_started", "execution_finished", "execution_failed"} :
                       Count(past, {k}) <= launches
                 /\ g[n] = "resumed" =>
                       Count(past, {"cancelled", "execution_finished", "execution_failed"}) > 0
                 /\ Count(past, {"fetch_finished", "fetch_failed"}) <= Count(past, {"fetch_started"})
  <2>1. CASE n \in 1..Len(h)
    BY <1>1, <1>2, <1>4, <2>1 DEF Ledger!Legal
  <2>2. CASE n = Len(g)
    BY <1>1, <1>3, <2>2 DEF LegalLast, Starts, Finishes, Failures, Ends, Fetches, FetchEnds, Launches
  <2> QED BY <1>1, <2>1, <2>2
<1> QED BY <1>4, <1>5, <1>6 DEF Ledger!Legal

-----------------------------------------------------------------------------
(* Stories. *)

\* Nobody new works for the run, and nothing is written.
LEMMA StoryStays ==
    ASSUME NEW h, CountsOK(h), NEW n \in Nat, NEW n2 \in Nat, n <= n2,
           NEW b, NEW e, NEW l, NEW f,
           IsFiniteSet(b), IsFiniteSet(e), IsFiniteSet(l), IsFiniteSet(f),
           NEW b2 \in SUBSET b, NEW e2 \in SUBSET e, NEW l2 \in SUBSET l, NEW f2 \in SUBSET f,
           Story(h, b, e, l, f, n)
    PROVE  Story(h, b2, e2, l2, f2, n2)
<1>2. /\ Cardinality(b) \in Nat /\ Cardinality(b2) \in Nat /\ Cardinality(b2) <= Cardinality(b)
      /\ Cardinality(e) \in Nat /\ Cardinality(e2) \in Nat /\ Cardinality(e2) <= Cardinality(e)
  BY Fewer
<1>3. /\ Cardinality(l) \in Nat /\ Cardinality(l2) \in Nat /\ Cardinality(l2) <= Cardinality(l)
      /\ Cardinality(f) \in Nat /\ Cardinality(f2) \in Nat /\ Cardinality(f2) <= Cardinality(f)
  BY Fewer
<1> QED BY <1>2, <1>3 DEF Story, Tally, CountsOK

\* A history whose counts are in order may have its new entry last.
LEMMA TallyBounds ==
    ASSUME NEW g, CountsOK(g), NEW b, NEW e, NEW l, NEW f, NEW n \in Nat,
           IsFiniteSet(b), IsFiniteSet(e), IsFiniteSet(l), IsFiniteSet(f),
           Tally(g, b, e, l, f, n)
    PROVE  /\ Starts(g) <= Launches(g) /\ Finishes(g) <= Launches(g)
           /\ Failures(g) <= Launches(g) /\ FetchEnds(g) <= Fetches(g)
           /\ Endings(g) <= Launches(g) + n
<1>1. /\ Cardinality(b) \in Nat /\ Cardinality(e) \in Nat
      /\ Cardinality(l) \in Nat /\ Cardinality(f) \in Nat
  BY FS_CardinalityType
<1> QED BY <1>1 DEF Tally, CountsOK

\* An entry is written by someone who then is no longer waiting to write it, or
\* it ends the run a second time because a write had failed.
LEMMA TallyNotes ==
    ASSUME NEW h, NEW g, CountsOK(h), CountsOK(g), NEW n \in Nat, NEW n2 \in Nat, n <= n2,
           NEW b, NEW e, NEW l, NEW f,
           IsFiniteSet(b), IsFiniteSet(e), IsFiniteSet(l), IsFiniteSet(f),
           NEW b2 \in SUBSET b, NEW e2 \in SUBSET e, NEW l2 \in SUBSET l, NEW f2 \in SUBSET f,
           Tally(h, b, e, l, f, n),
           NEW kind, kind \notin {"created", "resumed"}, CountsOneMore(g, h, kind),
           kind = "execution_started" => b2 # b,
           kind = "execution_finished" => e2 # e /\ (l2 # l \/ n2 = n + 1),
           kind = "execution_failed" => l2 # l,
           kind \in {"fetch_finished", "fetch_failed"} => f2 # f
    PROVE  Tally(g, b2, e2, l2, f2, n2)
<1>2. /\ Cardinality(b) \in Nat /\ Cardinality(b2) \in Nat /\ Cardinality(b2) <= Cardinality(b)
      /\ b2 # b => Cardinality(b2) + 1 <= Cardinality(b)
      /\ Cardinality(e) \in Nat /\ Cardinality(e2) \in Nat /\ Cardinality(e2) <= Cardinality(e)
      /\ e2 # e => Cardinality(e2) + 1 <= Cardinality(e)
  BY Fewer
<1>3. /\ Cardinality(l) \in Nat /\ Cardinality(l2) \in Nat /\ Cardinality(l2) <= Cardinality(l)
      /\ l2 # l => Cardinality(l2) + 1 <= Cardinality(l)
      /\ Cardinality(f) \in Nat /\ Cardinality(f2) \in Nat /\ Cardinality(f2) <= Cardinality(f)
      /\ f2 # f => Cardinality(f2) + 1 <= Cardinality(f)
  BY Fewer
<1>4. Launches(g) = Launches(h)
  BY DEF CountsOneMore, CountsOK, One
<1>5. Starts(g) + Cardinality(b2) <= Launches(g)
  BY <1>2, <1>4 DEF Tally, CountsOK, CountsOneMore, One
<1>6. Finishes(g) + Cardinality(e2) <= Launches(g)
  BY <1>2, <1>4 DEF Tally, CountsOK, CountsOneMore, One
<1>7. Failures(g) + Cardinality(l2) <= Launches(g)
  BY <1>3, <1>4 DEF Tally, CountsOK, CountsOneMore, One
<1>8. FetchEnds(g) + Cardinality(f2) <= Fetches(g)
  BY <1>3, <1>4 DEF Tally, CountsOK, CountsOneMore, One
<1>9. Endings(g) + Cardinality(l2) <= Launches(g) + n2
  BY <1>3, <1>4 DEF Tally, CountsOK, CountsOneMore, One
<1> QED BY <1>4, <1>5, <1>6, <1>7, <1>8, <1>9 DEF Tally

LEMMA StoryNotes ==
    ASSUME NEW h \in Seq(Kinds), NEW n \in Nat, NEW n2 \in Nat, n <= n2,
           NEW b, NEW e, NEW l, NEW f,
           IsFiniteSet(b), IsFiniteSet(e), IsFiniteSet(l), IsFiniteSet(f),
           NEW b2 \in SUBSET b, NEW e2 \in SUBSET e, NEW l2 \in SUBSET l, NEW f2 \in SUBSET f,
           Story(h, b, e, l, f, n),
           NEW kind \in Kinds \ {"created", "resumed"},
           kind = "execution_started" => b2 # b,
           kind = "execution_finished" => e2 # e /\ (l2 # l \/ n2 = n + 1),
           kind = "execution_failed" => l2 # l,
           kind \in {"fetch_finished", "fetch_failed"} => f2 # f
    PROVE  Story(Append(h, kind), b2, e2, l2, f2, n2)
<1> DEFINE g == Append(h, kind)
<1>1. CountsOK(h) /\ CountsOK(g) /\ CountsOneMore(g, h, kind)
  <2>1. g \in Seq(Kinds)
    OBVIOUS
  <2> QED BY <2>1, CountsType, CountsAppend
<1>2. Tally(g, b2, e2, l2, f2, n2)
  BY <1>1, TallyNotes DEF Story
<1>3. LegalLast(g)
  <2>1. g[Len(g)] = kind
    OBVIOUS
  <2>2. IsFiniteSet(b2) /\ IsFiniteSet(e2) /\ IsFiniteSet(l2) /\ IsFiniteSet(f2)
    BY FS_Subset
  <2> HIDE DEF g
  <2> QED BY <1>1, <1>2, <2>1, <2>2, TallyBounds DEF LegalLast
<1>4. Told(g)
  BY <1>3, LegalAppend DEF Story, Told
<1> QED BY <1>2, <1>4 DEF Story

\* A command that begins to fetch may be waiting for the answer.
LEMMA TallyFetches ==
    ASSUME NEW h, NEW g, CountsOK(h), CountsOK(g), NEW n \in Nat, NEW n2 \in Nat, n <= n2,
           NEW b, NEW e, NEW l, NEW f, IsFiniteSet(f),
           NEW c, NEW f2 \in SUBSET (f \cup {c}),
           Tally(h, b, e, l, f, n), CountsOneMore(g, h, "fetch_started"),
           Cardinality(l) \in Nat
    PROVE  Tally(g, b, e, l, f2, n2)
<1>1. Cardinality(f) \in Nat /\ Cardinality(f2) \in Nat /\ Cardinality(f2) <= Cardinality(f) + 1
  BY OneMore
<1>2. FetchEnds(g) + Cardinality(f2) <= Fetches(g)
  BY <1>1 DEF Tally, CountsOK, CountsOneMore, One
<1>3. /\ Starts(g) = Starts(h) /\ Finishes(g) = Finishes(h) /\ Failures(g) = Failures(h)
      /\ Endings(g) = Endings(h) /\ Launches(g) = Launches(h)
  BY DEF CountsOK, CountsOneMore, One
<1>4. Endings(g) + Cardinality(l) <= Launches(g) + n2
  BY <1>3 DEF Tally, CountsOK
<1> QED BY <1>2, <1>3, <1>4 DEF Tally

LEMMA StoryFetches ==
    ASSUME NEW h \in Seq(Kinds), NEW n \in Nat, NEW n2 \in Nat, n <= n2,
           NEW b, NEW e, NEW l, NEW f,
           IsFiniteSet(b), IsFiniteSet(e), IsFiniteSet(l), IsFiniteSet(f),
           NEW c, NEW f2 \in SUBSET (f \cup {c}),
           Story(h, b, e, l, f, n)
    PROVE  Story(Append(h, "fetch_started"), b, e, l, f2, n2)
<1> DEFINE g == Append(h, "fetch_started")
<1>1. "fetch_started" \in Kinds
  BY DEF Kinds
<1>2. CountsOK(h) /\ CountsOK(g) /\ CountsOneMore(g, h, "fetch_started")
  <2>1. g \in Seq(Kinds)
    BY <1>1
  <2> QED BY <1>1, <2>1, CountsType, CountsAppend
<1>3. Tally(g, b, e, l, f2, n2)
  BY <1>2, TallyFetches, FS_CardinalityType DEF Story
<1>4. LegalLast(g)
  <2>1. g[Len(g)] = "fetch_started"
    BY <1>1
  <2>2. IsFiniteSet(f2)
    BY OneMore
  <2> HIDE DEF g
  <2> QED BY <1>2, <1>3, <2>1, <2>2, TallyBounds DEF LegalLast
<1>5. Told(g)
  BY <1>1, <1>4, LegalAppend DEF Story, Told
<1> QED BY <1>3, <1>5 DEF Story

\* A resumed run that had ended may have one thread more.
LEMMA TallyResumes ==
    ASSUME NEW h, NEW g, CountsOK(h), CountsOK(g), NEW n \in Nat, NEW n2 \in Nat, n <= n2,
           NEW b, NEW e, NEW l, NEW f,
           IsFiniteSet(b), IsFiniteSet(e), IsFiniteSet(l), IsFiniteSet(f),
           NEW w, NEW b2 \in SUBSET (b \cup {w}), NEW e2 \in SUBSET (e \cup {w}),
           NEW l2 \in SUBSET (l \cup {w}), NEW f2 \in SUBSET f,
           Tally(h, b, e, l, f, n), CountsOneMore(g, h, "resumed")
    PROVE  Tally(g, b2, e2, l2, f2, n2)
<1>2. /\ Cardinality(b) \in Nat /\ Cardinality(b2) \in Nat /\ Cardinality(b2) <= Cardinality(b) + 1
      /\ Cardinality(e) \in Nat /\ Cardinality(e2) \in Nat /\ Cardinality(e2) <= Cardinality(e) + 1
      /\ Cardinality(l) \in Nat /\ Cardinality(l2) \in Nat /\ Cardinality(l2) <= Cardinality(l) + 1
  BY OneMore
<1>3. Cardinality(f) \in Nat /\ Cardinality(f2) \in Nat /\ Cardinality(f2) <= Cardinality(f)
  BY Fewer
<1>4. Launches(g) = Launches(h) + 1
  BY DEF CountsOneMore, CountsOK, One
<1>5. Starts(g) + Cardinality(b2) <= Launches(g) /\ Finishes(g) + Cardinality(e2) <= Launches(g)
  BY <1>2, <1>4 DEF Tally, CountsOK, CountsOneMore, One
<1>6. Failures(g) + Cardinality(l2) <= Launches(g)
  BY <1>2, <1>4 DEF Tally, CountsOK, CountsOneMore, One
<1>7. FetchEnds(g) + Cardinality(f2) <= Fetches(g)
  BY <1>3, <1>4 DEF Tally, CountsOK, CountsOneMore, One
<1>8. Endings(g) + Cardinality(l2) <= Launches(g) + n2
  BY <1>2, <1>4 DEF Tally, CountsOK, CountsOneMore, One
<1>9. Launches(g) > 0
  BY <1>4 DEF CountsOK
<1> QED BY <1>5, <1>6, <1>7, <1>8, <1>9 DEF Tally

LEMMA StoryResumes ==
    ASSUME NEW h \in Seq(Kinds), NEW n \in Nat, NEW n2 \in Nat, n <= n2,
           NEW b, NEW e, NEW l, NEW f,
           IsFiniteSet(b), IsFiniteSet(e), IsFiniteSet(l), IsFiniteSet(f),
           NEW w, NEW b2 \in SUBSET (b \cup {w}), NEW e2 \in SUBSET (e \cup {w}),
           NEW l2 \in SUBSET (l \cup {w}), NEW f2 \in SUBSET f,
           Story(h, b, e, l, f, n), Ends(h) > 0
    PROVE  Story(Append(h, "resumed"), b2, e2, l2, f2, n2)
<1> DEFINE g == Append(h, "resumed")
<1>1. "resumed" \in Kinds
  BY DEF Kinds
<1>2. CountsOK(h) /\ CountsOK(g) /\ CountsOneMore(g, h, "resumed")
  <2>1. g \in Seq(Kinds)
    BY <1>1
  <2> QED BY <1>1, <2>1, CountsType, CountsAppend
<1>3. Tally(g, b2, e2, l2, f2, n2)
  BY <1>2, TallyResumes DEF Story
<1>4. LegalLast(g)
  <2>1. g[Len(g)] = "resumed"
    BY <1>1
  <2>2. IsFiniteSet(b2) /\ IsFiniteSet(e2) /\ IsFiniteSet(l2) /\ IsFiniteSet(f2)
    BY FS_Subset, OneMore
  <2> HIDE DEF g
  <2>3. Ends(g) > 0
    BY <1>2 DEF CountsOK, CountsOneMore, One
  <2> QED BY <1>2, <1>3, <2>1, <2>2, <2>3, TallyBounds DEF LegalLast
<1>5. Told(g)
  BY <1>1, <1>4, LegalAppend DEF Story, Told
<1> QED BY <1>3, <1>5 DEF Story

\* The story of a new run begins with its creation.
LEMMA CountCreated ==
    ASSUME NEW K
    PROVE  Count(<<"created">>, K) = One("created" \in K)
<1> DEFINE g == <<"created">>
<1>1. {i \in DOMAIN g : g[i] \in K} = IF "created" \in K THEN {1} ELSE {}
  OBVIOUS
<1>2. Cardinality({1}) = 1 /\ Cardinality({}) = 0
  BY FS_EmptySet, FS_Singleton
<1>3. Count(g, K) = Cardinality({i \in DOMAIN g : g[i] \in K})
  BY DEF Count
<1> HIDE DEF g
<1>4. Count(g, K) = One("created" \in K)
  BY <1>1, <1>2, <1>3 DEF One
<1> QED BY <1>4 DEF g

LEMMA StoryBegins ==
    ASSUME NEW n \in Nat, NEW w, NEW b \in SUBSET {w}, NEW e \in SUBSET {w}, NEW l \in SUBSET {w}
    PROVE  Story(<<"created">>, b, e, l, {}, n)
<1> DEFINE g == <<"created">>
<1>1. Cardinality({}) = 0 /\ IsFiniteSet({w}) /\ Cardinality({w}) = 1
  BY FS_EmptySet, FS_Singleton
<1>2. /\ Cardinality(b) \in Nat /\ Cardinality(e) \in Nat /\ Cardinality(l) \in Nat
      /\ Cardinality(b) <= 1 /\ Cardinality(e) <= 1 /\ Cardinality(l) <= 1
  BY <1>1, Fewer
<1>3. /\ Starts(g) = 0 /\ Finishes(g) = 0 /\ Failures(g) = 0 /\ Ends(g) = 0 /\ Fetches(g) = 0
      /\ FetchEnds(g) = 0 /\ Launches(g) = 1 /\ Endings(g) = 0
  BY CountCreated DEF One, Starts, Finishes, Failures, Ends, Fetches, FetchEnds, Launches, Endings
<1>4. Told(g)
  <2>1. ASSUME NEW past, NEW K
        PROVE  Ledger!Occurrences(past, K) = Count(past, K)
    BY DEF Ledger!Occurrences, Count, Ledger!Cardinality, Cardinality
  <2>2. Len(g) = 1 /\ g[1] = "created"
    OBVIOUS
  <2>3. g # <<>> /\ g \in Seq({"created"})
    OBVIOUS
  <2>4. \A K : Count(g, K) = IF "created" \in K THEN 1 ELSE 0
    BY CountCreated DEF One
  <2> HIDE DEF g
  <2>5. SubSeq(g, 1, 1) = g
    BY <2>2, <2>3
  <2>6. ASSUME NEW m \in 1..Len(g)
        PROVE  m = 1 /\ SubSeq(g, 1, m) = g
    BY <2>2, <2>5
  <2>7. /\ Count(g, {"created", "resumed"}) = 1 /\ Count(g, {"execution_started"}) = 0
        /\ Count(g, {"execution_finished"}) = 0 /\ Count(g, {"execution_failed"}) = 0
        /\ Count(g, {"fetch_finished", "fetch_failed"}) = 0 /\ Count(g, {"fetch_started"}) = 0
    BY <2>4
  <2>8. ASSUME NEW m \in 1..Len(g)
        PROVE  LET past == SubSeq(g, 1, m)
                   launches == Count(past, {"created", "resumed"})
               IN  /\ m > 1 => g[m] # "created"
                   /\ \A k \in {"execution_started", "execution_finished", "execution_failed"} :
                         Count(past, {k}) <= launches
                   /\ g[m] = "resumed" =>
                         Count(past, {"cancelled", "execution_finished", "execution_failed"}) > 0
                   /\ Count(past, {"fetch_finished", "fetch_failed"}) <= Count(past, {"fetch_started"})
    <3> DEFINE past == SubSeq(g, 1, m)
    <3>1. past = g /\ m = 1 /\ g[m] = "created"
      BY <2>2, <2>6
    <3> HIDE DEF past
    <3>2. /\ \A k \in {"execution_started", "execution_finished", "execution_failed"} :
                 Count(past, {k}) <= Count(past, {"created", "resumed"})
          /\ Count(past, {"fetch_finished", "fetch_failed"}) <= Count(past, {"fetch_started"})
      BY <2>7, <3>1
    <3>3. ~(m > 1) /\ g[m] # "resumed"
      BY <3>1
    <3> QED BY <3>2, <3>3 DEF past
  <2>9. g[1] = "created"
    BY <2>2
  <2>10. Ledger!Legal(g)
    BY <2>1, <2>8, <2>9 DEF Ledger!Legal
  <2> QED BY <2>3, <2>10 DEF Told
<1>5. Tally(g, b, e, l, {}, n)
  <2> HIDE DEF g
  <2> QED BY <1>1, <1>2, <1>3 DEF Tally
<1> QED BY <1>4, <1>5 DEF Story

-----------------------------------------------------------------------------
(* What a step does to the stories.  A step changes the history of one run  *)
(* at most; for every other run those who may write only become fewer.      *)

Shrinks(q) ==
    /\ \A pcs \in {Beginning, Executing, Living} : At(worker', q, pcs) \subseteq At(worker, q, pcs)
    /\ Fetching(call', q) \subseteq Fetching(call, q)

LEMMA HistoriesAreSequences ==
    ASSUME DiskInv, NEW r \in Runs
    PROVE  /\ Tracked(r) => runs[r] \in Record /\ runs[r].history \in Seq(Kinds)
           /\ Saved(r) # NoRecord => Saved(r) \in Record /\ Saved(r).history \in Seq(Kinds)
BY DEF DiskInv, TypeInv, TablesOK, RunsOK, DiskOK, Tracked, Saved, Record

\* The story of a run that a step does not touch goes on.
LEMMA StoryGoesOn ==
    ASSUME DiskInv, NEW r \in Runs, Tracked(r), StoryOf(r), Shrinks(r),
           runs'[r].history = runs[r].history,
           used.faults \in Nat, used'.faults \in Nat, used.faults <= used'.faults
    PROVE  StoryOf(r)'
<1>1. CountsOK(runs[r].history)
  BY HistoriesAreSequences, CountsType
<1>2. \A pcs : IsFiniteSet(At(worker, r, pcs)) /\ IsFiniteSet(Fetching(call, r))
  BY WorkersFinite
<1>3. /\ At(worker', r, Beginning) \in SUBSET At(worker, r, Beginning)
      /\ At(worker', r, Executing) \in SUBSET At(worker, r, Executing)
      /\ At(worker', r, Living) \in SUBSET At(worker, r, Living)
      /\ Fetching(call', r) \in SUBSET Fetching(call, r)
  BY DEF Shrinks
<1>4. Story(runs[r].history, At(worker, r, Beginning), At(worker, r, Executing),
            At(worker, r, Living), Fetching(call, r), used.faults)
  BY DEF StoryOf
<1>5. Story(runs[r].history, At(worker', r, Beginning), At(worker', r, Executing),
            At(worker', r, Living), Fetching(call', r), used'.faults)
  BY <1>1, <1>2, <1>3, <1>4, StoryStays
<1> QED BY <1>5 DEF StoryOf

\* What is told of a run with its threads is told without them.
LEMMA StoryAlone ==
    ASSUME NEW h \in Seq(Kinds), NEW n \in Nat, NEW n2 \in Nat, n <= n2,
           NEW b, NEW e, NEW l, NEW f,
           IsFiniteSet(b), IsFiniteSet(e), IsFiniteSet(l), IsFiniteSet(f),
           Story(h, b, e, l, f, n)
    PROVE  Story(h, {}, {}, {}, {}, n2)
<1>1. CountsOK(h)
  BY CountsType
<1>2. {} \in SUBSET b /\ {} \in SUBSET e /\ {} \in SUBSET l /\ {} \in SUBSET f
  OBVIOUS
<1> QED BY <1>1, <1>2, StoryStays

LEMMA DiskStoryGoesOn ==
    ASSUME DiskInv, DiskStories, NEW r \in Runs, Saved(r)' = Saved(r), Saved(r) # NoRecord,
           used.faults \in Nat, used'.faults \in Nat, used.faults <= used'.faults
    PROVE  (Story(Saved(r).history, {}, {}, {}, {}, used.faults) /\ Settled(Saved(r)))'
<1>1. Saved(r).history \in Seq(Kinds)
  BY HistoriesAreSequences
<1>2. Story(Saved(r).history, {}, {}, {}, {}, used.faults) /\ Settled(Saved(r))
  BY DEF DiskStories
<1>3. IsFiniteSet({})
  BY FS_EmptySet
<1>4. Story(Saved(r).history, {}, {}, {}, {}, used'.faults)
  BY <1>1, <1>2, <1>3, StoryAlone
<1> QED BY <1>2, <1>4

\* A step that writes nothing.
LEMMA QuietTells ==
    ASSUME DiskInv, TypeInv', TablesTell, UNCHANGED <<workspace, RunVars>>,
           used.faults <= used'.faults, \A q \in Runs : Shrinks(q)
    PROVE  TablesTell'
<1>1. used.faults \in Nat /\ used'.faults \in Nat
  BY DEF DiskInv, TypeInv, TablesOK, UsedOK
<1>2. \A r \in Runs : runs'[r] = runs[r] /\ Saved(r)' = Saved(r) /\ (Tracked(r)' <=> Tracked(r))
  BY DEF RunVars, Saved, Tracked
<1>3. TableStories'
  <2> SUFFICES ASSUME NEW r \in Runs, Tracked(r)' PROVE (StoryOf(r) /\ Settled(runs[r]))'
    BY DEF TableStories
  <2>1. StoryOf(r) /\ Settled(runs[r]) /\ Tracked(r)
    BY <1>2 DEF TablesTell, TableStories
  <2>2. StoryOf(r)'
    BY <1>1, <1>2, <2>1, StoryGoesOn
  <2> QED BY <1>2, <2>1, <2>2
<1>4. DiskStories'
  BY <1>1, <1>2, DiskStoryGoesOn DEF TablesTell, DiskStories
<1>5. CleanDisk'
  <2>1. used'.faults = 0 => used.faults = 0
    BY <1>1
  <2> QED BY <1>2, <2>1 DEF TablesTell, CleanDisk
<1> QED BY <1>3, <1>4, <1>5 DEF TablesTell

\* A step that writes the record of one run, to the disk too unless a write
\* failed.
LEMMA UpdateTells ==
    ASSUME DiskInv, TypeInv', TablesTell, workspace' = workspace, used.faults <= used'.faults,
           NEW r \in Runs, NEW record \in Record,
           runs' = [runs EXCEPT ![r] = record],
           \/ disk' = [disk EXCEPT ![workspace][r] = record]
           \/ disk' = disk /\ (used'.faults > 0 \/ Saved(r) = record),
           \A q \in Runs \ {r} : Shrinks(q),
           StoryOf(r)', Settled(record)
    PROVE  TablesTell'
<1>1. used.faults \in Nat /\ used'.faults \in Nat
  BY DEF DiskInv, TypeInv, TablesOK, UsedOK
<1>2. workspace \in Workspaces /\ RunsOK /\ DiskOK
  BY DEF DiskInv, TypeInv, TablesOK
<1>3. runs'[r] = record /\ \A q \in Runs \ {r} : runs'[q] = runs[q] /\ (Tracked(q)' <=> Tracked(q))
  BY <1>2 DEF RunsOK, Tracked
<1>4. \/ Saved(r)' = record
      \/ Saved(r)' = Saved(r) /\ used'.faults > 0
  BY <1>2 DEF DiskOK, Saved
<1>5. \A q \in Runs \ {r} : Saved(q)' = Saved(q)
  BY <1>2 DEF DiskOK, Saved
<1>6. TableStories'
  <2> SUFFICES ASSUME NEW q \in Runs \ {r}, Tracked(q)' PROVE (StoryOf(q) /\ Settled(runs[q]))'
    BY <1>3 DEF TableStories
  <2>1. StoryOf(q) /\ Settled(runs[q]) /\ Tracked(q)
    BY <1>3 DEF TablesTell, TableStories
  <2>2. StoryOf(q)'
    BY <1>1, <1>3, <2>1, StoryGoesOn
  <2> QED BY <1>3, <2>1, <2>2
<1>7. DiskStories'
  <2> SUFFICES ASSUME NEW q \in Runs, (Saved(q) # NoRecord)'
               PROVE  (Story(Saved(q).history, {}, {}, {}, {}, used.faults) /\ Settled(Saved(q)))'
    BY DEF DiskStories
  <2>1. CASE Saved(q)' = Saved(q)
    BY <1>1, <2>1, DiskStoryGoesOn DEF TablesTell
  <2>2. CASE q = r /\ Saved(q)' = record
    <3>1. Story(record.history, At(worker', r, Beginning), At(worker', r, Executing),
                At(worker', r, Living), Fetching(call', r), used'.faults)
      BY <1>3 DEF StoryOf
    <3>2. /\ IsFiniteSet(At(worker', r, Beginning)) /\ IsFiniteSet(At(worker', r, Executing))
          /\ IsFiniteSet(At(worker', r, Living)) /\ IsFiniteSet(Fetching(call', r))
      BY WorkersFinite
    <3>3. record.history \in Seq(Kinds)
      BY DEF Record
    <3>4. Story(record.history, {}, {}, {}, {}, used'.faults)
      BY <1>1, <3>1, <3>2, <3>3, StoryAlone
    <3> QED BY <2>2, <3>4
  <2> QED BY <1>4, <1>5, <2>1, <2>2
<1>8. CleanDisk'
  <2> SUFFICES ASSUME used'.faults = 0, NEW q \in Runs, Tracked(q)' PROVE (runs[q] = Saved(q))'
    BY DEF CleanDisk
  <2>1. used.faults = 0
    BY <1>1
  <2> QED BY <1>1, <1>3, <1>4, <1>5, <2>1 DEF TablesTell, CleanDisk
<1> QED BY <1>6, <1>7, <1>8 DEF TablesTell

-----------------------------------------------------------------------------
(* What a step does to those who rely on a story.                           *)

\* A run stays in the table, what its history counts stays, and it is launched
\* again rather than lose its remote job.
Progresses(r) == Tracked(r) =>
    /\ Tracked(r)'
    /\ Finishes(runs[r].history) > 0 => Finishes(runs'[r].history) > 0
    /\ Ends(runs[r].history) > 0 => Ends(runs'[r].history) > 0
    /\ runs[r].ref # NoRef \/ Launches(runs[r].history) > 1
          => runs'[r].ref # NoRef \/ Launches(runs'[r].history) > 1
    /\ LaunchedOnce(r)' => LaunchedOnce(r)

LEMMA UnchangedProgresses ==
    ASSUME NEW r, runs'[r] = runs[r]
    PROVE  Progresses(r)
BY DEF Progresses, Tracked, LaunchedOnce

\* A command that moves and finds what it relies on; the others find it still.
LEMMA CallStoriesGoOn ==
    ASSUME DiskInv, CallStories, \A r \in Runs : Progresses(r),
           \A c \in Callers : call'[c] = call[c] \/ CallStory(call[c])'
    PROVE  CallStories'
<1> SUFFICES ASSUME NEW d \in Callers, call'[d] = call[d] PROVE CallStory(call[d])'
  BY DEF CallStories
<1>1. CallStory(call[d]) /\ call'[d] = call[d]
  BY DEF CallStories
<1>2. call[d].pc # "idle" => call[d].run \in Runs /\ Progresses(call[d].run)
  BY DEF DiskInv, TypeInv, CallsOK, CallOK
<1> QED BY <1>1, <1>2 DEF CallStory, Progresses

Polling == {"poll", "sleep", "unregister"}

\* No thread begins to poll, and a registered one goes on polling or fails.
LEMMA ThreadsGoOn ==
    ASSUME DiskInv, TypeInv', ThreadInv, processes' = processes, used.faults <= used'.faults,
           \A r \in Runs : Progresses(r),
           \A v \in Workers : worker'[v].pc \in Living =>
               \/ worker[v].pc \in Living /\ worker'[v].run = worker[v].run
               \/ Tracked(worker[v].run)',
           \A v \in Workers : worker'[v].pc \in Polling =>
               worker[v].pc \in Polling /\ worker'[v].run = worker[v].run,
           \A r \in Runs : processes[r] # NoWorker =>
               /\ worker'[processes[r]].run = worker[processes[r]].run
               /\ \/ worker'[processes[r]].pc \in Polling
                  \/ used'.faults > 0 /\ worker'[processes[r]].pc \in {"failing", "gone"}
    PROVE  ThreadInv'
<1>1. WorkersTracked'
  <2> SUFFICES ASSUME NEW v \in Workers, worker'[v].pc \in Living PROVE Tracked(worker[v].run)'
    BY DEF WorkersTracked
  <2>1. CASE worker[v].pc \in Living /\ worker'[v].run = worker[v].run
    <3>1. worker[v].run \in Runs /\ Tracked(worker[v].run)
      BY <2>1
      DEF ThreadInv, WorkersTracked, DiskInv, TypeInv, WorkersOK, WorkerOK, Living, Executing
    <3> QED BY <2>1, <3>1 DEF Progresses, Tracked
  <2> QED BY <2>1
<1>2. ProcessesExact'
  BY DEF ThreadInv, ProcessesExact, Polling
<1>3. OnlyChildKnown'
  <2> SUFFICES ASSUME NEW v \in Workers, worker'[v].pc \in Polling, LaunchedOnce(worker[v].run)'
               PROVE  processes'[worker'[v].run] = v
    BY DEF OnlyChildKnown, Polling
  <2>1. worker[v].pc \in Polling /\ worker'[v].run = worker[v].run
    OBVIOUS
  <2>2. worker[v].run \in Runs /\ Tracked(worker[v].run)
    BY <2>1
    DEF ThreadInv, WorkersTracked, DiskInv, TypeInv, WorkersOK, WorkerOK, Living, Executing, Polling
  <2>3. LaunchedOnce(worker[v].run)
    BY <2>1, <2>2 DEF Progresses, LaunchedOnce, Tracked
  <2> QED BY <2>1, <2>3 DEF ThreadInv, OnlyChildKnown, Polling
<1> QED BY <1>1, <1>2, <1>3 DEF ThreadInv

-----------------------------------------------------------------------------
(* A thread that moves. *)

\* One thread moves on, or ends; nobody else writes.
ThreadMoves(w) ==
    /\ \A v \in Workers \ {w} : worker'[v] = worker[v]
    /\ \A pcs \in {Beginning, Executing, Living} :
          worker'[w].pc \in pcs => worker[w].pc \in pcs /\ worker'[w].run = worker[w].run
    /\ UNCHANGED call

LEMMA ThreadShrinks ==
    ASSUME NEW w, ThreadMoves(w), NEW q
    PROVE  Shrinks(q)
BY DEF ThreadMoves, Shrinks, At, Fetching

LEMMA ThreadLeaves ==
    ASSUME NEW w \in Workers, NEW pcs, worker[w].pc \in pcs, worker'[w].pc \notin pcs
    PROVE  At(worker', worker[w].run, pcs) # At(worker, worker[w].run, pcs)
BY DEF At

\* Whoever notes what the history makes true has a settled record.
LEMMA SettledNoting ==
    ASSUME NEW record \in Record, NEW old \in Record, record.history = old.history, Settled(old),
           NEW kind \in Kinds,
           \/ record.ref = NoRef \/ record.ref = old.ref
           \/ Finishes(old.history) > 0 \/ kind = "execution_finished",
           \/ record.state \notin Terminal \/ record.state = old.state
           \/ kind \in {"cancelled", "execution_finished", "execution_failed"}
    PROVE  Settled(Noting(kind, record))
<1>1. old.history \in Seq(Kinds) /\ Noting(kind, record).history = Append(old.history, kind)
  BY DEF Record, Noting
<1>2. CountsOneMore(Append(old.history, kind), old.history, kind) /\ CountsOK(old.history)
  BY <1>1, CountsAppend, CountsType
<1>3. Noting(kind, record).ref = record.ref /\ Noting(kind, record).state = record.state
  BY DEF Noting, Record
<1>4. Finishes(old.history) > 0 \/ kind = "execution_finished"
         => Finishes(Noting(kind, record).history) > 0
  BY <1>1, <1>2 DEF CountsOneMore, CountsOK, One
<1>5. Ends(old.history) > 0 \/ kind \in {"cancelled", "execution_finished", "execution_failed"}
         => Ends(Noting(kind, record).history) > 0
  BY <1>1, <1>2 DEF CountsOneMore, CountsOK, One
<1> QED BY <1>3, <1>4, <1>5 DEF Settled

\* One more entry, not a launch: the run progresses.
LEMMA NotingProgresses ==
    ASSUME DiskInv, NEW r \in Runs, Tracked(r), NEW record \in Record,
           record.history = runs[r].history, NEW kind \in Kinds \ {"created", "resumed"},
           record.ref # NoRef \/ runs[r].ref = NoRef \/ Launches(runs[r].history) > 1,
           runs' = [runs EXCEPT ![r] = Noting(kind, record)]
    PROVE  \A q \in Runs : Progresses(q)
<1>1. runs \in [Runs -> Record \cup {NoRecord}]
  BY DEF DiskInv, TypeInv, TablesOK, RunsOK
<1>2. Noting(kind, record) \in Record /\ Noting(kind, record).ref = record.ref
  BY NotingIsRecord DEF Noting, Record
<1>3. runs'[r] = Noting(kind, record) /\ \A q \in Runs \ {r} : runs'[q] = runs[q]
  BY <1>1
<1>4. runs[r].history \in Seq(Kinds) /\ runs'[r].history = Append(runs[r].history, kind)
  BY <1>3, HistoriesAreSequences DEF Noting, Record
<1>5. CountsOneMore(runs'[r].history, runs[r].history, kind) /\ CountsOK(runs[r].history)
  BY <1>4, CountsAppend, CountsType
<1>6. Progresses(r)
  <2>1. Tracked(r)'
    BY <1>2, <1>3, SentinelsAssumption DEF Tracked
  <2>2. /\ Finishes(runs[r].history) > 0 => Finishes(runs'[r].history) > 0
        /\ Ends(runs[r].history) > 0 => Ends(runs'[r].history) > 0
        /\ Launches(runs'[r].history) = Launches(runs[r].history)
    BY <1>5 DEF CountsOneMore, CountsOK, One
  <2> QED BY <1>2, <1>3, <2>1, <2>2 DEF Progresses, LaunchedOnce
<1> QED BY <1>3, <1>6, UnchangedProgresses

\* update_run with an entry whose writer is done with it.
LEMMA NotedUpdateTells ==
    ASSUME DiskInv, TypeInv', TablesTell, workspace' = workspace,
           NEW r \in Runs, Tracked(r), NEW record \in Record, record.history = runs[r].history,
           NEW kind \in Kinds \ {"created", "resumed"}, NEW saved \in BOOLEAN,
           UpdateRun(saved, r, Noting(kind, record)),
           \A q \in Runs : Shrinks(q), Settled(Noting(kind, record)),
           kind = "execution_started" => At(worker', r, Beginning) # At(worker, r, Beginning),
           kind = "execution_finished" =>
               /\ At(worker', r, Executing) # At(worker, r, Executing)
               /\ saved => At(worker', r, Living) # At(worker, r, Living),
           kind = "execution_failed" => At(worker', r, Living) # At(worker, r, Living),
           kind \in {"fetch_finished", "fetch_failed"} => Fetching(call', r) # Fetching(call, r)
    PROVE  TablesTell'
<1> DEFINE h == runs[r].history
           g == Append(h, kind)
<1>1. h \in Seq(Kinds) /\ Noting(kind, record).history = g /\ Noting(kind, record) \in Record
  BY HistoriesAreSequences, NotingIsRecord DEF Noting, Record
<1>2. used.faults \in Nat /\ used'.faults \in Nat
  BY DEF DiskInv, TypeInv, TablesOK, UsedOK
<1>3. /\ used.faults <= used'.faults
      /\ ~saved => used'.faults = used.faults + 1
      /\ runs' = [runs EXCEPT ![r] = Noting(kind, record)]
      /\ IF saved THEN disk' = [disk EXCEPT ![workspace][r] = Noting(kind, record)] ELSE disk' = disk
  BY <1>2 DEF UpdateRun, Persist, Fault, DiskInv, TypeInv, TablesOK, UsedOK
<1>4. runs'[r].history = g
  BY <1>1, <1>3 DEF DiskInv, TypeInv, TablesOK, RunsOK
<1>5. StoryOf(r)'
  <2>1. \A pcs : IsFiniteSet(At(worker, r, pcs)) /\ IsFiniteSet(Fetching(call, r))
    BY WorkersFinite
  <2>2. /\ At(worker', r, Beginning) \in SUBSET At(worker, r, Beginning)
        /\ At(worker', r, Executing) \in SUBSET At(worker, r, Executing)
        /\ At(worker', r, Living) \in SUBSET At(worker, r, Living)
        /\ Fetching(call', r) \in SUBSET Fetching(call, r)
    BY DEF Shrinks
  <2>3. Story(h, At(worker, r, Beginning), At(worker, r, Executing),
              At(worker, r, Living), Fetching(call, r), used.faults)
    BY DEF TablesTell, TableStories, StoryOf
  <2> HIDE DEF h, g
  <2>4. Story(Append(h, kind), At(worker', r, Beginning), At(worker', r, Executing),
              At(worker', r, Living), Fetching(call', r), used'.faults)
    BY <1>1, <1>2, <1>3, <2>1, <2>2, <2>3, StoryNotes
  <2> USE DEF g
  <2> QED BY <1>4, <2>4 DEF StoryOf
<1>6. ~saved => used'.faults > 0
  BY <1>2, <1>3
<1> QED BY <1>1, <1>3, <1>5, <1>6, UpdateTells

LEMMA ThreadMovesOn ==
    ASSUME LedgerInv, TypeInv', NEW w \in Workers, ThreadMoves(w),
           processes' = processes, used.faults <= used'.faults, \A r \in Runs : Progresses(r),
           worker'[w].pc \in Polling => worker[w].pc \in Polling,
           worker[w].pc \in Polling \cup {"failing", "gone"} /\ processes[worker[w].run] = w =>
               /\ worker'[w].run = worker[w].run
               /\ \/ worker'[w].pc \in Polling
                  \/ used'.faults > 0 /\ worker'[w].pc \in {"failing", "gone"}
    PROVE  ThreadInv'
<1>1. DiskInv /\ ThreadInv
  BY DEF LedgerInv
<1>2. ASSUME NEW v \in Workers
      PROVE  /\ worker'[v].pc \in Living => worker[v].pc \in Living /\ worker'[v].run = worker[v].run
             /\ worker'[v].pc \in Polling => worker[v].pc \in Polling /\ worker'[v].run = worker[v].run
  BY DEF ThreadMoves, Living, Executing, Polling
<1>3. ASSUME NEW r \in Runs, processes[r] # NoWorker
      PROVE  /\ worker'[processes[r]].run = worker[processes[r]].run
             /\ \/ worker'[processes[r]].pc \in Polling
                \/ used'.faults > 0 /\ worker'[processes[r]].pc \in {"failing", "gone"}
  <2>1. processes[r] \in Workers /\ used.faults \in Nat /\ used'.faults \in Nat
    BY <1>1, <1>3 DEF DiskInv, TypeInv, TablesOK, UsedOK
  <2>2. worker[processes[r]].run = r
    BY <1>1, <1>3 DEF ThreadInv, ProcessesExact
  <2>3. \/ worker[processes[r]].pc \in Polling
        \/ used.faults > 0 /\ worker[processes[r]].pc \in {"failing", "gone"}
    BY <1>1, <1>3 DEF ThreadInv, ProcessesExact, Polling
  <2>4. CASE processes[r] = w
    <3>1. processes[worker[w].run] = w /\ worker[w].pc \in Polling \cup {"failing", "gone"}
      BY <2>2, <2>3, <2>4
    <3> QED BY <2>4, <3>1
  <2>5. CASE processes[r] # w
    BY <2>1, <2>3, <2>5 DEF ThreadMoves
  <2> QED BY <2>4, <2>5
<1> QED BY <1>1, <1>2, <1>3, ThreadsGoOn

\* A thread that moves and writes nothing.
LEMMA QuietThread ==
    ASSUME LedgerInv, TypeInv', NEW w \in Workers, ThreadMoves(w),
           UNCHANGED <<workspace, RunVars>>, used.faults <= used'.faults
    PROVE  TablesTell' /\ CallStories' /\ \A r \in Runs : Progresses(r)
<1>1. \A q \in Runs : Shrinks(q)
  BY ThreadShrinks
<1>2. \A r \in Runs : Progresses(r)
  BY UnchangedProgresses DEF RunVars
<1>3. CallStories'
  BY <1>2, CallStoriesGoOn DEF LedgerInv, ThreadMoves
<1> QED BY <1>1, <1>2, <1>3, QuietTells DEF LedgerInv

\* The steps of a thread that neither write nor change the process table.
LEMMA WaitingTells ==
    ASSUME LedgerInv, TypeInv', NEW w \in Workers, SpawnChild(w) \/ PollChild(w) \/ WakeUp(w)
    PROVE  LedgerInv'
<1>1. worker \in [Workers -> WorkerRecord] /\ used.faults \in Nat
  BY DEF LedgerInv, DiskInv, TypeInv, WorkersOK, TablesOK, UsedOK
<1>2. UNCHANGED <<workspace, RunVars, processes, call>>
  BY DEF SpawnChild, PollChild, WakeUp, HostRest
<1>3. /\ \A v \in Workers \ {w} : worker'[v] = worker[v]
      /\ worker'[w].run = worker[w].run
      /\ \/ worker[w].pc = "spawn" /\ worker'[w].pc \in {"register", "failing"}
         \/ worker[w].pc \in Polling /\ worker'[w].pc \in Polling
         \/ worker[w].pc \in Polling /\ worker'[w].pc = "failing" /\ used'.faults > 0
      /\ used.faults <= used'.faults
  BY <1>1
  DEF SpawnChild, PollChild, WakeUp, WorkerAt, WorkerGoes, WorkerRecord, Fault, Polling,
      LedgerInv, DiskInv, TypeInv, TablesOK, UsedOK
<1>4. ThreadMoves(w)
  BY <1>2, <1>3 DEF ThreadMoves, Beginning, Executing, Living, Polling
<1>5. TablesTell' /\ CallStories' /\ \A r \in Runs : Progresses(r)
  BY <1>2, <1>3, <1>4, QuietThread
<1>6. ThreadInv'
  <2>1. worker'[w].pc \in Polling => worker[w].pc \in Polling
    BY <1>3 DEF Polling
  <2>2. worker[w].pc \in Polling \cup {"failing", "gone"} =>
            \/ worker'[w].pc \in Polling
            \/ used'.faults > 0 /\ worker'[w].pc \in {"failing", "gone"}
    BY <1>3 DEF Polling
  <2> QED BY <1>2, <1>3, <1>4, <1>5, <2>1, <2>2, ThreadMovesOn
<1> QED BY <1>5, <1>6, NextDiskInv DEF LedgerInv, Next, WorkerStep

\* A thread that has an execution to finish has a launch to account for.
LEMMA ExecutingIsLaunched ==
    ASSUME LedgerInv, NEW w \in Workers, worker[w].pc \in Executing,
           NEW r \in Runs, worker[w].run = r, Tracked(r)
    PROVE  /\ Finishes(runs[r].history) \in Nat /\ Launches(runs[r].history) \in Nat
           /\ Finishes(runs[r].history) + 1 <= Launches(runs[r].history)
<1>1. CountsOK(runs[r].history)
  BY HistoriesAreSequences, CountsType DEF LedgerInv
<1>2. IsFiniteSet(At(worker, r, Executing)) /\ w \in At(worker, r, Executing)
  <2>1. w \in At(worker, r, Executing)
    BY DEF At
  <2> QED BY <2>1, WorkersFinite
<1>3. Cardinality(At(worker, r, Executing)) \in Nat /\ 1 <= Cardinality(At(worker, r, Executing))
  <2>1. Cardinality(At(worker, r, Executing)) \in Nat
    BY <1>2, FS_CardinalityType
  <2>2. Cardinality(At(worker, r, Executing)) # 0
    BY <1>2, FS_EmptySet
  <2> QED BY <2>1, <2>2
<1>4. Finishes(runs[r].history) + Cardinality(At(worker, r, Executing)) <= Launches(runs[r].history)
  BY DEF LedgerInv, TablesTell, TableStories, StoryOf, Story, Tally
<1>5. Finishes(runs[r].history) \in Nat /\ Launches(runs[r].history) \in Nat
  BY <1>1 DEF CountsOK
<1> QED BY <1>3, <1>4, <1>5

\* A thread that moves and writes an entry.
LEMMA NotingThread ==
    ASSUME LedgerInv, TypeInv', NEW w \in Workers, ThreadMoves(w), workspace' = workspace,
           NEW r \in Runs, worker[w].run = r, Tracked(r),
           NEW record \in Record, record.history = runs[r].history,
           NEW kind \in {"execution_started", "execution_finished", "execution_failed"},
           NEW saved \in BOOLEAN, UpdateRun(saved, r, Noting(kind, record)),
           \/ record.ref = runs[r].ref
           \/ kind = "execution_finished" /\ worker[w].pc \in Executing,
           \/ record.state \notin Terminal \/ record.state = runs[r].state
           \/ kind \in {"execution_finished", "execution_failed"},
           kind = "execution_started" => worker[w].pc \in Beginning /\ worker'[w].pc \notin Beginning,
           kind = "execution_finished" =>
               /\ worker[w].pc \in Executing /\ worker'[w].pc \notin Executing
               /\ saved => worker'[w].pc \notin Living,
           kind = "execution_failed" => worker[w].pc \in Living /\ worker'[w].pc \notin Living
    PROVE  TablesTell' /\ CallStories' /\ \A q \in Runs : Progresses(q)
<1>1. DiskInv /\ TablesTell /\ CallStories /\ runs[r] \in Record /\ Settled(runs[r])
  BY HistoriesAreSequences DEF LedgerInv, TablesTell, TableStories
<1>2. kind \in Kinds \ {"created", "resumed"}
  BY DEF Kinds
<1>3. Settled(Noting(kind, record))
  BY <1>1, <1>2, SettledNoting
<1>4. record.ref # NoRef \/ runs[r].ref = NoRef \/ Launches(runs[r].history) > 1
  <2> SUFFICES ASSUME record.ref # runs[r].ref, runs[r].ref # NoRef
               PROVE  Launches(runs[r].history) > 1
    OBVIOUS
  <2>1. Finishes(runs[r].history) > 0
    BY <1>1 DEF Settled
  <2> QED BY <2>1, ExecutingIsLaunched
<1>5. \A q \in Runs : Progresses(q)
  BY <1>1, <1>2, <1>4, NotingProgresses DEF UpdateRun
<1>6. CallStories'
  BY <1>1, <1>5, CallStoriesGoOn DEF ThreadMoves
<1>7. TablesTell'
  <2>1. \A q \in Runs : Shrinks(q)
    BY ThreadShrinks
  <2>2. kind = "execution_started" => At(worker', r, Beginning) # At(worker, r, Beginning)
    BY ThreadLeaves DEF Living, Executing, Beginning
  <2>3. kind = "execution_finished" =>
            /\ At(worker', r, Executing) # At(worker, r, Executing)
            /\ saved => At(worker', r, Living) # At(worker, r, Living)
    BY ThreadLeaves DEF Living
  <2>4. kind = "execution_failed" => At(worker', r, Living) # At(worker, r, Living)
    BY ThreadLeaves
  <2> QED BY <1>1, <1>2, <1>3, <2>1, <2>2, <2>3, <2>4, NotedUpdateTells
<1> QED BY <1>5, <1>6, <1>7

LEMMA UpdateFaults ==
    ASSUME TypeInv, NEW saved \in BOOLEAN, NEW r, NEW record,
           UpdateRun(saved, r, record) \/ Persist(saved, r, record)
    PROVE  used.faults <= used'.faults /\ (~saved => used'.faults > 0)
BY DEF UpdateRun, Persist, Fault, TypeInv, TablesOK, UsedOK

LEMMA BeginTells ==
    ASSUME LedgerInv, TypeInv', NEW w \in Workers, BeginExecution(w)
    PROVE  LedgerInv'
<1> DEFINE r == worker[w].run
           record == [runs[r] EXCEPT !.state = IF runs[r].executor = "local"
                                               THEN "running" ELSE "submitting"]
<1>1. /\ worker \in [Workers -> WorkerRecord] /\ used.faults \in Nat
      /\ worker[w].pc = "begin" /\ r \in Runs /\ TypeInv
  BY DEF BeginExecution, WorkerAt, LedgerInv, DiskInv, TypeInv, WorkersOK, WorkerOK, TablesOK, UsedOK
<1>2. UNCHANGED <<workspace, processes, call>>
  BY DEF BeginExecution, HostRest
<1>3. /\ \A v \in Workers \ {w} : worker'[v] = worker[v]
      /\ \/ worker'[w].pc = "idle"
         \/ worker'[w].pc \in {"spawn", "failing"} /\ worker'[w].run = r
  BY <1>1 DEF BeginExecution, WorkerEnds, WorkerGoes, WorkerRecord, IdleWorker
<1>4. ThreadMoves(w) /\ worker'[w].pc \notin Beginning
  BY <1>1, <1>2, <1>3 DEF ThreadMoves, Beginning, Executing, Living
<1>5. used.faults <= used'.faults
  BY <1>1, UpdateFaults DEF BeginExecution, Fault, TypeInv, TablesOK, UsedOK
<1>6. TablesTell' /\ CallStories' /\ \A q \in Runs : Progresses(q)
  <2>1. CASE UNCHANGED RunVars
    BY <1>2, <1>4, <1>5, <2>1, QuietThread
  <2>2. CASE Tracked(r) /\ \E saved \in BOOLEAN : UpdateRun(saved, r, Noting("execution_started", record))
    <3>1. runs[r] \in Record
      BY <1>1, <2>2, HistoriesAreSequences DEF LedgerInv
    <3>2. /\ record \in Record /\ record.history = runs[r].history /\ record.ref = runs[r].ref
          /\ record.state \notin Terminal
      BY <3>1 DEF Record, RunStates, RemoteStates, Terminal
    <3>3. worker[w].pc \in Beginning
      BY <1>1 DEF Beginning
    <3> HIDE DEF record
    <3> QED BY <1>1, <1>2, <1>4, <2>2, <3>2, <3>3, NotingThread
  <2> QED BY <2>1, <2>2 DEF BeginExecution
<1>7. ThreadInv'
  BY <1>1, <1>2, <1>3, <1>4, <1>5, <1>6, ThreadMovesOn DEF Polling
<1> QED BY <1>6, <1>7, NextDiskInv DEF LedgerInv, Next, WorkerStep

LEMMA FinishTells ==
    ASSUME LedgerInv, TypeInv', NEW w \in Workers, FinishExecution(w)
    PROVE  LedgerInv'
<1> DEFINE r == worker[w].run
           record == [runs[r] EXCEPT !.exit = worker[w].child,
                                     !.ref = worker[w].out,
                                     !.state = SettledState(runs[r], worker[w].child, worker[w].out)]
<1>1. /\ worker \in [Workers -> WorkerRecord] /\ used.faults \in Nat
      /\ worker[w].pc = "join" /\ worker[w].child \in {"ok", "failed"} /\ r \in Runs /\ TypeInv
  BY DEF FinishExecution, WorkerAt, LedgerInv, DiskInv, TypeInv, WorkersOK, WorkerOK, TablesOK, UsedOK
<1>2. UNCHANGED <<workspace, processes, call>>
  BY DEF FinishExecution, HostRest
<1>3. /\ \A v \in Workers \ {w} : worker'[v] = worker[v]
      /\ \/ worker'[w].pc = "idle"
         \/ worker'[w].pc = "failing" /\ worker'[w].run = r
  BY <1>1 DEF FinishExecution, WorkerEnds, WorkerGoes, WorkerRecord, IdleWorker
<1>4. ThreadMoves(w) /\ worker[w].pc \in Executing /\ worker'[w].pc \notin Executing
  BY <1>1, <1>2, <1>3 DEF ThreadMoves, Beginning, Executing, Living
<1>5. used.faults <= used'.faults
  BY <1>1, UpdateFaults DEF FinishExecution, Fault, TypeInv, TablesOK, UsedOK
<1>6. TablesTell' /\ CallStories' /\ \A q \in Runs : Progresses(q)
  <2>1. CASE UNCHANGED RunVars
    BY <1>2, <1>4, <1>5, <2>1, QuietThread
  <2>2. CASE /\ Tracked(r)
             /\ \E saved \in BOOLEAN :
                   /\ UpdateRun(saved, r, Noting("execution_finished", record))
                   /\ IF saved THEN WorkerEnds(w) ELSE WorkerGoes(w, "failing")
    <3>1. runs[r] \in Record
      BY <1>1, <2>2, HistoriesAreSequences DEF LedgerInv
    <3>2. record \in Record /\ record.history = runs[r].history
      <4>1. SettledState(runs[r], worker[w].child, worker[w].out) \in RunStates
        BY DEF SettledState, RunStates, RemoteStates, Terminal
      <4>2. worker[w].out \in Refs \cup {NoRef}
        BY <1>1 DEF WorkerRecord
      <4> QED BY <1>1, <3>1, <4>1, <4>2 DEF Record
    <3>3. PICK saved \in BOOLEAN :
              /\ UpdateRun(saved, r, Noting("execution_finished", record))
              /\ IF saved THEN WorkerEnds(w) ELSE WorkerGoes(w, "failing")
      BY <2>2
    <3>4. saved => worker'[w].pc \notin Living
      BY <1>1, <3>3 DEF WorkerEnds, IdleWorker, Living, Executing
    <3> HIDE DEF record
    <3> QED BY <1>1, <1>2, <1>4, <2>2, <3>2, <3>3, <3>4, NotingThread
  <2> QED BY <2>1, <2>2 DEF FinishExecution
<1>7. ThreadInv'
  BY <1>1, <1>2, <1>3, <1>4, <1>5, <1>6, ThreadMovesOn DEF Polling
<1> QED BY <1>6, <1>7, NextDiskInv DEF LedgerInv, Next, WorkerStep

LEMMA FailTells ==
    ASSUME LedgerInv, TypeInv', NEW w \in Workers, FailExecution(w)
    PROVE  LedgerInv'
<1> DEFINE r == worker[w].run
           record == [runs[r] EXCEPT !.state = IF @ = "cancelled" THEN @ ELSE "failed"]
<1>1. /\ worker \in [Workers -> WorkerRecord] /\ used.faults \in Nat
      /\ worker[w].pc = "failing" /\ r \in Runs /\ TypeInv
  BY DEF FailExecution, WorkerAt, LedgerInv, DiskInv, TypeInv, WorkersOK, WorkerOK, TablesOK, UsedOK
<1>2. UNCHANGED <<workspace, processes, call>>
  BY DEF FailExecution, HostRest
<1>3. /\ \A v \in Workers \ {w} : worker'[v] = worker[v]
      /\ \/ worker'[w].pc = "idle" /\ processes[r] # w
         \/ worker'[w].pc = "gone" /\ worker'[w].run = r
  BY <1>1 DEF FailExecution, WorkerEnds, WorkerGoes, WorkerRecord, IdleWorker
<1>4. ThreadMoves(w) /\ worker[w].pc \in Living /\ worker'[w].pc \notin Living
  BY <1>1, <1>2, <1>3 DEF ThreadMoves, Beginning, Executing, Living
<1>5. used.faults <= used'.faults
  BY <1>1, UpdateFaults DEF FailExecution, TypeInv, TablesOK, UsedOK
<1>6. TablesTell' /\ CallStories' /\ \A q \in Runs : Progresses(q)
  <2>1. CASE UNCHANGED RunVars
    BY <1>2, <1>4, <1>5, <2>1, QuietThread
  <2>2. CASE Tracked(r) /\ \E saved \in BOOLEAN : UpdateRun(saved, r, Noting("execution_failed", record))
    <3>1. runs[r] \in Record
      BY <1>1, <2>2, HistoriesAreSequences DEF LedgerInv
    <3>2. record \in Record /\ record.history = runs[r].history /\ record.ref = runs[r].ref
      BY <3>1 DEF Record, RunStates, RemoteStates, Terminal
    <3> HIDE DEF record
    <3> QED BY <1>1, <1>2, <1>4, <2>2, <3>2, NotingThread
  <2> QED BY <2>1, <2>2 DEF FailExecution
<1>7. ThreadInv'
  <2>1. processes[r] = w => used.faults > 0
    <3>1. processes[r] # NoWorker => worker[processes[r]].pc \in
              Polling \cup (IF used.faults > 0 THEN {"failing", "gone"} ELSE {})
      BY <1>1 DEF LedgerInv, ThreadInv, ProcessesExact, Polling
    <3> QED BY <1>1, <3>1, SentinelsAssumption DEF Polling
  <2>2. processes[r] = w => used'.faults > 0 /\ worker'[w].pc = "gone" /\ worker'[w].run = r
    <3>1. used'.faults \in Nat
      BY DEF TypeInv, TablesOK, UsedOK
    <3> QED BY <1>1, <1>3, <1>5, <2>1, <3>1
  <2>3. worker'[w].pc \notin Polling
    BY <1>3 DEF Polling
  <2> QED BY <1>2, <1>4, <1>5, <1>6, <2>2, <2>3, ThreadMovesOn
<1> QED BY <1>6, <1>7, NextDiskInv DEF LedgerInv, Next, WorkerStep

\* At most one thread executes a run that was launched once.
LEMMA OnlyExecution ==
    ASSUME LedgerInv, NEW r \in Runs, LaunchedOnce(r),
           NEW v \in Workers, NEW w \in Workers, worker[v].run = r, worker[w].run = r,
           worker[v].pc \in Executing, worker[w].pc \in Executing
    PROVE  v = w
<1> DEFINE S == At(worker, r, Executing)
<1>1. v \in S /\ w \in S
  BY DEF At
<1>2. IsFiniteSet(S)
  BY WorkersFinite
<1>3. Tracked(r) /\ Launches(runs[r].history) = 1
  BY DEF LaunchedOnce
<1>4. Finishes(runs[r].history) \in Nat
  BY <1>3, HistoriesAreSequences, CountsType DEF LedgerInv, CountsOK
<1>5. Finishes(runs[r].history) + Cardinality(S) <= Launches(runs[r].history)
  BY <1>3 DEF LedgerInv, TablesTell, TableStories, StoryOf, Story, Tally
<1> HIDE DEF S
<1>6. SUFFICES ASSUME v # w PROVE FALSE
  OBVIOUS
<1>7. /\ Cardinality({v}) = 1 /\ {v} \in SUBSET S /\ {v} # S
  BY <1>1, <1>6, FS_Singleton
<1>8. Cardinality(S) \in Nat /\ 2 <= Cardinality(S)
  BY <1>2, <1>7, Fewer
<1> QED BY <1>3, <1>4, <1>5, <1>8

LEMMA RegisterTells ==
    ASSUME LedgerInv, TypeInv', NEW w \in Workers, RegisterChild(w) \/ UnregisterChild(w)
    PROVE  LedgerInv'
<1> DEFINE r == worker[w].run
<1>1. /\ worker \in [Workers -> WorkerRecord] /\ processes \in [Runs -> Workers \cup {NoWorker}]
      /\ r \in Runs
      /\ \/ worker[w].pc = "register" /\ worker'[w].pc = "poll"
            /\ processes' = [processes EXCEPT ![r] = w]
         \/ worker[w].pc = "unregister" /\ worker'[w].pc = "join"
            /\ processes' = [processes EXCEPT ![r] = NoWorker]
      /\ worker'[w].run = r /\ \A v \in Workers \ {w} : worker'[v] = worker[v]
  BY DEF RegisterChild, UnregisterChild, WorkerAt, WorkerGoes, WorkerRecord,
         LedgerInv, DiskInv, TypeInv, WorkersOK, WorkerOK, TablesOK
<1>2. UNCHANGED <<workspace, RunVars, call, used>>
  BY DEF RegisterChild, UnregisterChild, HostRest
<1>3. ThreadMoves(w)
  BY <1>1, <1>2 DEF ThreadMoves, Beginning, Executing, Living
<1>4. used.faults \in Nat /\ used.faults <= used'.faults
  BY <1>2 DEF LedgerInv, DiskInv, TypeInv, TablesOK, UsedOK
<1>5. TablesTell' /\ CallStories' /\ \A q \in Runs : Progresses(q)
  BY <1>2, <1>3, <1>4, QuietThread
<1>6. WorkersTracked'
  BY <1>2, <1>3 DEF WorkersTracked, ThreadMoves, Tracked, RunVars, LedgerInv, ThreadInv
<1>7. ProcessesExact'
  <2> SUFFICES ASSUME NEW q \in Runs, processes'[q] # NoWorker
               PROVE  /\ worker'[processes'[q]].run = q
                      /\ worker'[processes'[q]].pc \in {"poll", "sleep", "unregister"}
                            \cup (IF used'.faults > 0 THEN {"failing", "gone"} ELSE {})
    BY DEF ProcessesExact
  <2>1. CASE q = r
    BY <1>1, <2>1
  <2>2. CASE q # r
    <3>1. processes'[q] = processes[q] /\ processes[q] \in Workers
      BY <1>1, <2>2
    <3>2. /\ worker[processes[q]].run = q
          /\ worker[processes[q]].pc \in {"poll", "sleep", "unregister"}
                \cup (IF used.faults > 0 THEN {"failing", "gone"} ELSE {})
      BY <3>1 DEF LedgerInv, ThreadInv, ProcessesExact
    <3>3. processes[q] # w
      BY <2>2, <3>2
    <3> QED BY <1>1, <1>2, <3>1, <3>2, <3>3
  <2> QED BY <2>1, <2>2
<1>8. OnlyChildKnown'
  <2> SUFFICES ASSUME NEW v \in Workers, worker'[v].pc \in Polling, LaunchedOnce(worker[v].run)'
               PROVE  processes'[worker'[v].run] = v
    BY DEF OnlyChildKnown, Polling
  <2>1. LaunchedOnce(worker'[v].run)
    BY <1>2 DEF LaunchedOnce, Tracked, RunVars
  <2>2. CASE v = w
    BY <1>1, <2>2 DEF Polling
  <2>3. CASE v # w
    <3>1. worker'[v] = worker[v] /\ worker[v].pc \in Executing /\ worker[w].pc \in Executing
      BY <1>1, <2>3 DEF Polling, Executing
    <3>2. worker[v].run # r
      BY <1>1, <2>1, <2>3, <3>1, OnlyExecution
    <3>3. processes[worker[v].run] = v
      BY <2>1, <3>1 DEF LedgerInv, ThreadInv, OnlyChildKnown, Polling
    <3>4. worker[v].run \in Runs
      BY <3>1 DEF LedgerInv, DiskInv, TypeInv, WorkersOK, WorkerOK, Executing
    <3> QED BY <1>1, <3>1, <3>2, <3>3, <3>4
  <2> QED BY <2>2, <2>3
<1> QED BY <1>5, <1>6, <1>7, <1>8, NextDiskInv DEF LedgerInv, ThreadInv, Next, WorkerStep

LEMMA WorkerStepTells ==
    ASSUME LedgerInv, NEW w \in Workers, WorkerStep(w)
    PROVE  LedgerInv'
<1>1. TypeInv'
  BY NextTypes DEF LedgerInv, DiskInv, Next
<1> QED BY <1>1, WaitingTells, BeginTells, FinishTells, FailTells, RegisterTells DEF WorkerStep

-----------------------------------------------------------------------------
(* The outside world and the commands that write nothing. *)

\* A step that leaves the threads where they are, the process table and the
\* table alone; a command moves and does not begin to fetch.
LEMMA QuietCallTells ==
    ASSUME LedgerInv, TypeInv', UNCHANGED <<workspace, RunVars, processes>>,
           used.faults <= used'.faults,
           \A v \in Workers : \/ worker'[v].pc = worker[v].pc /\ worker'[v].run = worker[v].run
                              \/ /\ worker[v].pc = "gone" /\ worker'[v].pc = "idle"
                                 /\ processes[worker[v].run] # v,
           \A c \in Callers : \/ call'[c] = call[c]
                              \/ call'[c].pc # "fetch_cli" /\ CallStory(call[c])'
    PROVE  TablesTell' /\ CallStories' /\ ThreadInv'
<1>1. DiskInv /\ TablesTell /\ CallStories /\ ThreadInv
  BY DEF LedgerInv
<1>2. \A r \in Runs : Progresses(r)
  BY UnchangedProgresses DEF RunVars
<1>3. \A q \in Runs : Shrinks(q)
  BY DEF Shrinks, At, Fetching, Beginning, Executing, Living
<1>4. TablesTell'
  BY <1>1, <1>3, QuietTells
<1>5. CallStories'
  BY <1>1, <1>2, CallStoriesGoOn
<1>6. ThreadInv'
  <2>1. ASSUME NEW v \in Workers
        PROVE  /\ worker'[v].pc \in Living => worker[v].pc \in Living /\ worker'[v].run = worker[v].run
               /\ worker'[v].pc \in Polling => worker[v].pc \in Polling /\ worker'[v].run = worker[v].run
    BY DEF Living, Executing, Polling
  <2>2. ASSUME NEW r \in Runs, processes[r] # NoWorker
        PROVE  /\ worker'[processes[r]].run = worker[processes[r]].run
               /\ \/ worker'[processes[r]].pc \in Polling
                  \/ used'.faults > 0 /\ worker'[processes[r]].pc \in {"failing", "gone"}
    <3>1. /\ processes[r] \in Workers /\ worker[processes[r]].run = r
          /\ used.faults \in Nat /\ used'.faults \in Nat
      BY <1>1, <2>2 DEF DiskInv, TypeInv, TablesOK, UsedOK, ThreadInv, ProcessesExact
    <3>2. \/ worker[processes[r]].pc \in Polling
          \/ used.faults > 0 /\ worker[processes[r]].pc \in {"failing", "gone"}
      BY <1>1, <2>2 DEF ThreadInv, ProcessesExact, Polling
    <3>3. /\ worker'[processes[r]].pc = worker[processes[r]].pc
          /\ worker'[processes[r]].run = worker[processes[r]].run
      BY <3>1
    <3> QED BY <3>1, <3>2, <3>3
  <2> QED BY <1>1, <1>2, <2>1, <2>2, ThreadsGoOn
<1> QED BY <1>4, <1>5, <1>6

LEMMA OutsideTells ==
    ASSUME LedgerInv, TypeInv', OutsideStep
    PROVE  LedgerInv'
<1>1. /\ UNCHANGED <<workspace, RunVars, processes, call, used>>
      /\ worker \in [Workers -> WorkerRecord] /\ used.faults \in Nat
  BY DEF OutsideStep, ChildExits, ChildSubmits, JobMoves, HostRest,
         LedgerInv, DiskInv, TypeInv, WorkersOK, TablesOK, UsedOK
<1>2. \A v \in Workers : \/ worker'[v].pc = worker[v].pc /\ worker'[v].run = worker[v].run
                         \/ /\ worker[v].pc = "gone" /\ worker'[v].pc = "idle"
                            /\ processes[worker[v].run] # v
  BY <1>1 DEF OutsideStep, ChildExits, ChildSubmits, JobMoves, WorkerRecord, IdleWorker
<1>3. TablesTell' /\ CallStories' /\ ThreadInv'
  BY <1>1, <1>2, QuietCallTells
<1> QED BY <1>3, NextDiskInv DEF LedgerInv, Next

LEMMA IssueTells ==
    ASSUME LedgerInv, TypeInv', NEW c \in Callers, NEW r \in Runs,
           \/ \E op \in AllOps : Issue(c, op, r)
           \/ \E executor \in Executors : StartBuild(c, r, executor)
    PROVE  LedgerInv'
<1>1. /\ UNCHANGED <<workspace, RunVars, processes, worker>>
      /\ call \in [Callers -> CallRecord] /\ used.faults \in Nat
  BY DEF Issue, StartBuild, HostRest, LedgerInv, DiskInv, TypeInv, CallsOK, TablesOK, UsedOK
<1>2. used.faults <= used'.faults
  <2>1. PICK op \in AllOps : Counted(op)
    BY DEF Issue, StartBuild, AllOps
  <2>2. UsedOK
    BY DEF LedgerInv, DiskInv, TypeInv, TablesOK
  <2> QED BY <2>1, <2>2 DEF Counted, UsedOK
<1>3. \A d \in Callers \ {c} : call'[d] = call[d]
  BY <1>1 DEF Issue, StartBuild
<1>4. call'[c].pc # "fetch_cli" /\ CallStory(call[c])'
  <2>1. ASSUME NEW op \in AllOps, Issue(c, op, r) PROVE call'[c].pc # "fetch_cli" /\ CallStory(call[c])'
    <3>1. call'[c].pc = op /\ call'[c].run = r /\ op # "start" /\ Offered(op, r)
      BY <1>1, <2>1 DEF Issue, IdleCall
    <3>2. op = "resume" => Tracked(r)' /\ Ends(runs'[r].history) > 0
      <4> SUFFICES ASSUME op = "resume" PROVE Tracked(r)' /\ Ends(runs'[r].history) > 0
        OBVIOUS
      <4>1. Tracked(r) /\ runs[r].state \in Terminal
        BY <3>1 DEF Offered, Terminal
      <4>2. Ends(runs[r].history) > 0
        BY <4>1 DEF LedgerInv, TablesTell, TableStories, Settled
      <4> QED BY <1>1, <4>1, <4>2 DEF Tracked, RunVars
    <3> QED BY <3>1, <3>2 DEF AllOps, CallStory, Starting
  <2>2. ASSUME NEW executor \in Executors, StartBuild(c, r, executor)
        PROVE  call'[c].pc # "fetch_cli" /\ CallStory(call[c])'
    BY <1>1, <2>2 DEF StartBuild, IdleCall, CallStory, NewRecord
  <2> QED BY <2>1, <2>2
<1>5. TablesTell' /\ CallStories' /\ ThreadInv'
  BY <1>1, <1>2, <1>3, <1>4, QuietCallTells
<1> QED BY <1>5, NextDiskInv DEF LedgerInv, Next, CommandStep

\* A command that asks something outside knows a remote job.
LEMMA AskingTells ==
    ASSUME LedgerInv, TypeInv', NEW c \in Callers,
           InspectSnapshot(c) \/ InspectCli(c) \/ RetryTake(c) \/ RetryCli(c)
    PROVE  LedgerInv'
<1> DEFINE r == call[c].run
<1>1. /\ UNCHANGED <<workspace, RunVars, processes, worker, used>>
      /\ call \in [Callers -> CallRecord] /\ used.faults \in Nat /\ r \in Runs
  BY DEF InspectSnapshot, InspectCli, RetryTake, RetryCli, CallAt, HostRest,
         LedgerInv, DiskInv, TypeInv, CallsOK, CallOK, TablesOK, UsedOK
<1>2. /\ \A d \in Callers \ {c} : call'[d] = call[d]
      /\ \/ call'[c].pc = "idle"
         \/ /\ call'[c].run = r
            /\ \/ /\ call[c].pc \in {"inspect", "retry"}
                  /\ call'[c].pc \in {"inspect_cli", "retry_cli"}
                  /\ Tracked(r) /\ runs[r].ref # NoRef
               \/ call[c].pc = "inspect_cli" /\ call'[c].pc = "inspect_apply"
               \/ call[c].pc = "retry_cli" /\ call'[c].pc = "retry_apply"
  BY <1>1 DEF InspectSnapshot, InspectCli, RetryTake, RetryCli, CallAt, Return, IdleCall, CallRecord
<1>3. Tracked(r) /\ runs[r].ref # NoRef => Finishes(runs[r].history) > 0
  BY <1>1 DEF LedgerInv, TablesTell, TableStories, Settled
<1>4. runs' = runs /\ CallStory(call[c])
  BY <1>1 DEF LedgerInv, CallStories, RunVars
<1>5. call'[c].pc # "fetch_cli" /\ CallStory(call[c])'
  BY <1>2, <1>3, <1>4 DEF CallStory, Tracked, Starting
<1>6. TablesTell' /\ CallStories' /\ ThreadInv'
  BY <1>1, <1>2, <1>5, QuietCallTells
<1> QED BY <1>6, NextDiskInv DEF LedgerInv, Next, CommandStep, HandlerStep

LEMMA CancelAsksTells ==
    ASSUME LedgerInv, TypeInv', NEW c \in Callers,
           CancelLookup(c) \/ CancelKill(c) \/ CancelRemote(c) \/ CancelCli(c)
    PROVE  LedgerInv'
<1>1. /\ UNCHANGED <<workspace, RunVars, processes>>
      /\ call \in [Callers -> CallRecord] /\ used.faults \in Nat
      /\ worker \in [Workers -> WorkerRecord]
  BY DEF CancelLookup, CancelKill, CancelRemote, CancelCli, HostRest,
         LedgerInv, DiskInv, TypeInv, CallsOK, TablesOK, UsedOK, WorkersOK
<1>2. used.faults <= used'.faults
  BY <1>1 DEF CancelLookup, CancelKill, CancelRemote, CancelCli, Fault,
              LedgerInv, DiskInv, TypeInv, TablesOK, UsedOK
<1>3. \A v \in Workers : worker'[v].pc = worker[v].pc /\ worker'[v].run = worker[v].run
  BY <1>1 DEF CancelLookup, CancelKill, CancelRemote, CancelCli, WorkerRecord
<1>4. \A d \in Callers \ {c} : call'[d] = call[d]
  BY <1>1 DEF CancelLookup, CancelKill, CancelRemote, CancelCli, CallGoes, Return
<1>5. call'[c].pc \in {"idle", "cancel_kill", "cancel_remote", "cancel_cli", "cancel_mark"}
  BY <1>1
  DEF CancelLookup, CancelKill, CancelRemote, CancelCli, CallGoes, Return, IdleCall, CallRecord
<1>6. call'[c].pc # "fetch_cli" /\ CallStory(call[c])'
  BY <1>5 DEF CallStory, Starting
<1>7. TablesTell' /\ CallStories' /\ ThreadInv'
  BY <1>1, <1>2, <1>3, <1>4, <1>6, QuietCallTells
<1> QED BY <1>7, NextDiskInv DEF LedgerInv, Next, CommandStep, HandlerStep

LEMMA ResumeChecksTell ==
    ASSUME LedgerInv, TypeInv', NEW c \in Callers, ResumeCheckRef(c) \/ ResumeCheckProcess(c)
    PROVE  LedgerInv'
<1>1. /\ UNCHANGED <<workspace, RunVars, processes, worker, used>>
      /\ call \in [Callers -> CallRecord] /\ used.faults \in Nat
  BY DEF ResumeCheckRef, ResumeCheckProcess, HostRest,
         LedgerInv, DiskInv, TypeInv, CallsOK, TablesOK, UsedOK
<1>2. /\ \A d \in Callers \ {c} : call'[d] = call[d]
      /\ \/ call'[c].pc = "idle"
         \/ /\ call'[c].run = call[c].run
            /\ call[c].pc \in {"resume", "resume_check"}
            /\ call'[c].pc \in {"resume_check", "resume_launch"}
  BY <1>1 DEF ResumeCheckRef, ResumeCheckProcess, CallAt, CallGoes, Return, IdleCall, CallRecord
<1>3. runs' = runs /\ CallStory(call[c])
  BY <1>1 DEF LedgerInv, CallStories, RunVars
<1>4. call'[c].pc # "fetch_cli" /\ CallStory(call[c])'
  BY <1>2, <1>3 DEF CallStory, Tracked, Starting
<1>5. TablesTell' /\ CallStories' /\ ThreadInv'
  BY <1>1, <1>2, <1>4, QuietCallTells
<1> QED BY <1>5, NextDiskInv DEF LedgerInv, Next, CommandStep, HandlerStep

-----------------------------------------------------------------------------
(* The commands that write. *)

LEMMA ThreadsStay ==
    ASSUME LedgerInv, TypeInv', UNCHANGED <<worker, processes>>, used.faults <= used'.faults,
           \A r \in Runs : Progresses(r)
    PROVE  ThreadInv'
<1>1. DiskInv /\ ThreadInv /\ used.faults \in Nat /\ used'.faults \in Nat
  BY DEF LedgerInv, DiskInv, TypeInv, TablesOK, UsedOK
<1>2. ASSUME NEW r \in Runs, processes[r] # NoWorker
      PROVE  /\ worker'[processes[r]].run = worker[processes[r]].run
             /\ \/ worker'[processes[r]].pc \in Polling
                \/ used'.faults > 0 /\ worker'[processes[r]].pc \in {"failing", "gone"}
  <2>1. \/ worker[processes[r]].pc \in Polling
        \/ used.faults > 0 /\ worker[processes[r]].pc \in {"failing", "gone"}
    BY <1>1, <1>2 DEF ThreadInv, ProcessesExact, Polling
  <2> QED BY <1>1, <2>1
<1> QED BY <1>1, <1>2, ThreadsGoOn

LEMMA CountSubset ==
    ASSUME NEW h \in Seq(Kinds), NEW K, NEW L, K \subseteq L
    PROVE  Count(h, K) <= Count(h, L)
<1> DEFINE S == {i \in DOMAIN h : h[i] \in K}
           T == {i \in DOMAIN h : h[i] \in L}
<1>1. T \in SUBSET (1..Len(h)) /\ S \in SUBSET T
  OBVIOUS
<1>2. IsFiniteSet(T)
  BY <1>1, FS_Interval, FS_Subset
<1> HIDE DEF S, T
<1>3. Cardinality(S) <= Cardinality(T)
  BY <1>1, <1>2, Fewer
<1> QED BY <1>3 DEF Count, S, T

LEMMA FinishedIsEnded ==
    ASSUME NEW h \in Seq(Kinds), Finishes(h) > 0
    PROVE  Ends(h) > 0
<1>1. Count(h, {"execution_finished"}) <= Count(h, {"cancelled", "execution_finished", "execution_failed"})
  BY CountSubset
<1>2. CountsOK(h)
  BY CountsType
<1> QED BY <1>1, <1>2 DEF Finishes, Ends, CountsOK

\* A command that writes an entry and returns.
LEMMA NotingCommand ==
    ASSUME LedgerInv, TypeInv', NEW c \in Callers, Return(c),
           UNCHANGED <<workspace, worker, processes>>,
           NEW r \in Runs, call[c].run = r, Tracked(r),
           NEW record \in Record, record.history = runs[r].history,
           NEW kind \in {"cancelled", "retried", "fetch_finished", "fetch_failed"},
           NEW saved \in BOOLEAN, UpdateRun(saved, r, Noting(kind, record)),
           record.ref = runs[r].ref \/ Finishes(runs[r].history) > 0,
           record.ref # NoRef \/ runs[r].ref = NoRef,
           record.state \notin Terminal \/ record.state = runs[r].state \/ kind = "cancelled",
           kind \in {"fetch_finished", "fetch_failed"} => call[c].pc = "fetch_cli"
    PROVE  TablesTell' /\ CallStories' /\ ThreadInv'
<1>1. DiskInv /\ TablesTell /\ CallStories /\ runs[r] \in Record /\ Settled(runs[r])
  BY HistoriesAreSequences DEF LedgerInv, TablesTell, TableStories
<1>2. kind \in Kinds \ {"created", "resumed"}
  BY DEF Kinds
<1>3. Settled(Noting(kind, record))
  BY <1>1, <1>2, SettledNoting
<1>4. \A q \in Runs : Progresses(q)
  BY <1>1, <1>2, NotingProgresses DEF UpdateRun
<1>5. /\ \A d \in Callers \ {c} : call'[d] = call[d]
      /\ call'[c].pc = "idle"
  BY <1>1 DEF Return, IdleCall, DiskInv, TypeInv, CallsOK
<1>6. CallStories'
  <2>1. CallStory(call[c])'
    BY <1>5 DEF CallStory, Starting
  <2> QED BY <1>1, <1>4, <1>5, <2>1, CallStoriesGoOn
<1>7. \A q \in Runs : Shrinks(q)
  BY <1>5 DEF Shrinks, At, Fetching
<1>8. kind \in {"fetch_finished", "fetch_failed"} => Fetching(call', r) # Fetching(call, r)
  BY <1>5 DEF Fetching
<1>9. TablesTell'
  BY <1>1, <1>2, <1>3, <1>7, <1>8, NotedUpdateTells
<1>10. ThreadInv'
  BY <1>1, <1>4, ThreadsStay, UpdateFaults DEF DiskInv
<1> QED BY <1>6, <1>9, <1>10

\* A command that writes nothing and returns.
LEMMA ReturnTells ==
    ASSUME LedgerInv, TypeInv', NEW c \in Callers, Return(c),
           UNCHANGED <<workspace, RunVars, worker, processes>>, used.faults <= used'.faults
    PROVE  TablesTell' /\ CallStories' /\ ThreadInv'
<1>1. call'[c].pc = "idle" /\ \A d \in Callers \ {c} : call'[d] = call[d]
  BY DEF Return, IdleCall, LedgerInv, DiskInv, TypeInv, CallsOK
<1>2. call'[c].pc # "fetch_cli" /\ CallStory(call[c])'
  BY <1>1 DEF CallStory, Starting
<1> QED BY <1>1, <1>2, QuietCallTells

LEMMA MarkTells ==
    ASSUME LedgerInv, TypeInv', NEW c \in Callers, CancelMark(c) \/ FetchEnd(c) \/ RetryApply(c)
    PROVE  LedgerInv'
<1> DEFINE r == call[c].run
<1>1. /\ Return(c) /\ UNCHANGED <<workspace, worker, processes>>
      /\ call[c] \in CallRecord /\ r \in Runs /\ used.faults \in Nat /\ TypeInv
  BY DEF CancelMark, FetchEnd, RetryApply, CallAt, HostRest,
         LedgerInv, DiskInv, TypeInv, CallsOK, CallOK, TablesOK, UsedOK
<1>2. CASE UNCHANGED RunVars
  <2>1. used.faults <= used'.faults
    BY <1>1, UpdateFaults DEF CancelMark, FetchEnd, RetryApply, Fault, TypeInv, TablesOK, UsedOK
  <2>2. TablesTell' /\ CallStories' /\ ThreadInv'
    BY <1>1, <1>2, <2>1, ReturnTells
  <2> QED BY <2>2, NextDiskInv DEF LedgerInv, Next, CommandStep, HandlerStep
<1>3. CASE CancelMark(c) /\ Tracked(r)
  <2> DEFINE record == [runs[r] EXCEPT !.state = "cancelled"]
  <2>1. runs[r] \in Record
    BY <1>1, <1>3, HistoriesAreSequences DEF LedgerInv
  <2>2. record \in Record /\ record.history = runs[r].history /\ record.ref = runs[r].ref
    BY <2>1 DEF Record, RunStates, RemoteStates, Terminal
  <2>3. PICK saved \in BOOLEAN : UpdateRun(saved, r, Noting("cancelled", record))
    BY <1>3 DEF CancelMark
  <2> HIDE DEF record
  <2>4. TablesTell' /\ CallStories' /\ ThreadInv'
    BY <1>1, <1>3, <2>2, <2>3, NotingCommand
  <2> QED BY <1>3, <2>4, NextDiskInv DEF LedgerInv, Next, CommandStep, HandlerStep
<1>4. CASE FetchEnd(c) /\ Tracked(r) /\ ~UNCHANGED RunVars
  <2>1. PICK kind \in {"fetch_finished", "fetch_failed"}, saved \in BOOLEAN :
            UpdateRun(saved, r, Noting(kind, runs[r]))
    BY <1>4 DEF FetchEnd
  <2>2. call[c].pc = "fetch_cli" /\ runs[r] \in Record
    BY <1>1, <1>4, HistoriesAreSequences DEF FetchEnd, CallAt, LedgerInv
  <2>3. TablesTell' /\ CallStories' /\ ThreadInv'
    BY <1>1, <1>4, <2>1, <2>2, NotingCommand
  <2> QED BY <1>4, <2>3, NextDiskInv DEF LedgerInv, Next, CommandStep, HandlerStep
<1>5. CASE RetryApply(c) /\ Tracked(r)
  <2> DEFINE record == [runs[r] EXCEPT !.ref = IF call[c].ref # NoRef THEN call[c].ref ELSE @,
                                       !.state = "queued"]
  <2>1. runs[r] \in Record
    BY <1>1, <1>5, HistoriesAreSequences DEF LedgerInv
  <2>2. (IF call[c].ref # NoRef THEN call[c].ref ELSE runs[r].ref) \in Refs \cup {NoRef}
    BY <1>1, <2>1 DEF Record, CallRecord
  <2>3. /\ record \in Record /\ record.history = runs[r].history /\ record.state \notin Terminal
        /\ record.ref # NoRef \/ runs[r].ref = NoRef
    BY <2>1, <2>2 DEF Record, RunStates, RemoteStates, Terminal
  <2>4. Finishes(runs[r].history) > 0
    BY <1>5 DEF RetryApply, CallAt, LedgerInv, CallStories, CallStory
  <2>5. PICK saved \in BOOLEAN : UpdateRun(saved, r, Noting("retried", record))
    BY <1>5 DEF RetryApply
  <2> HIDE DEF record
  <2>6. TablesTell' /\ CallStories' /\ ThreadInv'
    BY <1>1, <1>5, <2>3, <2>4, <2>5, NotingCommand
  <2> QED BY <1>5, <2>6, NextDiskInv DEF LedgerInv, Next, CommandStep, HandlerStep
<1> QED BY <1>2, <1>3, <1>4, <1>5 DEF CancelMark, FetchEnd, RetryApply, RunVars

LEMMA InspectApplyTells ==
    ASSUME LedgerInv, TypeInv', NEW c \in Callers, InspectApply(c)
    PROVE  LedgerInv'
<1> PICK r \in Runs : call[c].run = r
  BY DEF InspectApply, CallAt, LedgerInv, DiskInv, TypeInv, CallsOK, CallOK
<1> DEFINE record == [runs[r] EXCEPT !.state =
                         IF call[c].seen \in RemoteStates THEN call[c].seen ELSE @]
<1>1. /\ Return(c) /\ UNCHANGED <<workspace, worker, processes>> /\ Tracked(r)
      /\ r \in Runs /\ DiskInv /\ TypeInv /\ TablesTell /\ CallStories /\ RunsOK
      /\ Finishes(runs[r].history) > 0
  BY DEF InspectApply, CallAt, HostRest, LedgerInv, DiskInv, TypeInv, CallsOK, CallOK, TablesOK,
         CallStories, CallStory
<1>2. runs[r] \in Record /\ runs[r].history \in Seq(Kinds) /\ Settled(runs[r]) /\ StoryOf(r)
  BY <1>1, HistoriesAreSequences DEF TablesTell, TableStories
<1>3. record \in Record /\ record.history = runs[r].history /\ record.ref = runs[r].ref
  BY <1>2 DEF Record, RunStates
<1>4. PICK saved \in BOOLEAN : UpdateRun(saved, r, record)
  BY DEF InspectApply
<1> HIDE DEF record
<1>5. runs' = [runs EXCEPT ![r] = record] /\ runs'[r] = record
  BY <1>1, <1>4 DEF UpdateRun, RunsOK
<1>6. used.faults <= used'.faults /\ (~saved => used'.faults > 0)
  BY <1>1, <1>4, UpdateFaults
<1>7. \A q \in Runs : Progresses(q)
  <2>1. Progresses(r)
    <3>1. Tracked(r)'
      BY <1>3, <1>5, SentinelsAssumption DEF Tracked
    <3>2. runs'[r].history = runs[r].history /\ runs'[r].ref = runs[r].ref
      BY <1>3, <1>5
    <3> QED BY <1>1, <3>1, <3>2 DEF Progresses, LaunchedOnce
  <2>2. \A q \in Runs \ {r} : runs'[q] = runs[q]
    BY <1>1, <1>5 DEF RunsOK
  <2> QED BY <2>1, <2>2, UnchangedProgresses
<1>8. call'[c].pc = "idle" /\ \A d \in Callers \ {c} : call'[d] = call[d]
  BY <1>1 DEF Return, IdleCall, TypeInv, CallsOK
<1>9. CallStories'
  <2>1. CallStory(call[c])'
    BY <1>8 DEF CallStory, Starting
  <2> QED BY <1>1, <1>7, <1>8, <2>1, CallStoriesGoOn
<1>10. TablesTell'
  <2>1. \A q \in Runs : Shrinks(q)
    BY <1>1, <1>8 DEF Shrinks, At, Fetching
  <2>2. StoryOf(r)'
    <3>1. used.faults \in Nat /\ used'.faults \in Nat
      BY <1>1 DEF TypeInv, TablesOK, UsedOK
    <3> QED BY <1>1, <1>2, <1>3, <1>5, <1>6, <2>1, <3>1, StoryGoesOn
  <2>3. Settled(record)
    BY <1>1, <1>2, <1>3, FinishedIsEnded DEF Settled
  <2>4. \/ disk' = [disk EXCEPT ![workspace][r] = record]
        \/ disk' = disk /\ used'.faults > 0
    BY <1>4, <1>6 DEF UpdateRun, Persist
  <2> QED BY <1>1, <1>3, <1>5, <1>6, <2>1, <2>2, <2>3, <2>4, UpdateTells
<1>11. ThreadInv'
  BY <1>1, <1>6, <1>7, ThreadsStay
<1> QED BY <1>9, <1>10, <1>11, NextDiskInv DEF LedgerInv, Next, CommandStep, HandlerStep

LEMMA FetchBeginTells ==
    ASSUME LedgerInv, TypeInv', NEW c \in Callers, FetchBegin(c)
    PROVE  LedgerInv'
<1> PICK r \in Runs : call[c].run = r
  BY DEF FetchBegin, CallAt, LedgerInv, DiskInv, TypeInv, CallsOK, CallOK
<1> DEFINE record == Noting("fetch_started", runs[r])
<1>1. /\ UNCHANGED <<workspace, worker, processes>>
      /\ r \in Runs /\ DiskInv /\ TypeInv /\ TablesTell /\ CallStories /\ RunsOK
      /\ used.faults \in Nat /\ used'.faults \in Nat
  BY DEF FetchBegin, CallAt, HostRest, LedgerInv, DiskInv, TypeInv, CallsOK, CallOK, TablesOK, UsedOK
<1>2. CASE Return(c) /\ UNCHANGED <<RunVars, used>>
  <2>1. used.faults <= used'.faults
    BY <1>1, <1>2
  <2>2. TablesTell' /\ CallStories' /\ ThreadInv'
    BY <1>1, <1>2, <2>1, ReturnTells
  <2> QED BY <2>2, NextDiskInv DEF LedgerInv, Next, CommandStep, HandlerStep
<1>3. CASE Tracked(r) /\ \E saved \in BOOLEAN :
              /\ UpdateRun(saved, r, record)
              /\ IF saved THEN CallGoes(c, "fetch_cli") ELSE Return(c)
  <2>1. PICK saved \in BOOLEAN :
            /\ UpdateRun(saved, r, record)
            /\ IF saved THEN CallGoes(c, "fetch_cli") ELSE Return(c)
    BY <1>3
  <2>2. runs[r] \in Record /\ runs[r].history \in Seq(Kinds) /\ Settled(runs[r]) /\ StoryOf(r)
    BY <1>1, <1>3, HistoriesAreSequences DEF TablesTell, TableStories
  <2>3. "fetch_started" \in Kinds \ {"created", "resumed"}
    BY DEF Kinds
  <2>4. record \in Record /\ record.history = Append(runs[r].history, "fetch_started")
    BY <2>2, <2>3, NotingIsRecord DEF Noting, Record
  <2>5. Settled(record)
    BY <2>2, <2>3, SettledNoting
  <2>6. runs' = [runs EXCEPT ![r] = record] /\ runs'[r] = record
    BY <1>1, <2>1 DEF UpdateRun, RunsOK
  <2>7. used.faults <= used'.faults /\ (~saved => used'.faults > 0)
    BY <1>1, <2>1, UpdateFaults
  <2>8. \A q \in Runs : Progresses(q)
    BY <1>1, <1>3, <2>2, <2>3, <2>6, NotingProgresses
  <2>9. /\ \A d \in Callers \ {c} : call'[d] = call[d]
        /\ \/ call'[c].pc = "idle"
           \/ call'[c].pc = "fetch_cli" /\ call'[c].run = r
    BY <1>1, <2>1 DEF CallGoes, Return, IdleCall, TypeInv, CallsOK, CallRecord
  <2>10. CallStories'
    <3>1. CallStory(call[c])'
      BY <2>9 DEF CallStory, Starting
    <3> QED BY <1>1, <2>8, <2>9, <3>1, CallStoriesGoOn
  <2>11. TablesTell'
    <3>1. \A q \in Runs \ {r} : Shrinks(q)
      BY <1>1, <2>9 DEF Shrinks, At, Fetching
    <3>2. StoryOf(r)'
      <4>1. \A pcs : IsFiniteSet(At(worker, r, pcs)) /\ IsFiniteSet(Fetching(call, r))
        BY WorkersFinite
      <4>2. Fetching(call', r) \in SUBSET (Fetching(call, r) \cup {c})
        BY <2>9 DEF Fetching
      <4>3. Story(runs[r].history, At(worker, r, Beginning), At(worker, r, Executing),
                  At(worker, r, Living), Fetching(call, r), used.faults)
        BY <2>2 DEF StoryOf
      <4> HIDE DEF record
      <4>4. Story(Append(runs[r].history, "fetch_started"), At(worker, r, Beginning),
                  At(worker, r, Executing), At(worker, r, Living), Fetching(call', r), used'.faults)
        BY <1>1, <2>2, <2>7, <4>1, <4>2, <4>3, StoryFetches
      <4> QED BY <1>1, <2>4, <2>6, <4>4 DEF StoryOf
    <3>3. \/ disk' = [disk EXCEPT ![workspace][r] = record]
          \/ disk' = disk /\ used'.faults > 0
      BY <2>1, <2>7 DEF UpdateRun, Persist
    <3> HIDE DEF record
    <3> QED BY <1>1, <2>4, <2>5, <2>6, <2>7, <3>1, <3>2, <3>3, UpdateTells
  <2>12. ThreadInv'
    BY <1>1, <2>7, <2>8, ThreadsStay
  <2> QED BY <2>10, <2>11, <2>12, NextDiskInv DEF LedgerInv, Next, CommandStep, HandlerStep
<1> QED BY <1>2, <1>3 DEF FetchBegin

-----------------------------------------------------------------------------
(* Launches, and the crash. *)

\* What a launch does to those who may write: nothing, or one thread more.
Launched(new, r) ==
    \/ UNCHANGED worker /\ new = NoWorker
    \/ new \in Workers /\ WorkerAt(new, "idle") /\ Launch(new, r)

LEMMA LaunchedThreads ==
    ASSUME WorkersOK, NEW r \in Runs, NEW new, Launched(new, r)
    PROVE  /\ \A pcs \in {Beginning, Executing, Living} :
                  /\ At(worker', r, pcs) \subseteq At(worker, r, pcs) \cup {new}
                  /\ \A q \in Runs \ {r} : At(worker', q, pcs) \subseteq At(worker, q, pcs)
           /\ \A v \in Workers : v # new => worker'[v] = worker[v]
           /\ new \in Workers => /\ worker[new].pc = "idle" /\ worker'[new].pc = "begin"
                                 /\ worker'[new].run = r
<1>1. /\ \A v \in Workers : v # new => worker'[v] = worker[v]
      /\ new \in Workers => /\ worker[new].pc = "idle" /\ worker'[new].pc = "begin"
                            /\ worker'[new].run = r
  BY SentinelsAssumption DEF Launched, Launch, WorkerAt, IdleWorker, WorkersOK
<1>2. \A pcs \in {Beginning, Executing, Living} :
          /\ At(worker', r, pcs) \subseteq At(worker, r, pcs) \cup {new}
          /\ \A q \in Runs \ {r} : At(worker', q, pcs) \subseteq At(worker, q, pcs)
  BY <1>1 DEF At
<1> QED BY <1>1, <1>2

\* No process is registered for a thread that is idle.
LEMMA LaunchedThreadInv ==
    ASSUME LedgerInv, TypeInv', NEW r \in Runs, NEW new, Launched(new, r), Tracked(r)',
           processes' = processes, used.faults <= used'.faults, \A q \in Runs : Progresses(q)
    PROVE  ThreadInv'
<1>1. DiskInv /\ ThreadInv /\ WorkersOK /\ used.faults \in Nat /\ used'.faults \in Nat
  BY DEF LedgerInv, DiskInv, TypeInv, TablesOK, UsedOK
<1>2. /\ \A v \in Workers : v # new => worker'[v] = worker[v]
      /\ new \in Workers => /\ worker[new].pc = "idle" /\ worker'[new].pc = "begin"
                            /\ worker'[new].run = r
  BY <1>1, LaunchedThreads
<1>3. ASSUME NEW v \in Workers
      PROVE  /\ worker'[v].pc \in Living =>
                    \/ worker[v].pc \in Living /\ worker'[v].run = worker[v].run
                    \/ Tracked(worker[v].run)'
             /\ worker'[v].pc \in Polling => worker[v].pc \in Polling /\ worker'[v].run = worker[v].run
  BY <1>2 DEF Polling, Tracked
<1>4. ASSUME NEW q \in Runs, processes[q] # NoWorker
      PROVE  /\ worker'[processes[q]].run = worker[processes[q]].run
             /\ \/ worker'[processes[q]].pc \in Polling
                \/ used'.faults > 0 /\ worker'[processes[q]].pc \in {"failing", "gone"}
  <2>1. processes[q] \in Workers
    BY <1>1, <1>4 DEF DiskInv, TypeInv, TablesOK
  <2>2. \/ worker[processes[q]].pc \in Polling
        \/ used.faults > 0 /\ worker[processes[q]].pc \in {"failing", "gone"}
    BY <1>1, <1>4 DEF ThreadInv, ProcessesExact, Polling
  <2>3. processes[q] # new
    BY <1>2, <2>1, <2>2 DEF Polling
  <2> QED BY <1>1, <1>2, <2>1, <2>2, <2>3
<1> QED BY <1>1, <1>3, <1>4, ThreadsGoOn

LEMMA ResumeLaunchTells ==
    ASSUME LedgerInv, TypeInv', NEW c \in Callers, ResumeLaunch(c)
    PROVE  LedgerInv'
<1> PICK r \in Runs : call[c].run = r
  BY DEF ResumeLaunch, CallAt, LedgerInv, DiskInv, TypeInv, CallsOK, CallOK
<1> DEFINE record == Noting("resumed", [runs[r] EXCEPT !.state = "starting"])
<1>1. /\ Return(c) /\ UNCHANGED <<workspace, processes>>
      /\ DiskInv /\ TypeInv /\ WorkersOK /\ TablesTell /\ CallStories /\ RunsOK
      /\ used.faults \in Nat /\ used'.faults \in Nat
  BY DEF ResumeLaunch, HostRest, LedgerInv, DiskInv, TypeInv, TablesOK, UsedOK
<1>2. CASE UNCHANGED <<RunVars, worker, used>>
  <2>1. used.faults <= used'.faults
    BY <1>1, <1>2
  <2>2. TablesTell' /\ CallStories' /\ ThreadInv'
    BY <1>1, <1>2, <2>1, ReturnTells
  <2> QED BY <2>2, NextDiskInv DEF LedgerInv, Next, CommandStep, HandlerStep
<1>3. CASE Tracked(r) /\ ~UNCHANGED <<RunVars, worker, used>>
  <2>1. /\ runs' = [runs EXCEPT ![r] = record]
        /\ used.faults <= used'.faults
        /\ \/ disk' = [disk EXCEPT ![workspace][r] = record]
           \/ disk' = disk /\ used'.faults > 0
    BY <1>1, <1>3 DEF ResumeLaunch, UpdateRun, Persist, Fault, TypeInv, TablesOK, UsedOK
  <2>2. PICK new : Launched(new, r)
    BY <1>3 DEF ResumeLaunch, Launched
  <2>3. /\ runs[r] \in Record /\ runs[r].history \in Seq(Kinds) /\ Settled(runs[r]) /\ StoryOf(r)
        /\ Ends(runs[r].history) > 0 /\ CountsOK(runs[r].history)
    BY <1>1, <1>3, HistoriesAreSequences, CountsType
    DEF TablesTell, TableStories, ResumeLaunch, CallAt, CallStories, CallStory
  <2>4. [runs[r] EXCEPT !.state = "starting"] \in Record /\ "resumed" \in Kinds
    BY <2>3 DEF Record, RunStates, Kinds
  <2>5. /\ record \in Record /\ record.history = Append(runs[r].history, "resumed")
        /\ record.ref = runs[r].ref /\ record.state = "starting"
    BY <2>3, <2>4, NotingIsRecord DEF Noting, Record
  <2>6. Settled(record)
    BY <2>3, <2>4, SettledNoting DEF Record, Terminal
  <2> HIDE DEF record
  <2>7. runs'[r] = record /\ \A q \in Runs \ {r} : runs'[q] = runs[q]
    BY <1>1, <2>1 DEF RunsOK
  <2>8. Tracked(r)'
    BY <2>5, <2>7, SentinelsAssumption DEF Tracked
  <2>9. \A q \in Runs : Progresses(q)
    <3>1. CountsOneMore(runs'[r].history, runs[r].history, "resumed")
      BY <2>3, <2>4, <2>5, <2>7, CountsAppend
    <3>2. Launches(runs[r].history) > 0
      BY <2>3 DEF StoryOf, Story, Tally
    <3>3. /\ Finishes(runs'[r].history) = Finishes(runs[r].history)
          /\ Ends(runs'[r].history) = Ends(runs[r].history)
          /\ Launches(runs'[r].history) > 1
      BY <2>3, <3>1, <3>2 DEF CountsOneMore, CountsOK, One
    <3>4. Progresses(r)
      BY <2>8, <3>3 DEF Progresses, LaunchedOnce
    <3> QED BY <2>7, <3>4, UnchangedProgresses
  <2>10. call'[c].pc = "idle" /\ \A d \in Callers \ {c} : call'[d] = call[d]
    BY <1>1 DEF Return, IdleCall, TypeInv, CallsOK
  <2>11. CallStories'
    <3>1. CallStory(call[c])'
      BY <2>10 DEF CallStory, Starting
    <3> QED BY <1>1, <2>9, <2>10, <3>1, CallStoriesGoOn
  <2>12. \A q \in Runs : Fetching(call', q) \subseteq Fetching(call, q)
    BY <2>10 DEF Fetching
  <2>13. TablesTell'
    <3>1. \A q \in Runs \ {r} : Shrinks(q)
      BY <1>1, <2>2, <2>12, LaunchedThreads DEF Shrinks
    <3>2. StoryOf(r)'
      <4>1. \A pcs : IsFiniteSet(At(worker, r, pcs)) /\ IsFiniteSet(Fetching(call, r))
        BY WorkersFinite
      <4>2. /\ At(worker', r, Beginning) \in SUBSET (At(worker, r, Beginning) \cup {new})
            /\ At(worker', r, Executing) \in SUBSET (At(worker, r, Executing) \cup {new})
            /\ At(worker', r, Living) \in SUBSET (At(worker, r, Living) \cup {new})
            /\ Fetching(call', r) \in SUBSET Fetching(call, r)
        BY <1>1, <2>2, <2>12, LaunchedThreads
      <4>3. Story(runs[r].history, At(worker, r, Beginning), At(worker, r, Executing),
                  At(worker, r, Living), Fetching(call, r), used.faults)
        BY <2>3 DEF StoryOf
      <4>4. Story(Append(runs[r].history, "resumed"), At(worker', r, Beginning),
                  At(worker', r, Executing), At(worker', r, Living), Fetching(call', r), used'.faults)
        BY <1>1, <2>1, <2>3, <4>1, <4>2, <4>3, StoryResumes
      <4> QED BY <2>5, <2>7, <4>4 DEF StoryOf
    <3> QED BY <1>1, <2>1, <2>5, <2>6, <3>1, <3>2, UpdateTells
  <2>14. ThreadInv'
    BY <1>1, <2>1, <2>2, <2>8, <2>9, LaunchedThreadInv
  <2> QED BY <2>11, <2>13, <2>14, NextDiskInv DEF LedgerInv, Next, CommandStep, HandlerStep
<1> QED BY <1>2, <1>3 DEF ResumeLaunch

LEMMA StartPersistTells ==
    ASSUME LedgerInv, TypeInv', NEW c \in Callers, StartPersist(c)
    PROVE  LedgerInv'
<1> PICK r \in Runs : call[c].run = r
  BY DEF StartPersist, CallAt, LedgerInv, DiskInv, TypeInv, CallsOK, CallOK
<1> PICK record \in Record : call[c].record = record
  BY DEF StartPersist, CallAt, LedgerInv, DiskInv, TypeInv, CallsOK, CallOK
<1>1. /\ UNCHANGED <<workspace, runs, processes, worker>>
      /\ DiskInv /\ TypeInv /\ TablesTell /\ CallStories /\ DiskOK /\ workspace \in Workspaces
      /\ used.faults \in Nat /\ used'.faults \in Nat
  BY DEF StartPersist, HostRest, LedgerInv, DiskInv, TypeInv, TablesOK, UsedOK
<1>2. ~Tracked(r) /\ NewRecord(record)
  BY DEF StartPersist, CallAt, LedgerInv, DiskInv, StartsApart, StartApart, Starting,
         CallStories, CallStory
<1>3. PICK saved \in BOOLEAN :
          /\ Persist(saved, r, record)
          /\ IF saved THEN CallGoes(c, "start_insert") ELSE Return(c)
  BY DEF StartPersist
<1>4. used.faults <= used'.faults
  BY <1>1, <1>3, UpdateFaults
<1>5. /\ \A d \in Callers \ {c} : call'[d] = call[d]
      /\ \/ call'[c].pc = "idle"
         \/ call'[c].pc = "start_insert" /\ call'[c].record = record
  BY <1>1, <1>3 DEF CallGoes, Return, IdleCall, TypeInv, CallsOK, CallRecord
<1>6. \A q \in Runs : Progresses(q)
  BY <1>1, UnchangedProgresses
<1>7. CallStories'
  <2>1. CallStory(call[c])'
    BY <1>2, <1>5 DEF CallStory, Starting, NewRecord
  <2> QED BY <1>1, <1>5, <1>6, <2>1, CallStoriesGoOn
<1>8. ThreadInv'
  BY <1>1, <1>4, <1>6, ThreadsStay
<1>9. \A q \in Runs : Saved(q)' = Saved(q) \/ (q = r /\ Saved(q)' = record)
  BY <1>1, <1>3 DEF Persist, Saved, DiskOK
<1>10. TableStories'
  <2> SUFFICES ASSUME NEW q \in Runs, Tracked(q)' PROVE (StoryOf(q) /\ Settled(runs[q]))'
    BY DEF TableStories
  <2>1. Tracked(q) /\ StoryOf(q) /\ Settled(runs[q])
    BY <1>1 DEF Tracked, TablesTell, TableStories
  <2>2. Shrinks(q)
    BY <1>1, <1>5 DEF Shrinks, At, Fetching
  <2>3. runs'[q].history = runs[q].history
    BY <1>1
  <2> QED BY <1>1, <1>4, <2>1, <2>2, <2>3, StoryGoesOn
<1>11. DiskStories'
  <2> SUFFICES ASSUME NEW q \in Runs, (Saved(q) # NoRecord)'
               PROVE  (Story(Saved(q).history, {}, {}, {}, {}, used.faults) /\ Settled(Saved(q)))'
    BY DEF DiskStories
  <2>1. CASE Saved(q)' = Saved(q)
    BY <1>1, <1>4, <2>1, DiskStoryGoesOn DEF TablesTell
  <2>2. CASE Saved(q)' = record
    <3>1. Story(<<"created">>, {}, {}, {}, {}, used'.faults)
      BY <1>1, StoryBegins
    <3>2. Settled(record)
      BY <1>2 DEF NewRecord, Settled, Terminal
    <3> QED BY <1>2, <2>2, <3>1, <3>2 DEF NewRecord
  <2> QED BY <1>9, <2>1, <2>2
<1>12. CleanDisk'
  <2>1. used'.faults = 0 => used.faults = 0
    BY <1>1, <1>4
  <2> QED BY <1>1, <1>2, <1>9, <2>1 DEF CleanDisk, TablesTell, Tracked
<1> QED BY <1>7, <1>8, <1>10, <1>11, <1>12, NextDiskInv
        DEF LedgerInv, TablesTell, Next, CommandStep, HandlerStep

LEMMA StartInsertTells ==
    ASSUME LedgerInv, TypeInv', NEW c \in Callers, StartInsert(c)
    PROVE  LedgerInv'
<1> PICK r \in Runs : call[c].run = r
  BY DEF StartInsert, CallAt, LedgerInv, DiskInv, TypeInv, CallsOK, CallOK
<1> PICK record \in Record : call[c].record = record
  BY DEF StartInsert, CallAt, LedgerInv, DiskInv, TypeInv, CallsOK, CallOK
<1>1. /\ Return(c) /\ UNCHANGED <<workspace, disk, processes>> /\ runs' = [runs EXCEPT ![r] = record]
      /\ DiskInv /\ TypeInv /\ WorkersOK /\ TablesTell /\ CallStories /\ RunsOK
      /\ used.faults \in Nat /\ used'.faults \in Nat
  BY DEF StartInsert, HostRest, LedgerInv, DiskInv, TypeInv, TablesOK, UsedOK
<1>2. /\ ~Tracked(r) /\ NewRecord(record) /\ Saved(r) = record
      /\ \A d \in Callers \ {c} : call[d].run # r
  BY DEF StartInsert, CallAt, LedgerInv, DiskInv, StartsApart, StartApart, Starting,
         CallStories, CallStory
<1>3. used.faults <= used'.faults
  BY <1>1 DEF StartInsert, Fault, TypeInv, TablesOK, UsedOK
<1>4. PICK new : Launched(new, r)
  BY DEF StartInsert, Launched
<1>5. runs'[r] = record /\ \A q \in Runs \ {r} : runs'[q] = runs[q]
  BY <1>1 DEF RunsOK
<1>6. Tracked(r)'
  BY <1>5, SentinelsAssumption DEF Tracked
<1>7. \A q \in Runs : Progresses(q)
  <2>1. Progresses(r)
    BY <1>2 DEF Progresses
  <2> QED BY <1>5, <2>1, UnchangedProgresses
<1>8. call'[c].pc = "idle" /\ \A d \in Callers \ {c} : call'[d] = call[d]
  BY <1>1 DEF Return, IdleCall, TypeInv, CallsOK
<1>9. CallStories'
  <2>1. CallStory(call[c])'
    BY <1>8 DEF CallStory, Starting
  <2> QED BY <1>1, <1>7, <1>8, <2>1, CallStoriesGoOn
<1>10. ThreadInv'
  BY <1>1, <1>3, <1>4, <1>6, <1>7, LaunchedThreadInv
<1>11. TablesTell'
  <2>1. \A q \in Runs \ {r} : Shrinks(q)
    BY <1>1, <1>4, <1>8, LaunchedThreads DEF Shrinks, Fetching
  <2>2. StoryOf(r)'
    <3>1. At(worker, r, Beginning) = {} /\ At(worker, r, Executing) = {} /\ At(worker, r, Living) = {}
      BY <1>2 DEF LedgerInv, ThreadInv, WorkersTracked, At, Beginning, Executing, Living
    <3>2. /\ At(worker', r, Beginning) \in SUBSET {new} /\ At(worker', r, Executing) \in SUBSET {new}
          /\ At(worker', r, Living) \in SUBSET {new}
      BY <1>1, <1>4, <3>1, LaunchedThreads
    <3>3. Fetching(call', r) = {}
      BY <1>2, <1>8 DEF Fetching
    <3>4. Story(<<"created">>, At(worker', r, Beginning), At(worker', r, Executing),
                At(worker', r, Living), {}, used'.faults)
      BY <1>1, <3>2, StoryBegins
    <3> QED BY <1>2, <1>5, <3>3, <3>4 DEF StoryOf, NewRecord
  <2>3. Settled(record)
    BY <1>2 DEF NewRecord, Settled, Terminal
  <2> QED BY <1>1, <1>2, <1>3, <2>1, <2>2, <2>3, UpdateTells
<1> QED BY <1>9, <1>10, <1>11, NextDiskInv DEF LedgerInv, Next, CommandStep, HandlerStep

\* After a crash nobody may write, and the table is what the disk tells.
LEMMA CrashTells ==
    ASSUME LedgerInv, TypeInv', Crash
    PROVE  LedgerInv'
<1>1. /\ UNCHANGED <<workspace, disk>> /\ used'.faults = used.faults /\ used.faults \in Nat
      /\ DiskInv /\ DiskStories
  BY DEF Crash, HostRest, LedgerInv, TablesTell, DiskInv, TypeInv, TablesOK, UsedOK
<1>2. \A r \in Runs : Saved(r)' = Saved(r) /\ (Tracked(r)' => runs'[r] = Saved(r) /\ Saved(r) # NoRecord)
  BY <1>1 DEF Crash, Restored, Tracked, Saved
<1>3. \A c \in Callers : call'[c] = IdleCall
  BY DEF Crash
<1>4. \A w \in Workers : worker'[w].pc \in {"idle", "gone"}
  BY DEF Crash, IdleWorker, LedgerInv, DiskInv, TypeInv, WorkersOK, WorkerRecord
<1>5. DiskStories'
  BY <1>1, <1>2 DEF DiskStories
<1>6. TableStories'
  <2> SUFFICES ASSUME NEW r \in Runs, Tracked(r)' PROVE (StoryOf(r) /\ Settled(runs[r]))'
    BY DEF TableStories
  <2>1. /\ At(worker', r, Beginning) = {} /\ At(worker', r, Executing) = {}
        /\ At(worker', r, Living) = {} /\ Fetching(call', r) = {}
    BY <1>3, <1>4 DEF At, Fetching, Beginning, Executing, Living, IdleCall
  <2>2. Story(Saved(r).history, {}, {}, {}, {}, used.faults) /\ Settled(Saved(r))
    BY <1>1, <1>2 DEF DiskStories
  <2> QED BY <1>1, <1>2, <2>1, <2>2 DEF StoryOf
<1>7. CleanDisk'
  BY <1>2 DEF CleanDisk
<1>8. CallStories'
  BY <1>3 DEF CallStories, CallStory, IdleCall, Starting
<1>9. ThreadInv'
  <2>1. \A r \in Runs : processes'[r] = NoWorker
    BY DEF Crash
  <2> QED BY <1>4, <2>1 DEF ThreadInv, WorkersTracked, ProcessesExact, OnlyChildKnown, Living, Executing
<1> QED BY <1>5, <1>6, <1>7, <1>8, <1>9, NextDiskInv DEF LedgerInv, TablesTell, Next

-----------------------------------------------------------------------------
(* The invariant. *)

LEMMA InitLedgerInv == Init => LedgerInv
<1> SUFFICES ASSUME Init PROVE LedgerInv
  OBVIOUS
<1>1. DiskInv
  BY InitDiskInv
<1>2. \A r \in Runs : ~Tracked(r) /\ Saved(r) = NoRecord /\ processes[r] = NoWorker
  BY DEF Init, Tracked, Saved
<1>3. TablesTell
  BY <1>2 DEF TablesTell, TableStories, DiskStories, CleanDisk
<1>4. CallStories
  BY DEF Init, CallStories, CallStory, IdleCall, Starting
<1>5. ThreadInv
  BY <1>2 DEF Init, ThreadInv, WorkersTracked, ProcessesExact, OnlyChildKnown, Living, Executing, IdleWorker
<1> QED BY <1>1, <1>3, <1>4, <1>5 DEF LedgerInv

LEMMA NextLedgerInv == LedgerInv /\ [Next]_vars => LedgerInv'
<1> SUFFICES ASSUME LedgerInv, [Next]_vars PROVE LedgerInv'
  OBVIOUS
<1>1. TypeInv'
  BY NextTypes DEF LedgerInv, DiskInv
<1>2. ASSUME NEW w \in Workers, WorkerStep(w) PROVE LedgerInv'
  BY <1>2, WorkerStepTells
<1>3. ASSUME NEW c \in Callers, HandlerStep(c) PROVE LedgerInv'
  BY <1>1, <1>3, AskingTells, CancelAsksTells, ResumeChecksTell, MarkTells, InspectApplyTells,
     FetchBeginTells, ResumeLaunchTells, StartPersistTells, StartInsertTells DEF HandlerStep
<1>4. ASSUME NEW c \in Callers, CommandStep(c) PROVE LedgerInv'
  BY <1>1, <1>3, <1>4, IssueTells DEF CommandStep
<1>5. CASE OutsideStep
  BY <1>1, <1>5, OutsideTells
<1>6. CASE Crash
  BY <1>1, <1>6, CrashTells
<1>7. CASE UNCHANGED vars
  <2>1. /\ UNCHANGED <<workspace, RunVars, processes, worker, call, used>>
        /\ used.faults \in Nat /\ used.faults <= used'.faults
    BY <1>7 DEF vars, RunVars, LedgerInv, DiskInv, TypeInv, TablesOK, UsedOK
  <2>2. TablesTell' /\ CallStories' /\ ThreadInv'
    BY <1>1, <2>1, QuietCallTells
  <2> QED BY <2>2, NextDiskInv DEF LedgerInv
<1> QED BY <1>2, <1>4, <1>5, <1>6, <1>7 DEF Next

LEMMA LedgerInvHolds == Spec => []LedgerInv
BY InitLedgerInv, NextLedgerInv, PTL DEF Spec

-----------------------------------------------------------------------------
(* What a step writes, a crash excepted: nothing, a state that was asked    *)
(* for, or one entry.                                                       *)

Written(r) == Tracked(r) =>
    /\ Tracked(r)'
    /\ \/ /\ runs'[r].history = runs[r].history
          /\ runs'[r].ref = runs[r].ref
          /\ runs'[r].state = runs[r].state \/ runs[r].ref # NoRef \/ ~LaunchedOnce(r)
       \/ \E kind \in Kinds :
             /\ runs'[r].history = Append(runs[r].history, kind)
             /\ runs[r].ref # NoRef /\ LaunchedOnce(r) => runs'[r].ref # NoRef
             /\ runs[r].state = "cancelled" =>
                   \/ runs'[r].state = "cancelled"
                   \/ kind \in {"execution_started", "resumed", "retried"}

\* One file at most is written, with what the table says, or it is a new one.
DiskWritten == \E r \in Runs :
    /\ \A q \in Runs \ {r} : Saved(q)' = Saved(q)
    /\ \/ Saved(r)' = Saved(r)
       \/ Saved(r) = NoRecord
       \/ Tracked(r) /\ Saved(r)' = runs'[r]

StepWrites == (\A r \in Runs : Written(r)) /\ (UNCHANGED <<workspace, disk>> \/ DiskWritten)

LEMMA UnchangedIsWritten ==
    ASSUME NEW r, runs'[r] = runs[r]
    PROVE  Written(r)
BY DEF Written, Tracked

LEMMA QuietWrites ==
    ASSUME UNCHANGED <<workspace, RunVars>>
    PROVE  StepWrites
BY UnchangedIsWritten DEF StepWrites, RunVars

LEMMA UpdateWrites ==
    ASSUME DiskInv, workspace' = workspace, NEW r \in Runs, Tracked(r), NEW record \in Record,
           runs' = [runs EXCEPT ![r] = record],
           disk' \in {disk, [disk EXCEPT ![workspace][r] = record]},
           \/ /\ record.history = runs[r].history
              /\ record.ref = runs[r].ref
              /\ record.state = runs[r].state \/ runs[r].ref # NoRef \/ ~LaunchedOnce(r)
           \/ \E kind \in Kinds :
                 /\ record.history = Append(runs[r].history, kind)
                 /\ runs[r].ref # NoRef /\ LaunchedOnce(r) => record.ref # NoRef
                 /\ runs[r].state = "cancelled" =>
                       \/ record.state = "cancelled"
                       \/ kind \in {"execution_started", "resumed", "retried"}
    PROVE  StepWrites
<1>1. workspace \in Workspaces /\ RunsOK /\ DiskOK
  BY DEF DiskInv, TypeInv, TablesOK
<1>2. runs'[r] = record /\ \A q \in Runs \ {r} : runs'[q] = runs[q]
  BY <1>1 DEF RunsOK
<1>3. Written(r)
  <2>1. Tracked(r)'
    BY <1>2, SentinelsAssumption DEF Tracked
  <2> QED BY <1>2, <2>1 DEF Written
<1>4. \A q \in Runs : Written(q)
  BY <1>2, <1>3, UnchangedIsWritten
<1>5. UNCHANGED <<workspace, disk>> \/ DiskWritten
  BY <1>1, <1>2 DEF DiskWritten, Saved, DiskOK
<1> QED BY <1>4, <1>5 DEF StepWrites

\* update_run with an entry.
LEMMA NotedUpdateWrites ==
    ASSUME DiskInv, workspace' = workspace, NEW r \in Runs, Tracked(r), NEW record \in Record,
           record.history = runs[r].history, NEW kind \in Kinds, NEW saved \in BOOLEAN,
           UpdateRun(saved, r, Noting(kind, record)),
           runs[r].ref # NoRef /\ LaunchedOnce(r) => record.ref # NoRef,
           runs[r].state = "cancelled" =>
               record.state = "cancelled" \/ kind \in {"execution_started", "resumed", "retried"}
    PROVE  StepWrites
<1>1. /\ Noting(kind, record) \in Record /\ Noting(kind, record).history = Append(runs[r].history, kind)
      /\ Noting(kind, record).ref = record.ref /\ Noting(kind, record).state = record.state
  BY NotingIsRecord DEF Noting, Record
<1>2. /\ runs' = [runs EXCEPT ![r] = Noting(kind, record)]
      /\ disk' \in {disk, [disk EXCEPT ![workspace][r] = Noting(kind, record)]}
  BY DEF UpdateRun, Persist
<1> QED BY <1>1, <1>2, UpdateWrites

\* A thread finishes a run that has a remote job only when it was launched again.
LEMMA FinishedOnceHasNoRef ==
    ASSUME LedgerInv, NEW w \in Workers, worker[w].pc \in Executing,
           NEW r \in Runs, worker[w].run = r, LaunchedOnce(r)
    PROVE  runs[r].ref = NoRef
<1>1. Tracked(r) /\ Launches(runs[r].history) = 1
  BY DEF LaunchedOnce
<1>2. Finishes(runs[r].history) \in Nat /\ Finishes(runs[r].history) + 1 <= 1
  BY <1>1, ExecutingIsLaunched
<1>3. Settled(runs[r])
  BY <1>1 DEF LedgerInv, TablesTell, TableStories
<1> QED BY <1>2, <1>3 DEF Settled

LEMMA WorkerWrites ==
    ASSUME LedgerInv, NEW w \in Workers, WorkerStep(w)
    PROVE  StepWrites
<1> PICK r \in Runs : worker[w].run = r
  BY DEF WorkerStep, BeginExecution, SpawnChild, RegisterChild, PollChild, WakeUp, UnregisterChild,
         FinishExecution, FailExecution, WorkerAt, LedgerInv, DiskInv, TypeInv, WorkersOK, WorkerOK
<1>1. DiskInv /\ workspace' = workspace /\ worker \in [Workers -> WorkerRecord]
  BY DEF WorkerStep, BeginExecution, SpawnChild, RegisterChild, PollChild, WakeUp, UnregisterChild,
         FinishExecution, FailExecution, HostRest, LedgerInv, DiskInv, TypeInv, WorkersOK
<1>2. CASE UNCHANGED RunVars
  BY <1>1, <1>2, QuietWrites
<1>3. CASE BeginExecution(w) /\ Tracked(r) /\ ~UNCHANGED RunVars
  <2> DEFINE record == [runs[r] EXCEPT !.state = IF runs[r].executor = "local"
                                                 THEN "running" ELSE "submitting"]
  <2>1. runs[r] \in Record
    BY <1>1, <1>3, HistoriesAreSequences
  <2>2. record \in Record /\ record.history = runs[r].history /\ record.ref = runs[r].ref
    BY <2>1 DEF Record, RunStates, RemoteStates
  <2>3. PICK saved \in BOOLEAN : UpdateRun(saved, r, Noting("execution_started", record))
    BY <1>3 DEF BeginExecution, RunVars
  <2> HIDE DEF record
  <2> QED BY <1>1, <1>3, <2>2, <2>3, NotedUpdateWrites DEF Kinds
<1>4. CASE FinishExecution(w) /\ Tracked(r) /\ ~UNCHANGED RunVars
  <2> DEFINE record == [runs[r] EXCEPT !.exit = worker[w].child,
                                       !.ref = worker[w].out,
                                       !.state = SettledState(runs[r], worker[w].child, worker[w].out)]
  <2>1. runs[r] \in Record /\ worker[w].child \in {"ok", "failed"} /\ worker[w].pc = "join"
    BY <1>1, <1>4, HistoriesAreSequences DEF FinishExecution, WorkerAt, DiskInv, TypeInv, WorkersOK, WorkerOK
  <2>2. SettledState(runs[r], worker[w].child, worker[w].out) \in RunStates
    BY <2>1 DEF SettledState, RunStates, RemoteStates, Terminal
  <2>3. record \in Record /\ record.history = runs[r].history
    BY <1>1, <2>1, <2>2 DEF Record, WorkerRecord
  <2>4. runs[r].state = "cancelled" => record.state = "cancelled"
    BY <2>1 DEF SettledState, Record
  <2>5. ~(runs[r].ref # NoRef /\ LaunchedOnce(r))
    BY <2>1, FinishedOnceHasNoRef DEF Executing
  <2>6. PICK saved \in BOOLEAN : UpdateRun(saved, r, Noting("execution_finished", record))
    BY <1>4 DEF FinishExecution, RunVars
  <2> HIDE DEF record
  <2> QED BY <1>1, <1>4, <2>3, <2>4, <2>5, <2>6, NotedUpdateWrites DEF Kinds
<1>5. CASE FailExecution(w) /\ Tracked(r) /\ ~UNCHANGED RunVars
  <2> DEFINE record == [runs[r] EXCEPT !.state = IF @ = "cancelled" THEN @ ELSE "failed"]
  <2>1. runs[r] \in Record
    BY <1>1, <1>5, HistoriesAreSequences
  <2>2. /\ record \in Record /\ record.history = runs[r].history /\ record.ref = runs[r].ref
        /\ runs[r].state = "cancelled" => record.state = "cancelled"
    BY <2>1 DEF Record, RunStates, RemoteStates, Terminal
  <2>3. PICK saved \in BOOLEAN : UpdateRun(saved, r, Noting("execution_failed", record))
    BY <1>5 DEF FailExecution, RunVars
  <2> HIDE DEF record
  <2> QED BY <1>1, <1>5, <2>2, <2>3, NotedUpdateWrites DEF Kinds
<1> QED
  BY <1>2, <1>3, <1>4, <1>5
  DEF WorkerStep, BeginExecution, SpawnChild, RegisterChild, PollChild, WakeUp, UnregisterChild,
      FinishExecution, FailExecution

LEMMA HandlerWrites ==
    ASSUME LedgerInv, NEW c \in Callers, HandlerStep(c)
    PROVE  StepWrites
<1> PICK r \in Runs : call[c].run = r
  BY DEF HandlerStep, StartPersist, StartInsert, InspectSnapshot, InspectCli, InspectApply,
         CancelLookup, CancelKill, CancelRemote, CancelCli, CancelMark, FetchBegin, FetchEnd,
         RetryTake, RetryCli, RetryApply, ResumeCheckRef, ResumeCheckProcess, ResumeLaunch,
         CallAt, LedgerInv, DiskInv, TypeInv, CallsOK, CallOK
<1>1. DiskInv /\ workspace' = workspace /\ RunsOK /\ DiskOK /\ call[c] \in CallRecord
  BY DEF HandlerStep, StartPersist, StartInsert, InspectSnapshot, InspectCli, InspectApply,
         CancelLookup, CancelKill, CancelRemote, CancelCli, CancelMark, FetchBegin, FetchEnd,
         RetryTake, RetryCli, RetryApply, ResumeCheckRef, ResumeCheckProcess, ResumeLaunch,
         HostRest, LedgerInv, DiskInv, TypeInv, TablesOK, CallsOK
<1>2. CASE UNCHANGED RunVars
  BY <1>1, <1>2, QuietWrites
<1>3. CASE StartPersist(c)
  <2>1. Saved(r) = NoRecord
    BY <1>3 DEF StartPersist, CallAt, LedgerInv, DiskInv, StartsApart, StartApart, Starting
  <2>2. \A q \in Runs \ {r} : Saved(q)' = Saved(q)
    BY <1>1, <1>3 DEF StartPersist, Persist, Saved, DiskOK
  <2>3. \A q \in Runs : Written(q)
    BY <1>3, UnchangedIsWritten DEF StartPersist
  <2> QED BY <2>1, <2>2, <2>3 DEF StepWrites, DiskWritten
<1>4. CASE StartInsert(c)
  <2>1. ~Tracked(r)
    BY <1>4 DEF StartInsert, CallAt, LedgerInv, DiskInv, StartsApart, StartApart, Starting
  <2>2. \A q \in Runs \ {r} : runs'[q] = runs[q]
    BY <1>1, <1>4 DEF StartInsert, RunsOK
  <2>3. \A q \in Runs : Written(q)
    BY <2>1, <2>2, UnchangedIsWritten DEF Written
  <2> QED BY <1>1, <1>4, <2>3 DEF StepWrites, StartInsert
<1>5. CASE Tracked(r) /\ ~UNCHANGED RunVars /\ ~StartPersist(c) /\ ~StartInsert(c)
  <2>1. runs[r] \in Record
    BY <1>1, <1>5, HistoriesAreSequences
  <2>2. CASE InspectApply(c)
    <3> DEFINE record == [runs[r] EXCEPT !.state =
                              IF call[c].seen \in RemoteStates THEN call[c].seen ELSE @]
    <3>1. record \in Record /\ record.history = runs[r].history /\ record.ref = runs[r].ref
      BY <2>1 DEF Record, RunStates
    <3>2. runs[r].ref # NoRef \/ ~LaunchedOnce(r)
      <4>1. runs[r].ref # NoRef \/ Launches(runs[r].history) > 1
        BY <2>2 DEF InspectApply, CallAt, LedgerInv, CallStories, CallStory
      <4> QED BY <4>1 DEF LaunchedOnce
    <3>3. runs' = [runs EXCEPT ![r] = record] /\ disk' \in {disk, [disk EXCEPT ![workspace][r] = record]}
      BY <2>2 DEF InspectApply, UpdateRun, Persist
    <3> HIDE DEF record
    <3> QED BY <1>1, <1>5, <3>1, <3>2, <3>3, UpdateWrites
  <2>3. CASE CancelMark(c)
    <3> DEFINE record == [runs[r] EXCEPT !.state = "cancelled"]
    <3>1. /\ record \in Record /\ record.history = runs[r].history /\ record.ref = runs[r].ref
          /\ record.state = "cancelled"
      BY <2>1 DEF Record, RunStates, RemoteStates, Terminal
    <3>2. PICK saved \in BOOLEAN : UpdateRun(saved, r, Noting("cancelled", record))
      BY <1>5, <2>3 DEF CancelMark
    <3> HIDE DEF record
    <3> QED BY <1>1, <1>5, <3>1, <3>2, NotedUpdateWrites DEF Kinds
  <2>4. CASE FetchBegin(c) \/ FetchEnd(c)
    <3>1. PICK kind \in {"fetch_started", "fetch_finished", "fetch_failed"}, saved \in BOOLEAN :
              UpdateRun(saved, r, Noting(kind, runs[r]))
      BY <1>5, <2>4 DEF FetchBegin, FetchEnd
    <3> QED BY <1>1, <1>5, <2>1, <3>1, NotedUpdateWrites DEF Kinds
  <2>5. CASE RetryApply(c)
    <3> DEFINE record == [runs[r] EXCEPT !.ref = IF call[c].ref # NoRef THEN call[c].ref ELSE @,
                                         !.state = "queued"]
    <3>1. (IF call[c].ref # NoRef THEN call[c].ref ELSE runs[r].ref) \in Refs \cup {NoRef}
      BY <1>1, <2>1 DEF Record, CallRecord
    <3>2. /\ record \in Record /\ record.history = runs[r].history
          /\ record.ref # NoRef \/ runs[r].ref = NoRef
      BY <2>1, <3>1, ZenonT(60) DEF Record, RunStates, RemoteStates
    <3>3. PICK saved \in BOOLEAN : UpdateRun(saved, r, Noting("retried", record))
      BY <1>5, <2>5 DEF RetryApply
    <3> HIDE DEF record
    <3> QED BY <1>1, <1>5, <3>2, <3>3, NotedUpdateWrites DEF Kinds
  <2>6. CASE ResumeLaunch(c)
    <3> DEFINE old == [runs[r] EXCEPT !.state = "starting"]
               record == Noting("resumed", old)
    <3>1. old \in Record /\ old.history = runs[r].history /\ old.ref = runs[r].ref
      BY <2>1 DEF Record, RunStates
    <3>2. "resumed" \in Kinds
      BY DEF Kinds
    <3>3. runs' = [runs EXCEPT ![r] = record] /\ disk' \in {disk, [disk EXCEPT ![workspace][r] = record]}
      BY <1>5, <2>6 DEF ResumeLaunch, UpdateRun, Persist
    <3> HIDE DEF old
    <3>4. /\ record \in Record /\ record.history = Append(runs[r].history, "resumed")
          /\ record.ref = runs[r].ref
      BY <3>1, <3>2, NotingIsRecord DEF Noting, Record
    <3> HIDE DEF record
    <3> QED BY <1>1, <1>5, <3>2, <3>3, <3>4, UpdateWrites
  <2> QED BY <1>5, <2>2, <2>3, <2>4, <2>5, <2>6
          DEF HandlerStep, InspectSnapshot, InspectCli, CancelLookup, CancelKill, CancelRemote,
              CancelCli, RetryTake, RetryCli, ResumeCheckRef, ResumeCheckProcess
<1> QED BY <1>2, <1>3, <1>4, <1>5
        DEF HandlerStep, InspectSnapshot, InspectCli, InspectApply, CancelLookup, CancelKill,
            CancelRemote, CancelCli, CancelMark, FetchBegin, FetchEnd, RetryTake, RetryCli,
            RetryApply, ResumeCheckRef, ResumeCheckProcess, ResumeLaunch, RunVars

LEMMA NextWrites ==
    ASSUME LedgerInv, [Next]_vars
    PROVE  StepWrites \/ Crash
<1>1. ASSUME NEW w \in Workers, WorkerStep(w) PROVE StepWrites
  BY <1>1, WorkerWrites
<1>2. ASSUME NEW c \in Callers, CommandStep(c) PROVE StepWrites
  <2>1. CASE HandlerStep(c)
    BY <2>1, HandlerWrites
  <2>2. CASE ~HandlerStep(c)
    BY <1>2, <2>2, QuietWrites DEF CommandStep, Issue, StartBuild, HostRest
  <2> QED BY <2>1, <2>2
<1>3. CASE OutsideStep
  BY <1>3, QuietWrites DEF OutsideStep, ChildExits, ChildSubmits, JobMoves, HostRest
<1>4. CASE UNCHANGED vars
  BY <1>4, QuietWrites DEF vars, RunVars
<1> QED BY <1>1, <1>2, <1>3, <1>4 DEF Next

\* A crash loses nothing that was saved, and everything was unless a write failed.
LEMMA CrashRestores ==
    ASSUME LedgerInv, Crash
    PROVE  /\ UNCHANGED <<workspace, disk>>
           /\ \A r \in Runs : Tracked(r) /\ Tracked(r)' => LostToCrash \/ runs'[r] = runs[r]
<1>1. UNCHANGED <<workspace, disk>> /\ used.faults \in Nat /\ used.crashes \in Nat
  BY DEF Crash, HostRest, LedgerInv, DiskInv, TypeInv, TablesOK, UsedOK
<1>2. used'.crashes > used.crashes
  BY DEF Crash, LedgerInv, DiskInv, TypeInv, TablesOK, UsedOK
<1>3. CASE used.faults > 0
  BY <1>1, <1>2, <1>3 DEF LostToCrash
<1>4. CASE used.faults = 0
  <2>1. \A r \in Runs : Tracked(r) => runs[r] = Saved(r)
    BY <1>4 DEF LedgerInv, TablesTell, CleanDisk
  <2>2. \A r \in Runs : Tracked(r)' => runs'[r] = Saved(r)
    BY DEF Crash, Restored, Tracked, Saved
  <2> QED BY <1>1, <2>1, <2>2
<1> QED BY <1>1, <1>3, <1>4

-----------------------------------------------------------------------------
(* The theorems. *)

\* Every launch is settled once, for any number of threads, commands, faults
\* and crashes: whoever may still write an ending is counted with the endings
\* that are there (execute_run, resume_run).
THEOREM LaunchesSettledOnce == Spec => []LaunchesAreSettledOnce
<1>1. LedgerInv => LaunchesAreSettledOnce
  <2> SUFFICES ASSUME LedgerInv, NEW r \in Runs, Tracked(r)
               PROVE  Endings(runs[r].history)
                          + Cardinality({w \in Workers : worker[w].run = r
                                           /\ worker[w].pc \notin {"idle", "gone"}})
                      <= Launches(runs[r].history) + used.faults
    BY DEF LaunchesAreSettledOnce
  <2>1. \A w \in Workers : worker[w].pc \notin {"idle", "gone"} <=> worker[w].pc \in Living
    BY DEF LedgerInv, DiskInv, TypeInv, WorkersOK, WorkerRecord, WorkerPc, Living, Executing
  <2>2. {w \in Workers : worker[w].run = r /\ worker[w].pc \notin {"idle", "gone"}}
           = At(worker, r, Living)
    BY <2>1 DEF At
  <2>3. Endings(runs[r].history) + Cardinality(At(worker, r, Living))
           <= Launches(runs[r].history) + used.faults
    BY DEF LedgerInv, TablesTell, TableStories, StoryOf, Story, Tally
  <2> QED BY <2>2, <2>3
<1> QED BY <1>1, LedgerInvHolds, PTL

\* The process table names the thread that polls a run's child, and no other
\* (execute_run_inner, cancel_run, resume_run).
THEOREM ProcessTableExact == Spec => []ProcessTableIsExact
<1>1. LedgerInv => ProcessTableIsExact
  BY DEF LedgerInv, ThreadInv, ProcessesExact, OnlyChildKnown, ProcessTableIsExact
<1> QED BY <1>1, LedgerInvHolds, PTL

\* No step but one the history names, or an inspection, takes a run out of the
\* cancelled state; a crash takes back only what was not saved
\* (execute_run_inner, execute_run, inspect_run).
THEOREM CancellationStands == Spec => CancelledLeftOnRecord
<1> DEFINE P == \A r \in Runs :
        Tracked(r) /\ runs[r].state = "cancelled" /\ Tracked(r)' /\ runs'[r].state # "cancelled"
            => LET h == runs'[r].history IN
               \/ h[Len(h)] \in {"execution_started", "resumed", "retried"}
               \/ (runs[r].ref # NoRef \/ ~LaunchedOnce(r)) /\ h = runs[r].history
               \/ LostToCrash
<1>1. LedgerInv /\ [Next]_vars => [P]_vars
  <2> SUFFICES ASSUME LedgerInv, [Next]_vars, NEW r \in Runs,
                      Tracked(r), runs[r].state = "cancelled", Tracked(r)', runs'[r].state # "cancelled"
               PROVE  \/ runs'[r].history[Len(runs'[r].history)]
                            \in {"execution_started", "resumed", "retried"}
                      \/ /\ runs[r].ref # NoRef \/ ~LaunchedOnce(r)
                         /\ runs'[r].history = runs[r].history
                      \/ LostToCrash
    OBVIOUS
  <2>1. CASE StepWrites
    <3>1. Written(r) /\ runs[r].history \in Seq(Kinds)
      BY <2>1, HistoriesAreSequences DEF StepWrites, LedgerInv
    <3>2. ASSUME NEW kind \in Kinds, runs'[r].history = Append(runs[r].history, kind)
          PROVE  runs'[r].history[Len(runs'[r].history)] = kind
      BY <3>1, <3>2
    <3> QED BY <3>1, <3>2 DEF Written
  <2>2. CASE Crash
    BY <2>2, CrashRestores
  <2> QED BY <2>1, <2>2, NextWrites
<1> QED BY <1>1, LedgerInvHolds, PTL DEF Spec, CancelledLeftOnRecord

\* A run that was launched once keeps the remote job it has come to know
\* (execute_run_inner, retry_run).
THEOREM ReferenceKept == Spec => ReferenceIsKept
<1> DEFINE P == \A r \in Runs :
        LaunchedOnce(r) /\ runs[r].ref # NoRef /\ Tracked(r)' => runs'[r].ref # NoRef \/ LostToCrash
<1>1. LedgerInv /\ [Next]_vars => [P]_vars
  <2> SUFFICES ASSUME LedgerInv, [Next]_vars, NEW r \in Runs,
                      LaunchedOnce(r), runs[r].ref # NoRef, Tracked(r)'
               PROVE  runs'[r].ref # NoRef \/ LostToCrash
    OBVIOUS
  <2>1. CASE StepWrites
    BY <2>1 DEF StepWrites, Written, LaunchedOnce
  <2>2. CASE Crash
    BY <2>2, CrashRestores DEF LaunchedOnce
  <2> QED BY <2>1, <2>2, NextWrites
<1> QED BY <1>1, LedgerInvHolds, PTL DEF Spec, ReferenceIsKept

-----------------------------------------------------------------------------
(* The refinement. *)

LedgerOf == [r \in Runs |-> IF Saved(r) = NoRecord THEN <<>> ELSE Saved(r).history]

LedgerTypeOK == LedgerOf \in [Runs -> Seq(Kinds)]

LEMMA LedgerTypes == LedgerInv => LedgerTypeOK
<1> SUFFICES ASSUME LedgerInv, NEW r \in Runs
             PROVE  (IF Saved(r) = NoRecord THEN <<>> ELSE Saved(r).history) \in Seq(Kinds)
  BY DEF LedgerTypeOK, LedgerOf
<1>1. Saved(r) # NoRecord => Saved(r).history \in Seq(Kinds)
  BY HistoriesAreSequences DEF LedgerInv
<1>2. CASE Saved(r) = NoRecord
  BY <1>2
<1>3. CASE Saved(r) # NoRecord
  BY <1>1, <1>3, Zenon
<1> QED BY <1>2, <1>3

LEMMA LedgerTypesNext == LedgerInv' => LedgerTypeOK'
BY LedgerTypes, PTL

\* A file that is written tells what it told, or more.
LEMMA WrittenGrows ==
    ASSUME LedgerInv, LedgerInv', NEW r \in Runs, Written(r),
           \/ Saved(r)' = Saved(r)
           \/ Saved(r) = NoRecord
           \/ Tracked(r) /\ Saved(r)' = runs'[r]
    PROVE  \/ LedgerOf'[r] = LedgerOf[r]
           \/ /\ Len(LedgerOf'[r]) > Len(LedgerOf[r])
              /\ SubSeq(LedgerOf'[r], 1, Len(LedgerOf[r])) = LedgerOf[r]
              /\ Ledger!Legal(LedgerOf'[r])
<1> DEFINE old == LedgerOf[r]
           new == LedgerOf'[r]
<1>1. old \in Seq(Kinds) /\ new \in Seq(Kinds)
  BY LedgerTypes, LedgerTypesNext DEF LedgerTypeOK
<1>2. /\ old = IF Saved(r) = NoRecord THEN <<>> ELSE Saved(r).history
      /\ new = IF Saved(r)' = NoRecord THEN <<>> ELSE (Saved(r)').history
  BY DEF LedgerOf
<1>3. new # <<>> => Ledger!Legal(new)
  <2>1. Saved(r)' # NoRecord => Ledger!Legal((Saved(r)').history)
    BY DEF LedgerInv, TablesTell, DiskStories, Story, Told
  <2> QED BY <1>2, <2>1
<1>4. CASE Saved(r)' = Saved(r)
  BY <1>2, <1>4
<1>5. CASE Saved(r) = NoRecord
  <2>1. old = <<>>
    BY <1>2, <1>5
  <2>2. CASE new = <<>>
    BY <2>1, <2>2
  <2>3. CASE new # <<>>
    <3>1. Len(new) > Len(old)
      BY <1>1, <2>1, <2>3
    <3>2. SubSeq(new, 1, Len(old)) = old
      BY <1>1, <2>1
    <3> QED BY <1>3, <2>3, <3>1, <3>2
  <2> QED BY <2>2, <2>3
<1>6. CASE Saved(r) # NoRecord /\ Tracked(r) /\ Saved(r)' = runs'[r]
  <2>1. Extends(runs[r].history, old) /\ runs[r].history \in Seq(Kinds) /\ runs'[r] # NoRecord
    BY <1>2, <1>6, HistoriesAreSequences DEF LedgerInv, DiskInv, Covered, Written, Tracked
  <2>2. new = runs[r].history \/ \E kind \in Kinds : new = Append(runs[r].history, kind)
    BY <1>2, <1>6, <2>1 DEF Written
  <2>3. Len(old) <= Len(new) /\ \A i \in 1..Len(old) : new[i] = old[i]
    <3>1. PICK h \in Seq(Kinds) : Extends(h, old) /\ (new = h \/ \E kind \in Kinds : new = Append(h, kind))
      BY <2>1, <2>2
    <3> HIDE DEF old, new
    <3>2. Len(h) <= Len(new) /\ \A i \in 1..Len(h) : new[i] = h[i]
      BY <3>1
    <3> QED BY <1>1, <3>1, <3>2 DEF Extends
  <2> HIDE DEF old, new
  <2>4. SubSeq(new, 1, Len(old)) = old
    BY <1>1, <2>3
  <2>5. CASE Len(new) = Len(old)
    <3>1. SubSeq(new, 1, Len(new)) = new
      BY <1>1
    <3> QED BY <2>4, <2>5, <3>1 DEF old, new
  <2>6. CASE Len(new) > Len(old)
    <3>1. new # <<>>
      BY <1>1, <2>6
    <3> QED BY <1>3, <2>4, <2>6, <3>1 DEF old, new
  <2>7. Len(new) = Len(old) \/ Len(new) > Len(old)
    BY <1>1, <2>3
  <2> QED BY <2>5, <2>6, <2>7 DEF old, new
<1> QED BY <1>4, <1>5, <1>6

LEMMA LedgerStep ==
    ASSUME LedgerInv, LedgerInv', [Next]_vars
    PROVE  (\E r \in Runs : Ledger!Extend(r)) \/ LedgerOf' = LedgerOf
<1>1. CASE UNCHANGED <<workspace, disk>>
  BY <1>1 DEF LedgerOf, Saved
<1>2. CASE StepWrites /\ DiskWritten
  <2>1. PICK r \in Runs :
            /\ \A q \in Runs \ {r} : Saved(q)' = Saved(q)
            /\ \/ Saved(r)' = Saved(r)
               \/ Saved(r) = NoRecord
               \/ Tracked(r) /\ Saved(r)' = runs'[r]
    BY <1>2 DEF DiskWritten
  <2>2. \A q \in Runs \ {r} : LedgerOf'[q] = LedgerOf[q]
    BY <2>1 DEF LedgerOf
  <2>3. LedgerOf \in [Runs -> Seq(Kinds)] /\ LedgerOf' \in [Runs -> Seq(Kinds)]
    BY LedgerTypes, LedgerTypesNext DEF LedgerTypeOK
  <2>4. CASE LedgerOf'[r] = LedgerOf[r]
    <3>1. \A q \in Runs : LedgerOf'[q] = LedgerOf[q]
      BY <2>2, <2>4
    <3> QED BY <2>3, <3>1
  <2>5. CASE LedgerOf'[r] # LedgerOf[r]
    <3>1. /\ Len(LedgerOf'[r]) > Len(LedgerOf[r])
          /\ SubSeq(LedgerOf'[r], 1, Len(LedgerOf[r])) = LedgerOf[r]
          /\ Ledger!Legal(LedgerOf'[r])
      BY <1>2, <2>1, <2>5, WrittenGrows DEF StepWrites
    <3> QED BY <2>2, <2>3, <3>1 DEF Ledger!Extend, LedgerOf
  <2> QED BY <2>4, <2>5
<1>3. CASE Crash
  BY <1>1, <1>3, CrashRestores
<1> QED BY <1>1, <1>2, <1>3, NextWrites DEF StepWrites

\* The record files implement the ledger: a saved history only grows and is
\* always a legal story, whatever the threads, the failed writes and the crashes
\* do (persist_run, update_run, restore_runs).
THEOREM RecordsImplementLedger == Spec => ImplementsLedger
<1>1. Init => Ledger!Init
  BY DEF Init, Ledger!Init, Saved
<1>2. LedgerInv /\ LedgerInv' /\ [Next]_vars => [Ledger!Next]_LedgerOf
  BY LedgerStep DEF Ledger!Next
<1> QED BY <1>1, <1>2, LedgerInvHolds, PTL DEF Spec, ImplementsLedger, Ledger!Spec, LedgerOf
=============================================================================
