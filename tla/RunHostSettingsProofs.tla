------------------------ MODULE RunHostSettingsProofs ------------------------
(***************************************************************************)
(* Theorems about the run host whose settings are saved while it works,    *)
(* for every number of workspaces, runs, threads, commands, faults,        *)
(* crashes and saves.                                                      *)
(*                                                                         *)
(* SettingsInv has one part for each of the two properties.  Homes holds   *)
(* as long as no start was under way when settings were saved; Exact, as   *)
(* long as no command was and no call failed.  Most steps of the host do   *)
(* one thing to the records, HostMoves: at most one tracked run is         *)
(* updated, in the table and in the file of the workspace of the moment.   *)
(***************************************************************************)
EXTENDS RunHostSettings, RunHostProofs

SettingsOK ==
    /\ settings \in [pc : {"idle", "switch", "clear", "read", "restore"},
                     restored : [Runs -> Record \cup {NoRecord}],
                     saves : Nat, overlapped : BOOLEAN, starting : BOOLEAN]
    /\ settings.starting => settings.overlapped

\* While configure is under way no run is being started; once it has emptied the
\* table nothing is entered, so nothing is written before the records it read
\* take their place.
Window ==
    /\ ~SettingsAt("idle") => \A c \in Callers : call[c].pc \notin Starting
    /\ settings.pc \in {"read", "restore"} => runs = NoTable
    /\ SettingsAt("restore") => settings.restored = Restored(workspace)

\* A run belongs to one workspace, and the table is never behind its record
\* there, although the table may be of another workspace.
OneHome == \A ws, other \in Workspaces, r \in Runs : Homed(ws, r) /\ Homed(other, r) => other = ws

HomeCovered == \A ws \in Workspaces, r \in Runs : Homed(ws, r) /\ Tracked(r) =>
    runs[r].home = ws /\ Extends(runs[r].history, disk[ws][r].history)

\* A run that is being started is known to nobody else, and its record is where
\* the start has put it.
Alone(c) ==
    LET r == call[c].run IN
    /\ ~Tracked(r)
    /\ \A d \in Callers \ {c} : call[d].pc \in Starting => call[d].run # r
    /\ call[c].record.home = workspace
    /\ \A ws \in Workspaces : disk[ws][r] = IF ws = workspace /\ CallAt(c, "start_insert")
                                            THEN call[c].record ELSE NoRecord
StartsAlone == \A c \in Callers : call[c].pc \in Starting => Alone(c)

Homes == Window /\ OneHome /\ HomeCovered /\ StartsAlone

\* Outside the window in which the table is replaced it is what a restart would
\* restore, but for the runs that are saved and not entered yet.
Inserting(r) == \E c \in Callers : CallAt(c, "start_insert") /\ call[c].run = r
Exact ==
    /\ ~SettingsAt("idle") => \A c \in Callers : CallAt(c, "idle")
    /\ settings.pc \in {"idle", "switch"} =>
          \A r \in Runs : runs[r] = Restored(workspace)[r] \/ Inserting(r)

SettingsInv ==
    /\ TypeInv /\ SettingsOK
    /\ ~settings.starting => Homes
    /\ ~settings.overlapped /\ used.faults = 0 => Exact

-----------------------------------------------------------------------------
(* What the steps of the host do to the records. *)

Updates == \E r \in Runs, record \in Record :
    /\ Tracked(r)
    /\ record.home = runs[r].home /\ Extends(record.history, runs[r].history)
    /\ runs' = [runs EXCEPT ![r] = record]
    /\ disk' \in {disk, [disk EXCEPT ![workspace][r] = record]}
    /\ used'.faults = 0 => disk' = [disk EXCEPT ![workspace][r] = record]

CallMoves(c) ==
    \/ call'[c] = call[c]
    \/ /\ call[c].pc \notin Starting /\ call'[c].pc \notin Starting
       /\ call[c].pc # "idle" \/ SettingsAt("idle")

HostMoves ==
    /\ workspace' = workspace
    /\ used'.faults = 0 => used.faults = 0
    /\ UNCHANGED RunVars \/ Updates
    /\ \A c \in Callers : CallMoves(c)

\* A call that fails is counted.
LEMMA FaultsCount ==
    ASSUME UsedOK
    PROVE  /\ Fault => used'.faults # 0
           /\ UNCHANGED used \/ Fault => (used'.faults = 0 => used.faults = 0)
BY DEF UsedOK, Fault

\* update_run with a record of the same workspace and history.
LEMMA UpdateIsUpdates ==
    ASSUME TypeInv, NEW r \in Runs, Tracked(r), NEW record \in Record, NEW saved \in BOOLEAN,
           record.home = runs[r].home, Extends(record.history, runs[r].history),
           UpdateRun(saved, r, record)
    PROVE  Updates /\ (used'.faults = 0 => used.faults = 0)
<1>1. UsedOK
  BY DEF TypeInv, TablesOK
<1>2. CASE saved
  BY <1>1, <1>2, FaultsCount DEF UpdateRun, Persist, Updates
<1>3. CASE ~saved
  BY <1>1, <1>3, FaultsCount DEF UpdateRun, Persist, Updates
<1> QED BY <1>2, <1>3

\* update_run with one more history entry.
LEMMA NotedIsUpdates ==
    ASSUME TypeInv, NEW r \in Runs, Tracked(r), NEW record \in Record, NEW kind \in Kinds,
           NEW saved \in BOOLEAN, record.home = runs[r].home, record.history = runs[r].history,
           UpdateRun(saved, r, Noting(kind, record))
    PROVE  Updates /\ (used'.faults = 0 => used.faults = 0)
<1>1. /\ Noting(kind, record) \in Record /\ Extends(Noting(kind, record).history, runs[r].history)
      /\ Noting(kind, record).home = runs[r].home
  BY NotingIsRecord, NotingExtends DEF Noting, Record
<1> QED BY <1>1, UpdateIsUpdates

\* A thread updates its own run, or writes nothing.
LEMMA WorkerMoves ==
    ASSUME TypeInv, NEW w \in Workers, WorkerStep(w)
    PROVE  HostMoves
<1> DEFINE r == worker[w].run
<1>1. r \in Runs /\ worker[w] \in WorkerRecord /\ UsedOK
  BY DEF WorkerStep, BeginExecution, SpawnChild, RegisterChild, PollChild, WakeUp, UnregisterChild,
         FinishExecution, FailExecution, WorkerAt, TypeInv, TablesOK, WorkersOK, WorkerOK
<1>2. workspace' = workspace /\ \A c \in Callers : CallMoves(c)
  BY DEF WorkerStep, BeginExecution, SpawnChild, RegisterChild, PollChild, WakeUp, UnregisterChild,
         FinishExecution, FailExecution, CallMoves, HostRest
<1>3. SUFFICES (UNCHANGED RunVars \/ Updates) /\ (used'.faults = 0 => used.faults = 0)
  BY <1>2, <1>3 DEF HostMoves
<1>4. CASE UNCHANGED RunVars /\ (UNCHANGED used \/ Fault)
  BY <1>1, <1>4, FaultsCount
<1>5. ASSUME Tracked(r), NEW saved \in BOOLEAN,
             UpdateRun(saved, r, Noting("execution_started", [runs[r] EXCEPT !.state =
                 IF runs[r].executor = "local" THEN "running" ELSE "submitting"]))
      PROVE  Updates /\ (used'.faults = 0 => used.faults = 0)
  <2> DEFINE record == [runs[r] EXCEPT !.state = IF runs[r].executor = "local"
                                                 THEN "running" ELSE "submitting"]
  <2>1. record \in Record /\ record.home = runs[r].home /\ record.history = runs[r].history
    BY <1>1, <1>5, TrackedIsRecord DEF TypeInv, TablesOK, Record, RunStates, RemoteStates
  <2>2. UpdateRun(saved, r, Noting("execution_started", record))
    BY <1>5
  <2> HIDE DEF record
  <2> QED BY <1>1, <1>5, <2>1, <2>2, NotedIsUpdates DEF Kinds
<1>6. ASSUME WorkerAt(w, "join"), Tracked(r), NEW saved \in BOOLEAN,
             UpdateRun(saved, r, Noting("execution_finished", [runs[r] EXCEPT !.exit = worker[w].child,
                 !.ref = worker[w].out, !.state = SettledState(runs[r], worker[w].child, worker[w].out)]))
      PROVE  Updates /\ (used'.faults = 0 => used.faults = 0)
  <2> DEFINE record == [runs[r] EXCEPT !.exit = worker[w].child, !.ref = worker[w].out,
                            !.state = SettledState(runs[r], worker[w].child, worker[w].out)]
  <2>1. worker[w].child \in {"ok", "failed"} /\ runs[r] \in Record
    BY <1>1, <1>6, TrackedIsRecord DEF WorkerAt, TypeInv, TablesOK, WorkersOK, WorkerOK
  <2>2. SettledState(runs[r], worker[w].child, worker[w].out) \in RunStates
    BY <2>1 DEF SettledState, RunStates, RemoteStates, Terminal
  <2>3. record \in Record /\ record.home = runs[r].home /\ record.history = runs[r].history
    BY <1>1, <2>1, <2>2 DEF Record, WorkerRecord
  <2>4. UpdateRun(saved, r, Noting("execution_finished", record))
    BY <1>6
  <2> HIDE DEF record
  <2> QED BY <1>1, <1>6, <2>3, <2>4, NotedIsUpdates DEF Kinds
<1>7. ASSUME Tracked(r), NEW saved \in BOOLEAN,
             UpdateRun(saved, r, Noting("execution_failed",
                 [runs[r] EXCEPT !.state = IF @ = "cancelled" THEN @ ELSE "failed"]))
      PROVE  Updates /\ (used'.faults = 0 => used.faults = 0)
  <2> DEFINE record == [runs[r] EXCEPT !.state = IF @ = "cancelled" THEN @ ELSE "failed"]
  <2>1. record \in Record /\ record.home = runs[r].home /\ record.history = runs[r].history
    BY <1>1, <1>7, TrackedIsRecord DEF TypeInv, TablesOK, Record, RunStates, RemoteStates, Terminal
  <2>2. UpdateRun(saved, r, Noting("execution_failed", record))
    BY <1>7
  <2> HIDE DEF record
  <2> QED BY <1>1, <1>7, <2>1, <2>2, NotedIsUpdates DEF Kinds
<1> QED
  <2>1. CASE SpawnChild(w) \/ RegisterChild(w) \/ PollChild(w) \/ WakeUp(w) \/ UnregisterChild(w)
    BY <1>4, <2>1 DEF SpawnChild, RegisterChild, PollChild, WakeUp, UnregisterChild
  <2>2. CASE BeginExecution(w)
    BY <1>4, <1>5, <2>2 DEF BeginExecution
  <2>3. CASE FinishExecution(w)
    BY <1>4, <1>6, <2>3 DEF FinishExecution
  <2>4. CASE FailExecution(w)
    BY <1>4, <1>7, <2>4 DEF FailExecution
  <2> QED BY <2>1, <2>2, <2>3, <2>4 DEF WorkerStep

\* What happens outside the host writes nothing.
LEMMA OutsideMoves ==
    ASSUME OutsideStep
    PROVE  HostMoves
BY DEF OutsideStep, ChildExits, ChildSubmits, JobMoves, HostMoves, CallMoves, RunVars, HostRest

\* A command of the user that is no start is under way when its step is taken.
LEMMA ReturnMoves ==
    ASSUME CallsOK, NEW c \in Callers, call[c].pc \notin Starting \cup {"idle"},
           \/ Return(c)
           \/ \E pc \in CallPc \ Starting : CallGoes(c, pc)
           \/ \E pc \in CallPc \ Starting : \E ref : call' = [call EXCEPT ![c].pc = pc, ![c].ref = ref]
           \/ \E pc \in CallPc \ Starting : \E seen : call' = [call EXCEPT ![c].pc = pc, ![c].seen = seen]
    PROVE  \A d \in Callers : CallMoves(d)
<1>1. call \in [Callers -> CallRecord]
  BY DEF CallsOK
<1>2. call'[c].pc \notin Starting /\ \A d \in Callers \ {c} : call'[d] = call[d]
  <2>1. CASE Return(c)
    BY <1>1, <2>1 DEF Return, IdleCall, Starting
  <2>2. CASE \E pc \in CallPc \ Starting : CallGoes(c, pc)
    BY <1>1, <2>2 DEF CallGoes, CallRecord
  <2>3. CASE \E pc \in CallPc \ Starting : \E ref : call' = [call EXCEPT ![c].pc = pc, ![c].ref = ref]
    BY <1>1, <2>3, ZenonT(60) DEF CallRecord
  <2>4. CASE \E pc \in CallPc \ Starting : \E seen : call' = [call EXCEPT ![c].pc = pc, ![c].seen = seen]
    BY <1>1, <2>4 DEF CallRecord
  <2> QED BY <2>1, <2>2, <2>3, <2>4
<1> QED BY <1>2 DEF CallMoves

\* A command updates the run it is about, or writes nothing.
LEMMA QuietHandlerMoves ==
    ASSUME TypeInv, NEW c \in Callers,
           \/ InspectSnapshot(c) \/ InspectCli(c) \/ CancelLookup(c) \/ CancelKill(c)
           \/ CancelRemote(c) \/ CancelCli(c) \/ RetryTake(c) \/ RetryCli(c)
           \/ ResumeCheckRef(c) \/ ResumeCheckProcess(c)
    PROVE  HostMoves
<1>1. CallsOK /\ UsedOK
  BY DEF TypeInv, TablesOK
<1>2. /\ call[c].pc \notin Starting \cup {"idle"}
      /\ UNCHANGED <<workspace, RunVars>> /\ (UNCHANGED used \/ Fault)
  BY DEF Starting, InspectSnapshot, InspectCli, CancelLookup, CancelKill, CancelRemote, CancelCli, RetryTake,
         RetryCli, ResumeCheckRef, ResumeCheckProcess, CallAt, HostRest
<1>3. used'.faults = 0 => used.faults = 0
  BY <1>1, <1>2, FaultsCount
<1>4. \/ Return(c)
      \/ \E pc \in CallPc \ Starting : CallGoes(c, pc)
      \/ \E pc \in CallPc \ Starting : \E ref : call' = [call EXCEPT ![c].pc = pc, ![c].ref = ref]
      \/ \E pc \in CallPc \ Starting : \E seen : call' = [call EXCEPT ![c].pc = pc, ![c].seen = seen]
  <2>1. CASE InspectSnapshot(c) \/ InspectCli(c)
    BY <2>1 DEF InspectSnapshot, InspectCli, CallPc, Starting
  <2>2. CASE CancelLookup(c) \/ CancelKill(c) \/ CancelRemote(c) \/ CancelCli(c)
    BY <2>2 DEF CancelLookup, CancelKill, CancelRemote, CancelCli, CallPc, Starting
  <2>3. CASE RetryTake(c) \/ RetryCli(c)
    BY <2>3 DEF RetryTake, RetryCli, CallPc, Starting
  <2>4. CASE ResumeCheckRef(c) \/ ResumeCheckProcess(c)
    BY <2>4 DEF ResumeCheckRef, ResumeCheckProcess, CallPc, Starting
  <2> QED BY <2>1, <2>2, <2>3, <2>4
<1>5. \A d \in Callers : CallMoves(d)
  BY <1>1, <1>2, <1>4, ReturnMoves
<1> QED BY <1>2, <1>3, <1>5 DEF HostMoves

LEMMA WritingHandlerMoves ==
    ASSUME TypeInv, NEW c \in Callers,
           InspectApply(c) \/ CancelMark(c) \/ FetchBegin(c) \/ FetchEnd(c) \/ RetryApply(c) \/ ResumeLaunch(c)
    PROVE  HostMoves
<1> DEFINE r == call[c].run
<1>1. CallsOK /\ UsedOK /\ RunsOK /\ call[c] \in CallRecord
  BY DEF TypeInv, TablesOK, CallsOK
<1>2. call[c].pc \notin Starting \cup {"idle"} /\ r \in Runs /\ workspace' = workspace
  BY <1>1 DEF Starting, InspectApply, CancelMark, FetchBegin, FetchEnd, RetryApply, ResumeLaunch, CallAt,
              HostRest, CallsOK, CallOK
<1>3. \A d \in Callers : CallMoves(d)
  <2>1. Return(c) \/ \E pc \in CallPc \ Starting : CallGoes(c, pc)
    BY DEF InspectApply, CancelMark, FetchBegin, FetchEnd, RetryApply, ResumeLaunch, CallPc, Starting
  <2> QED BY <1>1, <1>2, <2>1, ReturnMoves
<1>4. SUFFICES (UNCHANGED RunVars \/ Updates) /\ (used'.faults = 0 => used.faults = 0)
  BY <1>2, <1>3, <1>4 DEF HostMoves
<1>5. CASE UNCHANGED RunVars /\ (UNCHANGED used \/ Fault)
  BY <1>1, <1>5, FaultsCount
<1>6. Tracked(r) => runs[r] \in Record
  BY <1>1, <1>2, TrackedIsRecord
<1>7. CASE InspectApply(c)
  <2> DEFINE record == [runs[r] EXCEPT !.state =
                            IF call[c].seen \in RemoteStates THEN call[c].seen ELSE @]
  <2>1. PICK saved \in BOOLEAN : UpdateRun(saved, r, record)
    BY <1>7 DEF InspectApply
  <2>2. Tracked(r) /\ runs[r] \in Record
    BY <1>6, <1>7 DEF InspectApply
  <2>3. record \in Record /\ record.home = runs[r].home /\ record.history = runs[r].history
    BY <2>2 DEF Record, RunStates
  <2>4. Extends(record.history, runs[r].history)
    BY <2>2, <2>3 DEF Extends, Record
  <2> HIDE DEF record
  <2> QED BY <1>2, <2>1, <2>2, <2>3, <2>4, UpdateIsUpdates
<1>8. CASE CancelMark(c) /\ Tracked(r)
  <2> DEFINE record == [runs[r] EXCEPT !.state = "cancelled"]
  <2>1. PICK saved \in BOOLEAN : UpdateRun(saved, r, Noting("cancelled", record))
    BY <1>8 DEF CancelMark
  <2>2. record \in Record /\ record.home = runs[r].home /\ record.history = runs[r].history
    BY <1>6, <1>8 DEF Record, RunStates, RemoteStates, Terminal
  <2> HIDE DEF record
  <2> QED BY <1>2, <1>8, <2>1, <2>2, NotedIsUpdates DEF Kinds
<1>9. ASSUME Tracked(r), NEW kind \in {"fetch_started", "fetch_finished", "fetch_failed"},
             NEW saved \in BOOLEAN, UpdateRun(saved, r, Noting(kind, runs[r]))
      PROVE  Updates /\ (used'.faults = 0 => used.faults = 0)
  BY <1>2, <1>6, <1>9, NotedIsUpdates DEF Kinds
<1>10. CASE RetryApply(c) /\ Tracked(r)
  <2> DEFINE record == [runs[r] EXCEPT !.ref = IF call[c].ref # NoRef THEN call[c].ref ELSE @,
                                       !.state = "queued"]
  <2>1. PICK saved \in BOOLEAN : UpdateRun(saved, r, Noting("retried", record))
    BY <1>10 DEF RetryApply
  <2>2. (IF call[c].ref # NoRef THEN call[c].ref ELSE runs[r].ref) \in Refs \cup {NoRef}
    BY <1>1, <1>6, <1>10 DEF Record, CallRecord
  <2>3. record \in Record /\ record.home = runs[r].home /\ record.history = runs[r].history
    BY <1>6, <1>10, <2>2 DEF Record, RunStates, RemoteStates
  <2> HIDE DEF record
  <2> QED BY <1>2, <1>10, <2>1, <2>3, NotedIsUpdates DEF Kinds
<1>11. CASE ResumeLaunch(c) /\ Tracked(r)
  <2> DEFINE old == [runs[r] EXCEPT !.state = "starting"]
             record == Noting("resumed", old)
  <2>1. old \in Record /\ old.home = runs[r].home /\ old.history = runs[r].history
    BY <1>6, <1>11 DEF Record, RunStates
  <2>2. "resumed" \in Kinds
    BY DEF Kinds
  <2>3. \/ UpdateRun(TRUE, r, record)
        \/ /\ runs' = [runs EXCEPT ![r] = record]
           /\ Fault
           /\ disk' \in {disk, [disk EXCEPT ![workspace][r] = record]}
    BY <1>11 DEF ResumeLaunch
  <2> HIDE DEF old
  <2>4. /\ record \in Record /\ record.home = runs[r].home
        /\ Extends(record.history, runs[r].history)
    BY <2>1, <2>2, NotingIsRecord, NotingExtends DEF Noting, Record
  <2> HIDE DEF record
  <2>5. CASE UpdateRun(TRUE, r, record)
    BY <1>2, <1>11, <2>4, <2>5, UpdateIsUpdates
  <2>6. CASE /\ runs' = [runs EXCEPT ![r] = record]
             /\ Fault
             /\ disk' \in {disk, [disk EXCEPT ![workspace][r] = record]}
    <3>1. used'.faults # 0
      BY <1>1, <2>6, FaultsCount
    <3> QED BY <1>2, <1>11, <2>4, <2>6, <3>1 DEF Updates
  <2> QED BY <2>3, <2>5, <2>6
<1> QED
  <2>1. CASE CancelMark(c)
    BY <1>5, <1>8, <2>1 DEF CancelMark
  <2>2. CASE FetchBegin(c)
    BY <1>5, <1>9, <2>2 DEF FetchBegin
  <2>3. CASE FetchEnd(c)
    BY <1>5, <1>9, <2>3 DEF FetchEnd
  <2>4. CASE RetryApply(c)
    BY <1>5, <1>10, <2>4 DEF RetryApply
  <2>5. CASE ResumeLaunch(c)
    BY <1>5, <1>11, <2>5 DEF ResumeLaunch
  <2> QED BY <1>7, <2>1, <2>2, <2>3, <2>4, <2>5

LEMMA IssueMoves ==
    ASSUME TypeInv, SettingsAt("idle"), NEW c \in Callers, NEW op \in AllOps, NEW r \in Runs, Issue(c, op, r)
    PROVE  HostMoves
<1>1. call \in [Callers -> CallRecord] /\ UsedOK
  BY DEF TypeInv, TablesOK, CallsOK
<1>2. \A d \in Callers : CallMoves(d)
  BY <1>1 DEF Issue, CallAt, CallMoves, AllOps, Starting, CallRecord, IdleCall
<1>3. used'.faults = used.faults
  BY <1>1 DEF Issue, Counted, UsedOK
<1> QED BY <1>2, <1>3 DEF Issue, HostMoves, HostRest

-----------------------------------------------------------------------------
(* These steps keep the invariant, and the records at home grow. *)

HomesGrow == \A ws \in Workspaces, r \in Runs : Homed(ws, r) =>
    Homed(ws, r)' /\ Extends(disk'[ws][r].history, disk[ws][r].history)

LEMMA ExtendsItself ==
    ASSUME NEW record \in Record
    PROVE  Extends(record.history, record.history)
BY DEF Extends, Record

LEMMA ExtendsOn ==
    ASSUME NEW a \in Record, NEW b \in Record, NEW d \in Record,
           Extends(a.history, b.history), Extends(b.history, d.history)
    PROVE  Extends(a.history, d.history)
<1>1. Len(a.history) \in Nat /\ Len(b.history) \in Nat /\ Len(d.history) \in Nat
  BY DEF Record
<1> QED BY <1>1 DEF Extends

LEMMA TablesAreRecords ==
    ASSUME TypeInv
    PROVE  /\ workspace \in Workspaces
           /\ \A r \in Runs : Tracked(r) => runs[r] \in Record
           /\ \A ws \in Workspaces, r \in Runs : disk[ws][r] # NoRecord => disk[ws][r] \in Record
BY DEF TypeInv, TablesOK, RunsOK, DiskOK, Tracked

\* What is not touched stays at home.
LEMMA UntouchedHomesGrow ==
    ASSUME TypeInv, disk' = disk
    PROVE  HomesGrow
BY TablesAreRecords, ExtendsItself DEF HomesGrow, Homed

\* A step that changes no record and no start.
LEMMA QuietKeepsHomes ==
    ASSUME Homes, UNCHANGED <<workspace, RunVars, settings>>,
           \A c \in Callers : CallMoves(c)
    PROVE  Homes'
<1>1. \A c \in Callers : call'[c].pc \in Starting => call'[c] = call[c]
  BY DEF CallMoves
<1>2. Window'
  BY <1>1 DEF Homes, Window, SettingsAt, Restored, RunVars
<1>3. OneHome' /\ HomeCovered'
  BY DEF Homes, OneHome, HomeCovered, Homed, Tracked, RunVars
<1>4. StartsAlone'
  BY <1>1 DEF Homes, StartsAlone, Alone, CallAt, Tracked, RunVars
<1> QED BY <1>2, <1>3, <1>4 DEF Homes

LEMMA UpdateKeepsHomes ==
    ASSUME TypeInv, Homes, UNCHANGED <<workspace, settings>>, Updates, \A c \in Callers : CallMoves(c)
    PROVE  Homes' /\ HomesGrow
<1> PICK r \in Runs, record \in Record :
        /\ Tracked(r)
        /\ record.home = runs[r].home /\ Extends(record.history, runs[r].history)
        /\ runs' = [runs EXCEPT ![r] = record]
        /\ disk' \in {disk, [disk EXCEPT ![workspace][r] = record]}
  BY DEF Updates
<1>1. workspace \in Workspaces /\ RunsOK /\ DiskOK /\ record # NoRecord /\ runs[r] \in Record
  BY TablesAreRecords, SentinelsAssumption DEF TypeInv, TablesOK
<1>2. runs'[r] = record /\ \A q \in Runs \ {r} : runs'[q] = runs[q]
  BY <1>1 DEF RunsOK
<1>3. \A ws \in Workspaces : /\ disk'[ws][r] \in {disk[ws][r], record}
                             /\ \A q \in Runs \ {r} : disk'[ws][q] = disk[ws][q]
  BY <1>1 DEF DiskOK
<1>4. \A c \in Callers : call'[c].pc \in Starting => call'[c] = call[c]
  BY DEF CallMoves
<1>5. ASSUME NEW ws \in Workspaces, Homed(ws, r)
      PROVE  record.home = ws /\ Extends(record.history, disk[ws][r].history)
  <2>1. runs[r].home = ws /\ Extends(runs[r].history, disk[ws][r].history)
    BY <1>5 DEF Homes, HomeCovered
  <2>2. disk[ws][r] \in Record
    BY <1>5, TablesAreRecords DEF Homed
  <2> QED BY <1>1, <2>1, <2>2, ExtendsOn
<1>6. ASSUME NEW ws \in Workspaces, Homed(ws, r)'
      PROVE  record.home = ws /\ Extends(record.history, disk'[ws][r].history)
  <2>1. CASE disk'[ws][r] = record
    BY <1>6, <2>1, ExtendsItself DEF Homed
  <2>2. CASE disk'[ws][r] = disk[ws][r]
    BY <1>5, <1>6, <2>2 DEF Homed
  <2> QED BY <1>3, <2>1, <2>2
<1>7. Window'
  <2>1. settings.pc \notin {"read", "restore"}
    BY DEF Homes, Window, NoTable, Tracked
  <2> QED BY <1>4, <2>1 DEF Homes, Window, SettingsAt
<1>8. OneHome'
  <2> SUFFICES ASSUME NEW ws \in Workspaces, NEW other \in Workspaces, NEW q \in Runs,
                      Homed(ws, q)', Homed(other, q)'
               PROVE  other = ws
    BY DEF OneHome
  <2>1. CASE q = r
    BY <1>6, <2>1
  <2>2. CASE q # r
    BY <1>3, <2>2 DEF Homes, OneHome, Homed
  <2> QED BY <2>1, <2>2
<1>9. HomeCovered'
  <2> SUFFICES ASSUME NEW ws \in Workspaces, NEW q \in Runs, Homed(ws, q)', Tracked(q)'
               PROVE  runs'[q].home = ws /\ Extends(runs'[q].history, disk'[ws][q].history)
    BY DEF HomeCovered
  <2>1. CASE q = r
    BY <1>2, <1>6, <2>1
  <2>2. CASE q # r
    BY <1>2, <1>3, <2>2 DEF Homes, HomeCovered, Homed, Tracked
  <2> QED BY <2>1, <2>2
<1>10. StartsAlone'
  <2> SUFFICES ASSUME NEW c \in Callers, call'[c].pc \in Starting
               PROVE  Alone(c)'
    BY DEF StartsAlone
  <2>1. call'[c] = call[c] /\ Alone(c) /\ call[c].run \in Runs
    BY <1>4 DEF Homes, StartsAlone, TypeInv, CallsOK, CallOK, Starting
  <2>2. call[c].run # r
    BY <2>1 DEF Alone
  <2> QED BY <1>2, <1>3, <1>4, <2>1, <2>2 DEF Alone, Tracked, CallAt
<1>11. HomesGrow
  <2> SUFFICES ASSUME NEW ws \in Workspaces, NEW q \in Runs, Homed(ws, q)
               PROVE  Homed(ws, q)' /\ Extends(disk'[ws][q].history, disk[ws][q].history)
    BY DEF HomesGrow
  <2>1. disk[ws][q] \in Record
    BY TablesAreRecords DEF Homed
  <2>2. CASE q = r /\ disk'[ws][q] = record
    BY <1>1, <1>5, <2>2 DEF Homed
  <2>3. CASE disk'[ws][q] = disk[ws][q]
    BY <2>1, <2>3, ExtendsItself DEF Homed
  <2> QED BY <1>3, <2>2, <2>3
<1> QED BY <1>7, <1>8, <1>9, <1>10, <1>11 DEF Homes

LEMMA MovesKeepHomes ==
    ASSUME TypeInv, Homes, UNCHANGED settings, HostMoves
    PROVE  Homes' /\ HomesGrow
BY QuietKeepsHomes, UpdateKeepsHomes, UntouchedHomesGrow DEF HostMoves, RunVars

LEMMA MovesKeepExact ==
    ASSUME TypeInv, Homes, Exact, UNCHANGED settings, HostMoves, used'.faults = 0
    PROVE  Exact'
<1>1. ~SettingsAt("idle") => \A c \in Callers : CallAt(c, "idle")'
  BY DEF Exact, HostMoves, CallMoves, CallAt
<1>2. ASSUME settings.pc \in {"idle", "switch"}, NEW q \in Runs, Inserting(q)
      PROVE  Inserting(q)'
  BY <1>2 DEF Inserting, HostMoves, CallMoves, CallAt, Starting
<1>3. CASE UNCHANGED RunVars
  <2>1. Restored(workspace)' = Restored(workspace)
    BY <1>3 DEF HostMoves, Restored, RunVars
  <2> QED BY <1>1, <1>2, <1>3, <2>1 DEF Exact, SettingsAt, RunVars
<1>4. CASE Updates
  <2> PICK r \in Runs, record \in Record :
        /\ Tracked(r)
        /\ record.home = runs[r].home
        /\ runs' = [runs EXCEPT ![r] = record]
        /\ disk' = [disk EXCEPT ![workspace][r] = record]
    BY <1>4 DEF Updates
  <2>1. workspace \in Workspaces /\ workspace' = workspace /\ RunsOK /\ DiskOK /\ record # NoRecord
    BY SentinelsAssumption DEF TypeInv, TablesOK, HostMoves
  <2>2. runs'[r] = record /\ disk'[workspace][r] = record
    BY <2>1 DEF RunsOK, DiskOK
  <2>3. \A q \in Runs \ {r} : runs'[q] = runs[q] /\ disk'[workspace][q] = disk[workspace][q]
    BY <2>1 DEF RunsOK, DiskOK
  <2>4. ASSUME settings.pc \in {"idle", "switch"}
        PROVE  runs'[r] = Restored(workspace)'[r]
    <3>1. ~Inserting(r)
      BY DEF Inserting, Homes, StartsAlone, Alone, CallAt, Starting
    <3>2. runs[r] = Restored(workspace)[r]
      BY <2>4, <3>1 DEF Exact
    <3>3. runs[r].home = workspace
      BY <3>2 DEF Restored, Tracked
    <3> QED BY <2>1, <2>2, <3>3 DEF Restored
  <2>5. ASSUME settings.pc \in {"idle", "switch"}, NEW q \in Runs
        PROVE  runs'[q] = Restored(workspace)'[q] \/ Inserting(q)'
    <3>1. CASE q = r
      BY <2>4, <2>5, <3>1
    <3>2. CASE q # r
      <4>1. Restored(workspace)'[q] = Restored(workspace)[q]
        BY <2>1, <2>3, <3>2 DEF Restored
      <4> QED BY <1>2, <2>3, <2>5, <3>2, <4>1 DEF Exact
    <3> QED BY <3>1, <3>2
  <2> QED BY <1>1, <2>1, <2>5 DEF Exact, SettingsAt
<1> QED BY <1>3, <1>4 DEF HostMoves

-----------------------------------------------------------------------------
(* Starts: three steps of one command. *)

\* What the three of them need of the invariant.
StartGoes(c) ==
    /\ UNCHANGED <<workspace, settings>> /\ (used'.faults = 0 => used.faults = 0)
    /\ settings.pc = "idle"
    /\ \A d \in Callers \ {c} : call'[d] = call[d]

\* Only what is known of the run that is being started changes.
LEMMA StartKeepsHomes ==
    ASSUME TypeInv, TypeInv', Homes, NEW c \in Callers, StartGoes(c), NEW r \in Runs,
           \A d \in Callers \ {c} : call[d].pc \in Starting => call[d].run # r,
           call'[c].pc \in Starting => call'[c].run = r /\ Alone(c)',
           \A q \in Runs \ {r} : runs'[q] = runs[q],
           \A ws \in Workspaces, q \in Runs \ {r} : disk'[ws][q] = disk[ws][q],
           \A ws \in Workspaces \ {workspace} : disk'[ws][r] = NoRecord,
           Tracked(r)' => runs'[r] = disk'[workspace][r] \/ disk'[workspace][r] = NoRecord
    PROVE  Homes'
<1>1. Window'
  BY DEF StartGoes, Window, SettingsAt
<1>2. OneHome'
  <2> SUFFICES ASSUME NEW ws \in Workspaces, NEW other \in Workspaces, NEW q \in Runs,
                      Homed(ws, q)', Homed(other, q)'
               PROVE  other = ws
    BY DEF OneHome
  <2>1. CASE q = r
    BY <2>1 DEF Homed
  <2>2. CASE q # r
    BY <2>2 DEF Homes, OneHome, Homed
  <2> QED BY <2>1, <2>2
<1>3. HomeCovered'
  <2> SUFFICES ASSUME NEW ws \in Workspaces, NEW q \in Runs, Homed(ws, q)', Tracked(q)'
               PROVE  runs'[q].home = ws /\ Extends(runs'[q].history, disk'[ws][q].history)
    BY DEF HomeCovered
  <2>1. CASE q = r
    <3>1. runs'[q] = disk'[ws][q] /\ runs'[q] \in Record
      BY <2>1, TablesAreRecords DEF Homed, TypeInv, TablesOK, RunsOK, Tracked
    <3> QED BY <3>1, ExtendsItself DEF Homed
  <2>2. CASE q # r
    BY <2>2 DEF Homes, HomeCovered, Homed, Tracked
  <2> QED BY <2>1, <2>2
<1>4. StartsAlone'
  <2> SUFFICES ASSUME NEW d \in Callers, call'[d].pc \in Starting
               PROVE  Alone(d)'
    BY DEF StartsAlone
  <2>1. CASE d = c
    BY <2>1
  <2>2. CASE d # c
    <3>1. call'[d] = call[d] /\ Alone(d) /\ call[d].run \in Runs \ {r}
      BY <2>2 DEF StartGoes, Homes, StartsAlone, TypeInv, CallsOK, CallOK, Starting
    <3>2. \A e \in Callers \ {d} : call'[e].pc \in Starting => call'[e].run # call'[d].run
      BY <3>1 DEF StartGoes, Alone
    <3> QED BY <3>1, <3>2 DEF StartGoes, Alone, Tracked, CallAt
  <2> QED BY <2>1, <2>2
<1> QED BY <1>1, <1>2, <1>3, <1>4 DEF Homes

LEMMA StartKeepsExact ==
    ASSUME TypeInv, Exact, NEW c \in Callers, StartGoes(c), NEW r \in Runs, call[c].pc # "start_insert" \/ call[c].run = r,
           \A q \in Runs \ {r} : runs'[q] = runs[q] /\ disk'[workspace][q] = disk[workspace][q],
           runs'[r] = Restored(workspace)'[r] \/ Inserting(r)'
    PROVE  Exact'
<1> SUFFICES ASSUME NEW q \in Runs \ {r}
             PROVE  runs'[q] = Restored(workspace)'[q] \/ Inserting(q)'
  BY DEF StartGoes, Exact, SettingsAt
<1>1. Inserting(q) => Inserting(q)'
  BY DEF Inserting, StartGoes, CallAt
<1>2. Restored(workspace)'[q] = Restored(workspace)[q]
  BY DEF StartGoes, Restored
<1> QED BY <1>1, <1>2 DEF StartGoes, Exact

LEMMA StartBuildKeeps ==
    ASSUME TypeInv, TypeInv', Homes, SettingsAt("idle"), UNCHANGED settings,
           NEW c \in Callers, NEW r \in Runs, NEW executor \in Executors, StartBuild(c, r, executor)
    PROVE  Homes' /\ HomesGrow /\ (Exact /\ used'.faults = 0 => Exact') /\ (used'.faults = 0 => used.faults = 0)
<1> DEFINE record == [executor |-> executor, home |-> workspace, state |-> "starting",
                      exit |-> "none", ref |-> NoRef, history |-> <<"created">>]
<1>1. /\ call \in [Callers -> CallRecord] /\ UsedOK /\ call[c].pc = "idle" /\ Fresh(r)
      /\ UNCHANGED <<RunVars, workspace>>
      /\ call' = [call EXCEPT ![c] = [IdleCall EXCEPT !.pc = "start", !.run = r, !.record = record]]
  BY DEF StartBuild, CallAt, HostRest, TypeInv, TablesOK, CallsOK
<1>2. used'.faults = used.faults
  BY <1>1 DEF StartBuild, Counted, UsedOK
<1>3. record.home = workspace
  OBVIOUS
<1> HIDE DEF record
<1>4. /\ call'[c].pc = "start" /\ call'[c].run = r /\ call'[c].record = record
      /\ \A d \in Callers \ {c} : call'[d] = call[d]
  BY <1>1 DEF IdleCall
<1>5. StartGoes(c)
  BY <1>1, <1>2, <1>4 DEF StartGoes, SettingsAt
<1>6. /\ runs' = runs /\ disk' = disk /\ runs[r] = NoRecord
      /\ \A ws \in Workspaces : disk[ws][r] = NoRecord
      /\ \A d \in Callers : call[d].run # r
  BY <1>1 DEF Fresh, RunVars, Tracked
<1>7. Alone(c)'
  BY <1>1, <1>3, <1>4, <1>6 DEF Alone, Tracked, CallAt
<1>8. Homes'
  BY <1>4, <1>5, <1>6, <1>7, StartKeepsHomes DEF Tracked
<1>9. workspace \in Workspaces
  BY TablesAreRecords
<1>10. runs'[r] = Restored(workspace)'[r]
  BY <1>1, <1>6, <1>9 DEF Restored
<1>11. Exact => Exact'
  BY <1>1, <1>5, <1>6, <1>10, StartKeepsExact
<1> QED BY <1>2, <1>6, <1>8, <1>11, UntouchedHomesGrow

LEMMA StartPersistKeeps ==
    ASSUME TypeInv, TypeInv', Homes, UNCHANGED settings, settings.pc \in {"idle", "switch", "clear", "read", "restore"},
           NEW c \in Callers, StartPersist(c)
    PROVE  /\ Homes' /\ HomesGrow /\ (used'.faults = 0 => used.faults = 0)
           /\ Exact /\ used'.faults = 0 => Exact'
<1> PICK r \in Runs : call[c].run = r
  BY DEF StartPersist, CallAt, TypeInv, CallsOK, CallOK
<1> DEFINE record == call[c].record
<1>1. /\ call \in [Callers -> CallRecord] /\ UsedOK /\ call[c].pc = "start" 
      /\ record \in Record /\ UNCHANGED <<runs, workspace>> /\ workspace \in Workspaces /\ DiskOK
  BY DEF StartPersist, CallAt, HostRest, TypeInv, TablesOK, CallsOK, CallOK
<1>2. Alone(c)
  BY <1>1 DEF Homes, StartsAlone, Starting
<1>3. /\ runs'[r] = NoRecord /\ record.home = workspace
      /\ \A ws \in Workspaces : disk[ws][r] = NoRecord
      /\ \A d \in Callers \ {c} : call[d].pc \in Starting => call[d].run # r
  BY <1>1, <1>2 DEF Alone, Tracked, CallAt
<1>4. PICK saved \in BOOLEAN : /\ Persist(saved, r, record)
                               /\ IF saved THEN CallGoes(c, "start_insert") ELSE Return(c)
  BY DEF StartPersist
<1>5. \A d \in Callers \ {c} : call'[d] = call[d]
  BY <1>1, <1>4 DEF CallGoes, Return
<1>6. used'.faults = 0 => saved /\ used.faults = 0
  BY <1>1, <1>4, FaultsCount DEF Persist
<1>7. StartGoes(c)
  BY <1>1, <1>5, <1>6 DEF StartGoes, Homes, Window, SettingsAt, Starting
<1>8. /\ \A ws \in Workspaces, q \in Runs \ {r} : disk'[ws][q] = disk[ws][q]
      /\ \A ws \in Workspaces : disk'[ws][r] = IF saved /\ ws = workspace THEN record ELSE NoRecord
  <2> HIDE DEF record
  <2>1. disk \in [Workspaces -> [Runs -> Record \cup {NoRecord}]]
    BY <1>1 DEF DiskOK
  <2>2. CASE saved
    <3>1. disk' = [disk EXCEPT ![workspace][r] = record]
      BY <1>4, <2>2 DEF Persist
    <3> QED BY <1>1, <1>3, <2>1, <2>2, <3>1
  <2>3. CASE ~saved
    <3>1. disk' = disk
      BY <1>4, <2>3 DEF Persist
    <3> QED BY <1>3, <2>3, <3>1
  <2> QED BY <2>2, <2>3
<1>9. saved => call'[c].pc = "start_insert" /\ call'[c].run = r /\ call'[c].record = record
  BY <1>1, <1>4 DEF CallGoes, CallRecord
<1>10. ~saved => call'[c].pc = "idle"
  BY <1>1, <1>4 DEF Return, IdleCall
<1> HIDE DEF record
<1>11. call'[c].pc \in Starting => call'[c].run = r /\ Alone(c)'
  <2>1. ASSUME saved PROVE Alone(c)'
    BY <1>1, <1>3, <1>5, <1>8, <1>9, <2>1 DEF Alone, Tracked, CallAt
  <2> QED BY <1>9, <1>10, <2>1 DEF Starting
<1>12. Homes'
  BY <1>1, <1>3, <1>7, <1>8, <1>11, StartKeepsHomes DEF Tracked
<1>13. HomesGrow
  <2> SUFFICES ASSUME NEW ws \in Workspaces, NEW q \in Runs, Homed(ws, q)
               PROVE  Homed(ws, q)' /\ Extends(disk'[ws][q].history, disk[ws][q].history)
    BY DEF HomesGrow
  <2>1. q # r /\ disk[ws][q] \in Record
    BY <1>3, TablesAreRecords DEF Homed
  <2>2. disk'[ws][q] = disk[ws][q]
    BY <1>8, <2>1
  <2> QED BY <2>1, <2>2, ExtendsItself DEF Homed
<1>14. ASSUME Exact, used'.faults = 0 PROVE Exact'
  <2>1. Inserting(r)'
    BY <1>6, <1>9, <1>14 DEF Inserting, CallAt
  <2> QED BY <1>1, <1>7, <1>8, <1>14, <2>1, StartKeepsExact
<1> QED BY <1>6, <1>12, <1>13, <1>14

LEMMA StartInsertKeeps ==
    ASSUME TypeInv, TypeInv', Homes, UNCHANGED settings, NEW c \in Callers, StartInsert(c)
    PROVE  /\ Homes' /\ HomesGrow /\ (used'.faults = 0 => used.faults = 0)
           /\ Exact /\ used'.faults = 0 => Exact'
<1> DEFINE r == call[c].run
           record == call[c].record
<1>1. /\ call \in [Callers -> CallRecord] /\ UsedOK /\ call[c].pc = "start_insert" /\ r \in Runs
      /\ record \in Record /\ UNCHANGED <<disk, workspace>> /\ workspace \in Workspaces /\ RunsOK
      /\ runs' = [runs EXCEPT ![r] = record] /\ Return(c)
  BY DEF StartInsert, CallAt, HostRest, TypeInv, TablesOK, CallsOK, CallOK
<1>2. Alone(c)
  BY <1>1 DEF Homes, StartsAlone, Starting
<1>3. /\ record.home = workspace
      /\ \A ws \in Workspaces : disk[ws][r] = IF ws = workspace THEN record ELSE NoRecord
      /\ \A d \in Callers \ {c} : call[d].pc \in Starting => call[d].run # r
  BY <1>1, <1>2 DEF Alone, CallAt
<1>4. call'[c].pc = "idle" /\ \A d \in Callers \ {c} : call'[d] = call[d]
  BY <1>1 DEF Return, IdleCall
<1>5. used'.faults = 0 => used.faults = 0
  BY <1>1, FaultsCount DEF StartInsert
<1>6. StartGoes(c)
  BY <1>1, <1>4, <1>5 DEF StartGoes, Homes, Window, SettingsAt, Starting
<1>7. runs'[r] = record /\ \A q \in Runs \ {r} : runs'[q] = runs[q]
  BY <1>1 DEF RunsOK
<1>8. record # NoRecord
  BY <1>1, SentinelsAssumption
<1> HIDE DEF record
<1>9. Homes'
  BY <1>1, <1>3, <1>4, <1>6, <1>7, StartKeepsHomes DEF Starting
<1>10. runs'[r] = Restored(workspace)'[r]
  BY <1>1, <1>3, <1>7, <1>8 DEF Restored
<1>11. Exact => Exact'
  BY <1>1, <1>6, <1>7, <1>10, StartKeepsExact
<1> QED BY <1>1, <1>5, <1>9, <1>11, UntouchedHomesGrow

-----------------------------------------------------------------------------
(* The steps of the host, together. *)

\* A step keeps the invariant, and the records at home grow in it.
Goes == SettingsInv' /\ (~settings.starting => HomesGrow)

LEMMA MovesGo ==
    ASSUME SettingsInv, TypeInv', UNCHANGED settings, HostMoves
    PROVE  Goes
<1>1. SettingsOK'
  BY DEF SettingsInv, SettingsOK
<1>2. ~settings.starting => Homes' /\ HomesGrow
  BY MovesKeepHomes DEF SettingsInv
<1>3. ~settings.overlapped /\ used'.faults = 0 => Exact'
  BY MovesKeepExact DEF SettingsInv, SettingsOK, HostMoves
<1> QED BY <1>1, <1>2, <1>3 DEF Goes, SettingsInv

LEMMA StartsGo ==
    ASSUME SettingsInv, TypeInv', UNCHANGED settings,
           \/ \E c \in Callers : StartPersist(c) \/ StartInsert(c)
           \/ /\ SettingsAt("idle")
              /\ \E c \in Callers, r \in Runs, executor \in Executors : StartBuild(c, r, executor)
    PROVE  Goes
<1>1. SettingsOK' /\ TypeInv /\ settings.pc \in {"idle", "switch", "clear", "read", "restore"}
  BY DEF SettingsInv, SettingsOK
<1>2. used'.faults = 0 => used.faults = 0
  <2>1. UsedOK
    BY DEF SettingsInv, TypeInv, TablesOK
  <2>2. ASSUME NEW c \in Callers, StartPersist(c) PROVE used'.faults = 0 => used.faults = 0
    BY <2>1, <2>2, FaultsCount DEF StartPersist, Persist
  <2>3. ASSUME NEW c \in Callers, StartInsert(c) PROVE used'.faults = 0 => used.faults = 0
    BY <2>1, <2>3, FaultsCount DEF StartInsert
  <2>4. ASSUME NEW c \in Callers, NEW r \in Runs, NEW executor \in Executors, StartBuild(c, r, executor)
        PROVE  used'.faults = used.faults
    BY <2>1, <2>4 DEF StartBuild, Counted, UsedOK
  <2> QED BY <2>2, <2>3, <2>4
<1>3. ASSUME Homes PROVE Homes' /\ HomesGrow /\ (Exact /\ used'.faults = 0 => Exact')
  BY <1>1, <1>3, StartPersistKeeps, StartInsertKeeps, StartBuildKeeps
<1>4. ~settings.overlapped => ~settings.starting
  BY DEF SettingsInv, SettingsOK
<1> QED BY <1>1, <1>2, <1>3, <1>4 DEF Goes, SettingsInv

LEMMA HostStepGoes ==
    ASSUME SettingsInv, HostStep
    PROVE  Goes
<1>1. UNCHANGED settings
  BY DEF HostStep, settingsVars
<1>2. TypeInv /\ TypeInv'
  BY NextTypes DEF SettingsInv, HostStep, Next, CommandStep
<1>3. CASE \E w \in Workers : WorkerStep(w)
  BY <1>1, <1>2, <1>3, WorkerMoves, MovesGo
<1>4. CASE OutsideStep
  BY <1>1, <1>2, <1>4, OutsideMoves, MovesGo
<1>5. ASSUME NEW c \in Callers, HandlerStep(c) PROVE Goes
  <2>1. CASE StartPersist(c) \/ StartInsert(c)
    BY <1>1, <1>2, <2>1, StartsGo
  <2>2. CASE ~(StartPersist(c) \/ StartInsert(c))
    <3>1. HostMoves
      BY <1>2, <1>5, <2>2, QuietHandlerMoves, WritingHandlerMoves DEF HandlerStep
    <3> QED BY <1>1, <1>2, <3>1, MovesGo
  <2> QED BY <2>1, <2>2
<1>6. ASSUME NEW c \in Callers, SettingsAt("idle"), CommandStep(c) PROVE Goes
  <2>1. CASE \E r \in Runs, executor \in Executors : StartBuild(c, r, executor)
    BY <1>1, <1>2, <1>6, <2>1, StartsGo
  <2>2. CASE \E r \in Runs, op \in AllOps : Issue(c, op, r)
    <3>1. HostMoves
      BY <1>2, <1>6, <2>2, IssueMoves
    <3> QED BY <1>1, <1>2, <3>1, MovesGo
  <2> QED BY <1>5, <1>6, <2>1, <2>2 DEF CommandStep
<1> QED BY <1>3, <1>4, <1>5, <1>6 DEF HostStep

LEMMA SurvivingStepGoes ==
    ASSUME SettingsInv, SurvivingStep
    PROVE  Goes
<1>1. UNCHANGED settings
  BY DEF SurvivingStep, settingsVars
<1>2. OutsideStep \/ \E w \in Workers : WorkerStep(w)
  BY DEF SurvivingStep, WorkerStep
<1>3. TypeInv /\ TypeInv'
  BY <1>2, NextTypes DEF SettingsInv, Next
<1> QED BY <1>1, <1>2, <1>3, WorkerMoves, OutsideMoves, MovesGo

LEMMA InspectPanicGoes ==
    ASSUME SettingsInv, NEW c \in Callers, InspectPanic(c)
    PROVE  Goes
<1>1. /\ UNCHANGED <<settings, workspace, RunVars, used>> /\ call[c].pc = "inspect_apply" /\ Return(c)
      /\ TypeInv /\ CallsOK
  BY DEF InspectPanic, CallAt, HostRest, SettingsInv, TypeInv
<1>2. TypeInv'
  <2>1. CallsOK'
    BY <1>1, ReturnTypes
  <2> QED BY <1>1, <2>1, UnchangedTypes DEF InspectPanic, TypeInv, TablesOK, UsedOK
<1>3. \A d \in Callers : CallMoves(d)
  BY <1>1, ReturnMoves DEF Starting
<1>4. HostMoves
  BY <1>1, <1>3 DEF HostMoves
<1> QED BY <1>1, <1>2, <1>4, MovesGo

-----------------------------------------------------------------------------
(* The steps of configure, and a restart. *)

\* A step of configure saves no record and makes no start.
LEMMA ConfigureGoes ==
    ASSUME SettingsInv, TypeInv', SettingsOK', disk' = disk,
           settings'.starting = FALSE => settings.starting = FALSE,
           settings'.overlapped = FALSE => settings.overlapped = FALSE,
           settings'.starting = FALSE => Window' /\ HomeCovered' /\ StartsAlone',
           settings'.overlapped = FALSE /\ used'.faults = 0 => Exact'
    PROVE  Goes
<1>1. HomesGrow
  BY UntouchedHomesGrow DEF SettingsInv
<1>2. Homes => OneHome'
  BY DEF Homes, OneHome, Homed
<1>3. settings'.starting \in BOOLEAN /\ settings.starting \in BOOLEAN /\ settings'.overlapped \in BOOLEAN
  BY DEF SettingsInv, SettingsOK
<1>4. ~settings'.starting => Homes'
  BY <1>2, <1>3 DEF Homes, SettingsInv
<1>5. ~settings'.overlapped /\ used'.faults = 0 => Exact'
  BY <1>3
<1> QED BY <1>1, <1>4, <1>5 DEF Goes, SettingsInv

\* Nobody is starting a run while configure is under way.
LEMMA WindowHasNoStarts ==
    ASSUME SettingsInv, settings.starting = FALSE, settings.pc # "idle"
    PROVE  Homes /\ \A c \in Callers : call[c].pc \notin Starting
BY DEF SettingsInv, Homes, Window, SettingsAt

\* A table that is read back is the disk's.
LEMMA RestoredIsCovered ==
    ASSUME TypeInv, OneHome, disk' = disk, runs' = Restored(workspace)
    PROVE  HomeCovered'
<1> SUFFICES ASSUME NEW ws \in Workspaces, NEW r \in Runs, Homed(ws, r)', Tracked(r)'
             PROVE  runs'[r].home = ws /\ Extends(runs'[r].history, disk'[ws][r].history)
  BY DEF HomeCovered
<1>1. workspace \in Workspaces
  BY TablesAreRecords
<1>2. runs'[r] = disk[workspace][r] /\ Homed(workspace, r)
  BY DEF Restored, Tracked, Homed
<1>3. ws = workspace
  BY <1>1, <1>2 DEF OneHome, Homed
<1>4. disk[workspace][r] \in Record
  BY <1>1, <1>2, TablesAreRecords DEF Homed
<1> QED BY <1>2, <1>3, <1>4, ExtendsItself DEF Homed

LEMMA CheckTypes ==
    ASSUME SettingsOK, NEW pc \in {"idle", "switch"}, NEW mixed \in BOOLEAN, NEW started \in BOOLEAN,
           settings' = [settings EXCEPT !.pc = pc, !.saves = @ + 1, !.overlapped = mixed,
                                        !.starting = started]
    PROVE  settings' \in [pc : {"idle", "switch", "clear", "read", "restore"},
                          restored : [Runs -> Record \cup {NoRecord}],
                          saves : Nat, overlapped : BOOLEAN, starting : BOOLEAN]
<1>1. settings.saves + 1 \in Nat
  BY DEF SettingsOK
<1> QED BY <1>1 DEF SettingsOK

LEMMA CheckGoes ==
    ASSUME SettingsInv, ConfigureCheck
    PROVE  Goes
<1> DEFINE pc == IF \A r \in Runs : processes[r] = NoWorker THEN "switch" ELSE "idle"
<1>1. UNCHANGED vars /\ settings.pc = "idle"
  BY DEF ConfigureCheck, SettingsAt
<1>2. /\ settings'.pc = pc /\ settings'.restored = settings.restored
      /\ settings'.starting = (settings.starting \/ \E c \in Callers : call[c].pc \in Starting)
      /\ settings'.overlapped = (settings.overlapped \/ \E c \in Callers : call[c].pc # "idle")
      /\ SettingsOK'
  <2> DEFINE started == settings.starting \/ \E c \in Callers : call[c].pc \in Starting
             mixed == settings.overlapped \/ \E c \in Callers : call[c].pc # "idle"
  <2>1. /\ settings' = [settings EXCEPT !.pc = pc, !.saves = @ + 1, !.overlapped = mixed,
                                         !.starting = started]
        /\ pc \in {"idle", "switch"}
    BY DEF ConfigureCheck, Starting
  <2>2. started \in BOOLEAN /\ mixed \in BOOLEAN
    BY DEF SettingsInv, SettingsOK
  <2>3. started => mixed
    BY DEF SettingsInv, SettingsOK, Starting
  <2> HIDE DEF pc, started, mixed
  <2>4. /\ settings'.pc = pc /\ settings'.restored = settings.restored
        /\ settings'.starting = started /\ settings'.overlapped = mixed
    BY <2>1 DEF SettingsInv, SettingsOK
  <2>5. settings' \in [pc : {"idle", "switch", "clear", "read", "restore"},
                       restored : [Runs -> Record \cup {NoRecord}],
                       saves : Nat, overlapped : BOOLEAN, starting : BOOLEAN]
    BY <2>1, <2>2, CheckTypes DEF SettingsInv
  <2>6. SettingsOK'
    BY <2>3, <2>4, <2>5 DEF SettingsOK
  <2> QED BY <2>4, <2>6 DEF started, mixed
<1>3. pc \in {"idle", "switch"}
  OBVIOUS
<1> HIDE DEF pc
<1>4. TypeInv'
  BY <1>1, NextTypes DEF SettingsInv
<1>5. ASSUME settings'.starting = FALSE
      PROVE  Window' /\ HomeCovered' /\ StartsAlone' /\ settings.starting = FALSE
  <2>1. settings.starting = FALSE /\ \A c \in Callers : call[c].pc \notin Starting
    BY <1>2, <1>5 DEF SettingsInv, SettingsOK
  <2>2. Homes
    BY <2>1 DEF SettingsInv
  <2>3. Window' /\ StartsAlone'
    BY <1>1, <1>2, <1>3, <2>1 DEF Window, StartsAlone, SettingsAt, vars
  <2>4. HomeCovered'
    BY <1>1, <2>2 DEF Homes, HomeCovered, Homed, Tracked, vars
  <2> QED BY <2>1, <2>3, <2>4
<1>6. ASSUME settings'.overlapped = FALSE
      PROVE  settings.overlapped = FALSE /\ (used'.faults = 0 => Exact')
  <2>1. settings.overlapped = FALSE /\ \A c \in Callers : call[c].pc = "idle"
    BY <1>2, <1>6 DEF SettingsInv, SettingsOK
  <2>2. used'.faults = 0 => Exact
    BY <1>1, <2>1 DEF SettingsInv, vars
  <2>3. Exact => Exact'
    BY <1>1, <1>2, <1>3, <2>1 DEF Exact, Inserting, Restored, CallAt, SettingsAt, vars
  <2> QED BY <2>1, <2>2, <2>3
<1>7. disk' = disk
  BY <1>1 DEF vars
<1> QED BY <1>2, <1>4, <1>5, <1>6, <1>7, ConfigureGoes

\* What the later steps of configure have in common.
LEMMA SettingsMove ==
    ASSUME SettingsOK, NEW pc \in {"idle", "switch", "clear", "read", "restore"},
           NEW restored \in [Runs -> Record \cup {NoRecord}],
           \/ settings' = [settings EXCEPT !.pc = pc] /\ restored = settings.restored
           \/ settings' = [settings EXCEPT !.pc = pc, !.restored = restored]
    PROVE  /\ SettingsOK'
           /\ settings'.pc = pc /\ settings'.restored = restored
           /\ settings'.starting = settings.starting /\ settings'.overlapped = settings.overlapped
BY DEF SettingsOK

LEMMA NoTableType == NoTable \in [Runs -> Record \cup {NoRecord}]
BY DEF NoTable

LEMMA RestoredType == TypeInv => Restored(workspace) \in [Runs -> Record \cup {NoRecord}]
BY DEF Restored, TypeInv, TablesOK, DiskOK

\* What a configure step that leaves threads, commands and records alone keeps.
LEMMA ConfigureTypes ==
    ASSUME TypeInv, UNCHANGED <<disk, processes, worker, call, jobs>>, workspace' \in Workspaces,
           RunsOK', UNCHANGED used \/ Fault
    PROVE  TypeInv'
<1>1. UsedOK'
  BY FaultTypes DEF TypeInv, TablesOK, UsedOK
<1> QED BY <1>1 DEF TypeInv, TablesOK, DiskOK, WorkersOK, CallsOK

\* Until the records are read nothing is compared with the disk.
LEMMA SwitchGoes ==
    ASSUME SettingsInv, ConfigureSwitch
    PROVE  Goes
<1>1. /\ UNCHANGED <<runs, disk, processes, worker, call, jobs>> /\ settings.pc = "switch"
      /\ workspace' \in Workspaces /\ (UNCHANGED used \/ Fault)
  BY DEF ConfigureSwitch, SettingsAt, RunVars, SettingsInv, TypeInv, TablesOK
<1>2. TypeInv' /\ UsedOK
  BY <1>1, ConfigureTypes DEF SettingsInv, TypeInv, TablesOK, RunsOK
<1>3. /\ SettingsOK' /\ settings'.pc \in {"clear", "idle"}
      /\ settings'.starting = settings.starting /\ settings'.overlapped = settings.overlapped
      /\ settings'.pc = "idle" => Fault
  BY SettingsMove DEF ConfigureSwitch, SettingsGo, SettingsInv, SettingsOK
<1>4. ASSUME settings'.starting = FALSE
      PROVE  Window' /\ HomeCovered' /\ StartsAlone'
  <2>1. Homes /\ \A c \in Callers : call'[c].pc \notin Starting
    BY <1>1, <1>3, <1>4, WindowHasNoStarts
  <2> QED BY <1>1, <1>3, <2>1 DEF Homes, Window, HomeCovered, Homed, Tracked, StartsAlone, SettingsAt
<1>5. ASSUME settings'.overlapped = FALSE, used'.faults = 0
      PROVE  Exact'
  <2>1. ~Fault /\ used' = used
    BY <1>1, <1>2, <1>5, FaultsCount
  <2>2. settings'.pc = "clear" /\ Exact
    BY <1>3, <1>5, <2>1 DEF SettingsInv
  <2> QED BY <1>1, <2>2 DEF Exact, SettingsAt, CallAt
<1> QED BY <1>1, <1>2, <1>3, <1>4, <1>5, ConfigureGoes

LEMMA ClearGoes ==
    ASSUME SettingsInv, ConfigureClear
    PROVE  Goes
<1>1. /\ UNCHANGED <<workspace, disk, processes, worker, call, jobs>> /\ settings.pc = "clear"
      /\ (UNCHANGED used \/ Fault) /\ (runs' = runs \/ runs' = NoTable)
  BY DEF ConfigureClear, SettingsAt, HostRest
<1>2. TypeInv' /\ UsedOK
  BY <1>1, ConfigureTypes, NoTableType DEF SettingsInv, TypeInv, TablesOK, RunsOK
<1>3. /\ SettingsOK'
      /\ \/ settings'.pc = "read" /\ runs' = NoTable
         \/ settings'.pc = "idle" /\ Fault
      /\ settings'.starting = settings.starting /\ settings'.overlapped = settings.overlapped
  BY SettingsMove DEF ConfigureClear, SettingsGo, SettingsInv, SettingsOK
<1>4. ASSUME settings'.starting = FALSE
      PROVE  Window' /\ HomeCovered' /\ StartsAlone'
  <2>1. Homes /\ \A c \in Callers : call'[c].pc \notin Starting
    BY <1>1, <1>3, <1>4, WindowHasNoStarts
  <2>2. HomeCovered'
    <3>1. CASE runs' = runs
      BY <1>1, <2>1, <3>1 DEF Homes, HomeCovered, Homed, Tracked
    <3>2. CASE runs' = NoTable
      BY <3>2 DEF HomeCovered, Tracked, NoTable
    <3> QED BY <1>1, <3>1, <3>2
  <2> QED BY <1>3, <2>1, <2>2 DEF Window, StartsAlone, SettingsAt
<1>5. ASSUME settings'.overlapped = FALSE, used'.faults = 0
      PROVE  Exact'
  <2>1. ~Fault /\ used' = used
    BY <1>1, <1>2, <1>5, FaultsCount
  <2>2. settings'.pc = "read" /\ Exact
    BY <1>3, <1>5, <2>1 DEF SettingsInv
  <2> QED BY <1>1, <2>2 DEF Exact, SettingsAt, CallAt
<1> QED BY <1>1, <1>2, <1>3, <1>4, <1>5, ConfigureGoes

LEMMA ReadGoes ==
    ASSUME SettingsInv, RestoreRead
    PROVE  Goes
<1>1. /\ UNCHANGED <<workspace, runs, disk, processes, worker, call, jobs>> /\ settings.pc = "read"
      /\ UNCHANGED used \/ Fault
  BY DEF RestoreRead, SettingsAt, RunVars
<1>2. TypeInv' /\ UsedOK
  BY <1>1, ConfigureTypes DEF SettingsInv, TypeInv, TablesOK, RunsOK
<1>3. /\ SettingsOK'
      /\ \/ settings'.pc = "restore" /\ settings'.restored = Restored(workspace)
         \/ settings'.pc = "idle" /\ Fault
      /\ settings'.starting = settings.starting /\ settings'.overlapped = settings.overlapped
  BY SettingsMove, RestoredType DEF RestoreRead, SettingsGo, SettingsInv, SettingsOK
<1>4. ASSUME settings'.starting = FALSE
      PROVE  Window' /\ HomeCovered' /\ StartsAlone'
  <2>1. Homes /\ \A c \in Callers : call'[c].pc \notin Starting
    BY <1>1, <1>3, <1>4, WindowHasNoStarts
  <2>2. runs' = NoTable /\ Restored(workspace)' = Restored(workspace)
    BY <1>1, <2>1 DEF Homes, Window, Restored
  <2>3. HomeCovered'
    BY <2>2 DEF HomeCovered, Tracked, NoTable
  <2> QED BY <1>3, <2>1, <2>2, <2>3 DEF Window, StartsAlone, SettingsAt
<1>5. ASSUME settings'.overlapped = FALSE, used'.faults = 0
      PROVE  Exact'
  <2>1. ~Fault /\ used' = used
    BY <1>1, <1>2, <1>5, FaultsCount
  <2>2. settings'.pc = "restore" /\ Exact
    BY <1>3, <1>5, <2>1 DEF SettingsInv
  <2> QED BY <1>1, <2>2 DEF Exact, SettingsAt, CallAt
<1> QED BY <1>1, <1>2, <1>3, <1>4, <1>5, ConfigureGoes

\* Nothing has been written since the records were read.
LEMMA ReplaceGoes ==
    ASSUME SettingsInv, RestoreReplace
    PROVE  Goes
<1>1. /\ UNCHANGED <<workspace, disk, processes, worker, call, jobs, used>> /\ settings.pc = "restore"
      /\ runs' = settings.restored
  BY DEF RestoreReplace, SettingsAt, HostRest
<1>2. TypeInv'
  BY <1>1, ConfigureTypes DEF SettingsInv, SettingsOK, TypeInv, TablesOK, RunsOK
<1>3. /\ SettingsOK' /\ settings'.pc = "idle"
      /\ settings'.starting = settings.starting /\ settings'.overlapped = settings.overlapped
  BY SettingsMove, NoTableType DEF RestoreReplace, SettingsInv
<1>4. ASSUME settings.starting = FALSE
      PROVE  /\ OneHome /\ runs' = Restored(workspace) /\ Restored(workspace)' = Restored(workspace)
             /\ \A c \in Callers : call'[c].pc \notin Starting
  BY <1>1, <1>4, WindowHasNoStarts DEF Homes, Window, SettingsAt, Restored
<1>5. ASSUME settings'.starting = FALSE
      PROVE  Window' /\ HomeCovered' /\ StartsAlone'
  <2>1. HomeCovered'
    BY <1>1, <1>3, <1>4, <1>5, RestoredIsCovered DEF SettingsInv
  <2> QED BY <1>3, <1>4, <1>5, <2>1 DEF Window, StartsAlone, SettingsAt
<1>6. ASSUME settings'.overlapped = FALSE, used'.faults = 0
      PROVE  Exact'
  <2>1. settings.starting = FALSE
    BY <1>3, <1>6 DEF SettingsInv, SettingsOK
  <2> QED BY <1>3, <1>4, <2>1 DEF Exact, SettingsAt
<1> QED BY <1>1, <1>2, <1>3, <1>5, <1>6, ConfigureGoes

\* A restart reads the records as configure does.
LEMMA RestartGoes ==
    ASSUME SettingsInv, Restart
    PROVE  Goes
<1>1. /\ UNCHANGED <<workspace, disk>> /\ runs' = Restored(workspace)
      /\ \A c \in Callers : call'[c].pc = "idle"
      /\ Crash
  BY DEF Restart, Crash, HostRest, IdleCall
<1>2. TypeInv' /\ used'.faults = used.faults
  BY <1>1, CrashTypes DEF SettingsInv, Crash, TypeInv, TablesOK, UsedOK
<1>3. /\ SettingsOK' /\ settings'.pc = "idle"
      /\ settings'.starting = settings.starting /\ settings'.overlapped = settings.overlapped
  BY SettingsMove, NoTableType DEF Restart, SettingsInv
<1>4. Restored(workspace)' = Restored(workspace)
  BY <1>1 DEF Restored
<1>5. ASSUME settings'.starting = FALSE
      PROVE  Window' /\ HomeCovered' /\ StartsAlone'
  <2>1. HomeCovered'
    BY <1>1, <1>3, <1>5, RestoredIsCovered DEF SettingsInv, Homes
  <2> QED BY <1>1, <1>3, <2>1 DEF Window, StartsAlone, SettingsAt, Starting
<1>6. Exact'
  BY <1>1, <1>3, <1>4 DEF Exact, SettingsAt
<1> QED BY <1>1, <1>2, <1>3, <1>5, <1>6, ConfigureGoes

-----------------------------------------------------------------------------
(* The theorems. *)

LEMMA InitSettingsInv == SettingsInit => SettingsInv
<1> SUFFICES ASSUME SettingsInit PROVE SettingsInv
  OBVIOUS
<1>1. TypeInv
  BY InitTypes DEF SettingsInit
<1>2. SettingsOK
  BY NoTableType DEF SettingsInit, SettingsOK
<1>3. \A ws \in Workspaces, r \in Runs : disk[ws][r] = NoRecord
  BY DEF SettingsInit, Init
<1>4. /\ \A r \in Runs : runs[r] = NoRecord
      /\ \A c \in Callers : call[c].pc = "idle"
      /\ settings.pc = "idle"
  BY DEF SettingsInit, Init, IdleCall
<1>5. Homes
  BY <1>3, <1>4 DEF Homes, Window, OneHome, HomeCovered, StartsAlone, Homed, Tracked, SettingsAt, Starting
<1>6. Exact
  BY <1>1, <1>3, <1>4, TablesAreRecords DEF Exact, Restored, SettingsAt
<1> QED BY <1>1, <1>2, <1>5, <1>6 DEF SettingsInv

LEMMA NextGoes == SettingsInv /\ [SettingsNext]_allVars => Goes
<1> SUFFICES ASSUME SettingsInv, [SettingsNext]_allVars PROVE Goes
  OBVIOUS
<1>1. CASE UNCHANGED allVars
  <2>1. UNCHANGED <<settings, vars>>
    BY <1>1 DEF allVars, settingsVars
  <2>2. TypeInv'
    BY <2>1, NextTypes DEF SettingsInv
  <2>3. HostMoves
    BY <2>1 DEF vars, HostMoves, CallMoves, RunVars
  <2> QED BY <2>1, <2>2, <2>3, MovesGo
<1> QED BY <1>1, HostStepGoes, SurvivingStepGoes, InspectPanicGoes, CheckGoes, SwitchGoes,
           ClearGoes, ReadGoes, ReplaceGoes, RestartGoes DEF SettingsNext

LEMMA SettingsInvHolds == SettingsSpec => []SettingsInv
<1>1. SettingsInv /\ [SettingsNext]_allVars => SettingsInv'
  BY NextGoes DEF Goes
<1> QED BY <1>1, InitSettingsInv, PTL DEF SettingsSpec

\* configure and restore_runs: when settings are saved while no command is in
\* flight and no call fails, then once everything is quiet the table is what a
\* restart would restore, whatever the execution threads did meanwhile.
THEOREM QuietTableExact == SettingsSpec => []QuietTableMatchesDisk
<1>1. SettingsInv => QuietTableMatchesDisk
  <2> SUFFICES ASSUME SettingsInv, Quiet, ~settings.overlapped, used.faults = 0
               PROVE  runs = Restored(workspace)
    BY DEF QuietTableMatchesDisk
  <2>1. \A r \in Runs : runs[r] = Restored(workspace)[r]
    BY DEF SettingsInv, Exact, Quiet, Inserting, CallAt, SettingsAt
  <2>2. runs \in [Runs -> Record \cup {NoRecord}] /\ Restored(workspace) \in [Runs -> Record \cup {NoRecord}]
    BY RestoredType DEF SettingsInv, TypeInv, TablesOK, RunsOK
  <2> QED BY <2>1, <2>2
<1> QED BY <1>1, SettingsInvHolds, PTL

\* A sequence that extends another begins with it.
LEMMA ExtendsBegins ==
    ASSUME NEW a \in Record, NEW b \in Record, Extends(a.history, b.history)
    PROVE  /\ Len(a.history) >= Len(b.history)
           /\ SubSeq(a.history, 1, Len(b.history)) = b.history
<1> DEFINE s == a.history
           t == b.history
<1>1. s \in Seq(Kinds) /\ t \in Seq(Kinds)
  BY DEF Record
<1>2. Len(t) <= Len(s) /\ \A i \in 1..Len(t) : t[i] = s[i]
  BY DEF Extends
<1> HIDE DEF s, t
<1>3. Len(s) \in Nat /\ Len(t) \in Nat
  BY <1>1
<1>4. SubSeq(s, 1, Len(t)) = t
  BY <1>1, <1>2, <1>3
<1> QED BY <1>2, <1>3, <1>4 DEF s, t

\* configure, persist_run, restore_runs: a record that belongs to its workspace
\* stays there and its history only grows, unless a start was under way when
\* settings were saved; with any number of saves, faults, crashes and commands.
THEOREM RecordsGrowAtHome == SettingsSpec => HomeRecordsGrow
<1> DEFINE Grows == \A ws \in Workspaces, r \in Runs : Homed(ws, r) /\ ~settings.starting =>
               /\ Homed(ws, r)'
               /\ Len(disk'[ws][r].history) >= Len(disk[ws][r].history)
               /\ SubSeq(disk'[ws][r].history, 1, Len(disk[ws][r].history)) = disk[ws][r].history
<1>1. SettingsInv /\ [SettingsNext]_allVars => Grows
  <2> SUFFICES ASSUME SettingsInv, [SettingsNext]_allVars, NEW ws \in Workspaces, NEW r \in Runs,
                      Homed(ws, r), ~settings.starting
               PROVE  /\ Homed(ws, r)'
                      /\ Len(disk'[ws][r].history) >= Len(disk[ws][r].history)
                      /\ SubSeq(disk'[ws][r].history, 1, Len(disk[ws][r].history)) = disk[ws][r].history
    OBVIOUS
  <2>1. SettingsInv' /\ Homed(ws, r)' /\ Extends(disk'[ws][r].history, disk[ws][r].history)
    BY NextGoes DEF Goes, HomesGrow
  <2>2. disk[ws][r] \in Record /\ disk'[ws][r] \in Record
    BY <2>1 DEF SettingsInv, TypeInv, TablesOK, DiskOK, Homed
  <2> QED BY <2>1, <2>2, ExtendsBegins
<1>2. SettingsSpec => [][Grows]_allVars
  <2> HIDE DEF Grows
  <2> QED BY <1>1, SettingsInvHolds, PTL DEF SettingsSpec
<1> QED BY <1>2 DEF HomeRecordsGrow
=============================================================================
