-------------------------- MODULE RunHostSettings --------------------------
(***************************************************************************)
(* The run host together with the command that changes its settings:       *)
(* StudioService::configure (src-tauri/src/service_projects.rs) checks     *)
(* that no child is registered, switches the workspace, empties the run    *)
(* table and restores the table of the new workspace.  It takes each lock  *)
(* on its own, so commands and execution threads get in between.           *)
(***************************************************************************)
EXTENDS RunHost

CONSTANT MaxSettings  \* bound on the times settings are saved

ASSUME SettingsAssumption == MaxSettings \in Nat

VARIABLES
    settings,     \* the configure command: where it is, what it read, how often it ran
                  \* and whether a command, or a start, was in flight then
    poisoned      \* a thread panicked with the run table locked

settingsVars == <<settings, poisoned>>
allVars == <<vars, settingsVars>>

NoTable == [r \in Runs |-> NoRecord]
SettingsAt(pc) == settings.pc = pc
SettingsGo(pc) == settings' = [settings EXCEPT !.pc = pc]

\* The settings screen takes the place of the editor, so no command is issued
\* while it is saved; those in flight go on.
ConfigureCheck ==
    /\ SettingsAt("idle")
    /\ settings.saves < MaxSettings
    /\ ~ProcessesLocked
    /\ settings' = [settings EXCEPT
                      !.pc = IF \A r \in Runs : processes[r] = NoWorker THEN "switch" ELSE "idle",
                      !.saves = @ + 1,
                      !.overlapped = @ \/ \E c \in Callers : call[c].pc # "idle",
                      !.starting = @ \/ \E c \in Callers : call[c].pc \in {"start", "start_insert"}]
    /\ UNCHANGED <<vars, poisoned>>

\* The settings file is written before the setting changes in memory.
ConfigureSwitch ==
    /\ SettingsAt("switch")
    /\ \/ /\ workspace' \in Workspaces
          /\ SettingsGo("clear")
          /\ UNCHANGED used
       \/ /\ Fault
          /\ SettingsGo("idle")
          /\ UNCHANGED workspace
    /\ UNCHANGED <<RunVars, processes, worker, call, jobs, poisoned>>

\* Mutant: the table is not emptied before the records are read.
ConfigureClearSkipped ==
    /\ SettingsAt("clear")
    /\ SettingsGo("read")
    /\ UNCHANGED <<vars, poisoned>>

\* The workspace has been switched by now: when its layout cannot be made the
\* table of the old workspace stays.
ConfigureClear ==
    /\ SettingsAt("clear")
    /\ \/ /\ runs' = NoTable
          /\ SettingsGo("read")
          /\ UNCHANGED used
       \/ /\ Fault
          /\ SettingsGo("idle")
          /\ UNCHANGED runs
    /\ UNCHANGED <<disk, processes, worker, call, HostRest, poisoned>>

\* Mutant: no record is read.
RestoreReadNothing ==
    /\ SettingsAt("read")
    /\ settings' = [settings EXCEPT !.pc = "restore"]
    /\ UNCHANGED <<vars, poisoned>>

\* restore_runs reads the records into a table of its own, or fails and leaves
\* the run table as it is.
RestoreRead ==
    /\ SettingsAt("read")
    /\ \/ /\ settings' = [settings EXCEPT !.pc = "restore", !.restored = Restored(workspace)]
          /\ UNCHANGED used
       \/ /\ Fault
          /\ SettingsGo("idle")
    /\ UNCHANGED <<workspace, RunVars, processes, worker, call, jobs, poisoned>>

\* The restored table replaces the one in memory, whatever was entered meanwhile.
RestoreReplace ==
    /\ SettingsAt("restore")
    /\ runs' = settings.restored
    /\ settings' = [settings EXCEPT !.pc = "idle", !.restored = NoTable]
    /\ UNCHANGED <<disk, processes, worker, call, used, HostRest, poisoned>>

\* inspect_run expects the run it asked about to be there still.
InspectPanic(c) ==
    /\ CallAt(c, "inspect_apply")
    /\ ~Tracked(call[c].run)
    /\ poisoned' = TRUE
    /\ Return(c)
    /\ UNCHANGED <<RunVars, processes, worker, used, HostRest, settings>>

HostStep ==
    /\ \/ \E w \in Workers : WorkerStep(w)
       \/ \E c \in Callers : HandlerStep(c) \/ (SettingsAt("idle") /\ CommandStep(c))
       \/ OutsideStep
    /\ UNCHANGED settingsVars

Restart ==
    /\ Crash
    /\ settings' = [settings EXCEPT !.pc = "idle", !.restored = NoTable]
    /\ poisoned' = FALSE

\* Every later use of a poisoned table panics as well, and takes its thread or
\* command down; what does not use the table goes on.
SurvivingStep ==
    /\ \/ \E w \in Workers : SpawnChild(w) \/ RegisterChild(w) \/ PollChild(w) \/ WakeUp(w)
                                \/ UnregisterChild(w)
       \/ OutsideStep
    /\ UNCHANGED settingsVars

SettingsNext ==
    \/ ~poisoned /\ HostStep
    \/ poisoned /\ SurvivingStep
    \/ ~poisoned /\ (ConfigureCheck \/ ConfigureSwitch \/ ConfigureClear
                      \/ RestoreRead \/ RestoreReplace)
    \/ ~poisoned /\ \E c \in Callers : InspectPanic(c)
    \/ Restart

SettingsInit ==
    /\ Init
    /\ settings = [pc |-> "idle", restored |-> NoTable, saves |-> 0,
                   overlapped |-> FALSE, starting |-> FALSE]
    /\ poisoned = FALSE

SettingsSpec == SettingsInit /\ [][SettingsNext]_allVars

-----------------------------------------------------------------------------
Quiet == /\ \A c \in Callers : CallAt(c, "idle")
         /\ \A w \in Workers : worker[w].pc \in {"idle", "gone"}
         /\ SettingsAt("idle")

\* When settings are saved while no command is in flight and no call fails, then
\* whatever execution threads do meanwhile, once everything is quiet the table is
\* exactly what a restart would restore: no run of another workspace, none
\* missing, none stale (configure, restore_runs, persist_run).
QuietTableMatchesDisk ==
    Quiet /\ ~settings.overlapped /\ used.faults = 0 => runs = Restored(workspace)

\* A record that belongs to its workspace stays there and its history only
\* grows, across changes of the workspace with failed writes, polled runs and
\* threads that were not registered yet (configure, persist_run, restore_runs).
\* The exception is a start that is under way when settings are saved: entered
\* after the records were read, its run is put back to the record of its start,
\* and the next update saves that.
Homed(ws, r) == disk[ws][r] # NoRecord /\ disk[ws][r].home = ws
HomeRecordsGrow ==
    [][\A ws \in Workspaces, r \in Runs : Homed(ws, r) /\ ~settings.starting =>
          /\ Homed(ws, r)'
          /\ Len(disk'[ws][r].history) >= Len(disk[ws][r].history)
          /\ SubSeq(disk'[ws][r].history, 1, Len(disk[ws][r].history)) = disk[ws][r].history
      ]_allVars
=============================================================================
