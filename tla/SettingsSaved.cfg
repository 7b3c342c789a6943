CONSTANTS
    Runs = {r1}
    Workers = {w1, w2}
    Callers = {c1}
    Refs = {j1}
    Workspaces = {ws1, ws2}
    Executors = {"local", "remote"}
    Ops = {"start", "inspect", "cancel", "fetch", "retry", "resume"}
    JobStates = {"running", "finished"}
    MaxCalls = 2
    MaxFaults = 1
    MaxCrashes = 1
    MaxSettings = 2
    NoRecord = NoRecord
    NoRun = NoRun
    NoWorker = NoWorker
    NoRef = NoRef
SPECIFICATION SettingsSpec
SYMMETRY ThreadSymmetry
CHECK_DEADLOCK FALSE
INVARIANTS QuietTableMatchesDisk
PROPERTIES HomeRecordsGrow
