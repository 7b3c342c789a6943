CONSTANTS
    Runs = {r1}
    Workers = {w1}
    Callers = {c1, c2}
    Refs = {j1, j2}
    Workspaces = {ws1}
    Executors = {"remote"}
    Ops = {"start", "inspect", "cancel", "fetch", "retry", "resume"}
    JobStates = {"running", "finished"}
    MaxCalls = 3
    MaxFaults = 1
    MaxCrashes = 0
    NoRecord = NoRecord
    NoRun = NoRun
    NoWorker = NoWorker
    NoRef = NoRef
SPECIFICATION Spec
SYMMETRY ThreadSymmetry
CHECK_DEADLOCK FALSE
PROPERTIES ImplementsLedger ReferenceIsKept
