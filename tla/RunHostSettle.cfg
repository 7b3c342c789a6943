CONSTANTS
    Runs = {r1}
    Workers = {w1}
    Callers = {c1, c2}
    Refs = {j1}
    Workspaces = {ws1}
    Executors = {"local", "remote"}
    Ops = {"start", "inspect", "cancel", "retry"}
    JobStates = {"queued", "running", "finished"}
    MaxCalls = 3
    MaxFaults = 0
    MaxCrashes = 0
    NoRecord = NoRecord
    NoRun = NoRun
    NoWorker = NoWorker
    NoRef = NoRef
SPECIFICATION FairSpec
CHECK_DEADLOCK FALSE
PROPERTIES WatchedRunsSettle
