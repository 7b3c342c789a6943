CONSTANTS
    Runs = {r1}
    Workers = {w1, w2}
    Callers = {c1, c2}
    Refs = {}
    Workspaces = {ws1}
    Executors = {"local"}
    Ops = {"start", "cancel", "resume"}
    JobStates = {"running", "finished"}
    MaxCalls = 4
    MaxFaults = 1
    MaxCrashes = 1
    NoRecord = NoRecord
    NoRun = NoRun
    NoWorker = NoWorker
    NoRef = NoRef
SPECIFICATION Spec
SYMMETRY ThreadSymmetry
CHECK_DEADLOCK FALSE
INVARIANTS TypeOK LaunchIsRecorded TableCoversDisk LaunchesAreSettledOnce ProcessTableIsExact
PROPERTIES ImplementsLedger CancelledLeftOnRecord
