CONSTANTS
    Runs = {r1, r2}
    Docs = {d1, d2}
    Jobs = {j1, j2}
    Ops = {"start", "inspect", "refresh", "cancel", "stop", "resume", "retry"}
    MaxRev = 4
    None = None
SPECIFICATION Spec
SYMMETRY CanvasSymmetry
INVARIANTS ResultsAreOfTheDocument
PROPERTIES HistoryIsOfTheDocument
