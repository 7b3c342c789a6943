CONSTANTS
    Revisions = {c1}
    Paths = {p1}
    Workflows = {1, 2, 3, 4, 5, 6}
    Calls = {k1, k2}
    MaxSent = 3
    Ops = {"save", "publish", "load", "open", "edit", "run"}
    HistoryLimit = 1
    NoKey = NoKey
    NoPath = NoPath
    NoDoc = NoDoc
    MaxHappened = 4
    EventWindow = 2
    MaxMissed = 1
SPECIFICATION WindowSpec
SYMMETRY SessionSymmetry
INVARIANTS ShownIsKept PathIsOwn OpenedWasSaved NodesShownAreTrue
PROPERTIES ImplementsHistory VersionIsWhatWasShown
CHECK_DEADLOCK FALSE
