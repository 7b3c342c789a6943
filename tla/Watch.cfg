CONSTANTS
    Models = {m1, m2}
    Confirms = {c1, c2}
    MaxSheets = 2
    MaxFaults = 1
    Runs = {r1, r2}
    MaxBroken = 1
    None = None
SPECIFICATION PanelsSpec
INVARIANTS OnePullPerModel SheetFollowsItsModel InstalledIsOffered
PROPERTIES EndIsReported TilesSettle
CHECK_DEADLOCK FALSE
