CONSTANTS
    Calls = {c1, c2}
    Paths = {p1, p2}
    Tokens = {t1, t2}
    Digests = {a1}
    Ops = {"save", "load", "publish", "list", "revoke", "shared", "delete", "run"}
    MaxAsks = 2
    MaxTickets = 3
    MaxFlows = 1
    MaxEvents = 2
    None = None
SPECIFICATION Spec
SYMMETRY CloudSymmetry
INVARIANTS SessionIsKept CommittedRunsAreWhole VersionsStand DialogShowsVersions
CHECK_DEADLOCK FALSE
