SPECIFICATION MCSpec
CONSTANTS
    Parts = {"runs"}
    Backends = {"redis"}
    Procs = {p1, p2}
    Home = p1
    Requests = {r1, r2, r3}
    Overlap = TRUE
    MaxSteps = 2
    MaxCrashes = 1
    MaxFailures = 1
INVARIANTS
    OneWorker
CHECK_DEADLOCK FALSE
