SPECIFICATION MCSpec
CONSTANTS
    Parts = {"runs"}
    Backends = {"redis"}
    Procs = {p1, p2}
    Home = p1
    Requests = {r1, r2, r3}
    Overlap = FALSE
    MaxSteps = 2
    MaxCrashes = 0
    MaxFailures = 2
PROPERTIES
    ResumesWhereSaved
CHECK_DEADLOCK FALSE
