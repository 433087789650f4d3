SPECIFICATION MCSpec
CONSTANTS
    Parts = {"runs", "page"}
    Backends = {"memory", "redis"}
    Procs = {p1, p2}
    Home = p1
    Requests = {r1, r2, r3}
    Overlap = FALSE
    MaxSteps = 2
    MaxCrashes = 1
    MaxFailures = 1
INVARIANTS
    OneWorker
    WorkingIsKnown
    NothingSkipped
    TranscriptExact
    HistoryKept
PROPERTIES
    ResumesUnlessShadowed
    Forgotten
    WaitingIsSent
CHECK_DEADLOCK FALSE
