SPECIFICATION MCSpec
CONSTANTS
    CauseScenes <- MCCauseScenes
    AccountScenes <- MCAccountScenes
    Parts = {"runs", "causes", "accounts"}
    Triggers = {t1, t2}
    Procs = {p1, p2}
    Threshold = 1
    MaxCrashes = 1
    MaxErrors = 1
    MaxResets = 1
    None = None
INVARIANTS
    Settled
    FailuresExact
    EventsReachOnce
PROPERTIES
    RunsEnd
    ScheduleConverges
    ActiveKept
    BeliefsConverge
CHECK_DEADLOCK FALSE
