SPECIFICATION MCSpec
CONSTANTS
    CauseScenes <- MCCauseScenes
    AccountScenes <- MCAccountScenes
    Parts = {"runs"}
    Triggers = {t1, t2}
    Procs = {p1, p2}
    Threshold = 1
    MaxCrashes = 0
    MaxErrors = 0
    MaxResets = 0
    None = None
INVARIANTS
    NoOverlap
CHECK_DEADLOCK FALSE
