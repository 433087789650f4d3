SPECIFICATION Spec
CONSTANTS
    Requests = {"r1", "r2", "r3"}
    Home <- MCHome
    Reserve <- MCReserve
    Costs = {0, 2}
    Limit = 3
    Grants = {1}
    Limits = {5}
    MaxHits = 1
    Window = 2
    Month = 2
    MaxTime = 3
    MaxPosts = 1
    MaxActs = 0
INVARIANTS
    WindowKept
CHECK_DEADLOCK FALSE
