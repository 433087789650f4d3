SPECIFICATION MCSpec
CONSTANTS
    KeepRecent = 2
    MaxVisible = 2
    CompactRounds = TRUE
    ResultCap = 1
    PinnedCap = 2
    MaxPins = 2
    Workers = {w1, w2}
    Permits = 2
    WorkerRounds = 1
    Orgs = {TRUE, FALSE}
    Shapes <- MCShapes
    StreamWorkers <- MCStreamWorkers
    StreamScenes <- MCStreamScenes
    Attachments = 3
    FileScenes <- MCFileScenes
INVARIANTS
    TypesOK
    RequestWellFormed
    QuestionIsSent
    CheckpointIsMain
    PermitsReturned
    ShownIsProse
    ToolsPaired
    RoundsBilled
    NothingLost
    LatestSent
PROPERTIES
    TurnEnds
CHECK_DEADLOCK FALSE
