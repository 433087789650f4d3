SPECIFICATION MCSpec
CONSTANTS
    LimiterSetup <- MCLimiterSetup
    CreditsSetup <- MCCreditsSetup
    SessionScenes <- MCSessionScenes
    ContextSetup <- MCContextSetup
    CatalogSetup <- MCCatalogSetup
    PhoneScenes <- MCPhoneScenes
    MaxBubbles = 2
    Parts = {"stream", "limiter", "credits", "session", "imessage", "context", "catalog"}
    Modes = {"stream", "detached"}
    QueueMax = 2
    MaxRounds = 2
    MaxDeltas = 1
INVARIANTS
    CompleteWhenSettled
    EndedIsSaved
    AdmissionBounded
    OwnContext
    AnsweredOnce
    GivenBack
PROPERTIES
    TurnEnds
CHECK_DEADLOCK FALSE
