SPECIFICATION MCSpec
CONSTANTS
    Parts = {"memory", "redis"}
    Conns = {c1, c2}
    Workers = {w1, w2}
    MaxChunksPerRun = 2
    SubscriberQueueMax = 1
    MaxSeq = 3
    None = None
    RConns = {c1}
    RWorkers = {w1}
    RChunks = 2
    RSeq = 4
INVARIANTS
    NoGapNoRepeat
    ClosedComplete
    RedisSound
PROPERTIES
    StreamsEnd
    RunStreamImplemented
    RedisImplementsStream
CHECK_DEADLOCK FALSE
