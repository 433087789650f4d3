SPECIFICATION FairSpec
CONSTANTS
    Conns = {c1}
    Workers = {w1}
    MaxChunksPerRun = 2
    SubscriberQueueMax = 1
    MaxSeq = 3
    None = None
PROPERTIES
    SlowSubscriberDisconnected
CHECK_DEADLOCK FALSE
