SPECIFICATION Spec
CONSTANTS
    Conns = {c1}
    Workers = {w1}
    MaxChunksPerRun = 3
    MaxSeq = 2
INVARIANTS
    EndedIsComplete
CHECK_DEADLOCK FALSE
