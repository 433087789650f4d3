----------------------------- MODULE RunBuffers -----------------------------
(* The two buffers a detached run may have, each as a part: the in-process   *)
(* one, MemoryRunBuffer, and the one in Redis, RedisRunBuffer. A behaviour   *)
(* is one of one part; the other stays as it starts.                         *)
EXTENDS MemoryRunBuffer

CONSTANTS Parts,           \* the parts considered
          RConns, RWorkers, RChunks, RSeq   \* constants of RedisRunBuffer

\* _MAX_CHUNKS_PER_RUN.
ASSUME RedisAssumption == RChunks \in Nat

VARIABLES part,
          seq, list, doneKey, meta, rpc, doneCached, num, spc, cursor, pending, inbox, from, had,
          late, joined, log, over, expired

redis == <<seq, list, doneKey, meta, rpc, doneCached, num, spc, cursor, pending, inbox, from, had,
           late, joined, log, over, expired>>
all == <<part, vars, redis>>

Redis == INSTANCE RedisRunBuffer WITH
    Conns <- RConns, Workers <- RWorkers, MaxChunksPerRun <- RChunks, MaxSeq <- RSeq,
    chunks <- list, wpc <- rpc, cpc <- spc, after <- from, got <- had

PartInit == part \in Parts /\ Init /\ Redis!Init

PartNext ==
    /\ UNCHANGED part
    /\ \/ part = "memory" /\ Next /\ UNCHANGED redis
       \/ part = "redis" /\ Redis!Next /\ UNCHANGED vars

PartSpec == PartInit /\ [][PartNext]_all
----------------------------------------------------------------------------
\* Every stream of either buffer comes to its end. Of the Redis buffer also
\* when the process of the worker dies: the record of the run expires, and the
\* readers that poll find it gone.
StreamsEnd == AllStreamsEnd /\ Redis!AllStreamsEnd

\* The cursor of a reader of the Redis buffer is at a chunk of the run; what
\* the replays and the channel overlap in it is sent twice, and no chunk more
\* often, however long it polls.
RedisSound == Redis!RedisSound

\* The Redis buffer keeps the promise of RunStream to a reader that ignores
\* what it already has, but for the streams RedisRunBuffer names as cut.
RedisImplementsStream == Redis!RunStreamImplemented
=============================================================================
