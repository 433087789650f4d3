---------------------------- MODULE MCRunBuffers ----------------------------
(* Model checking of RunBuffers: the in-process buffer on two connections    *)
(* and two workers, the Redis buffer on one of each, since its readers share *)
(* nothing they write to.                                                    *)
EXTENDS RunBuffers

\* The fairness of the two specifications.
MCSpec ==
    /\ PartSpec
    /\ \A w \in Workers : WF_vars(part = "memory" /\ Work(w))
    /\ \A c \in Conns : WF_vars(part = "memory" /\ Serve(c))
    /\ \A w \in RWorkers : WF_redis(part = "redis" /\ Redis!Work(w))
    /\ \A c \in RConns : WF_redis(part = "redis" /\ Redis!Serve(c))
    /\ WF_redis(part = "redis" /\ Redis!Expire)
=============================================================================
