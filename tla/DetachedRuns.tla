---------------------------- MODULE DetachedRuns ----------------------------
(***************************************************************************)
(* The life of one detached run: POST /runs with the turn_id as the run's  *)
(* id, the worker task it starts, the checkpoints the agent leaves after   *)
(* each step, the end of the run, the GC task that forgets it, the death   *)
(* of an API process, and the POST of the same turn_id that resumes it.    *)
(* What the chunks are and who reads them is MemoryRunBuffer's and         *)
(* RedisRunBuffer's subject; here the buffer is its record in the store.   *)
(*                                                                         *)
(* Two deployments: "memory" (one API process, no Redis: nothing between   *)
(* the look at the store and the new task suspends) and "redis" (the store *)
(* and the checkpoints are shared, and every access to them is an await).  *)
(***************************************************************************)
EXTENDS Integers, FiniteSets

CONSTANTS
    Backends,       \* the deployments considered: a subset of {"memory", "redis"}
    Procs,          \* API processes of the redis deployment
    Home,           \* the only API process of the memory deployment
    Requests,       \* the POSTs of one turn_id that clients make
    Overlap,        \* whether a POST may be made while another is in flight
    MaxSteps,       \* bound on the steps of the agent
    MaxCrashes,     \* bound on the deaths of processes
    MaxFailures     \* bound on the exceptions that end a worker

ASSUME RunsAssumption ==
    /\ Backends \subseteq {"memory", "redis"}
    /\ Home \in Procs
    /\ Overlap \in BOOLEAN
    /\ MaxSteps \in Nat /\ MaxCrashes \in Nat /\ MaxFailures \in Nat

NoStep == -1            \* no checkpoint

VARIABLES
    backend,        \* the deployment
    record,         \* the run in the store: "none", "running" or "done"
    ckMem,          \* process: its _memory copy of the checkpoint, a step
    ckDone,         \* process: that copy is marked completed
    ckRedis,        \* the copy in Redis, a step
    rpc,            \* request: the await it is at
    rproc,          \* request, and the worker it starts: its process
    rck,            \* request: the checkpoint it loaded
    wpc,            \* worker of a request: the await it is at
    wstep,          \* worker: session.step_count
    gc,             \* worker: its GC task is asleep
    crashes, failures,  \* counted up to their bounds
    executed,       \* history: the steps some worker executed
    saved           \* history: the last step saved of the turn under way

store == <<record, gc>>
checkpoint == <<ckMem, ckDone, ckRedis, saved>>
request == <<rpc, rproc, rck>>
worker == <<wpc, wstep, executed>>
vars == <<backend, store, checkpoint, request, worker, crashes, failures>>

Live == {"start", "running", "ran", "saving", "clearing", "ending"}

Init ==
    /\ backend \in Backends
    /\ record = "none"
    /\ ckMem = [p \in Procs |-> NoStep]
    /\ ckDone = [p \in Procs |-> FALSE]
    /\ ckRedis = NoStep
    /\ rpc = [r \in Requests |-> "new"]
    /\ rproc = [r \in Requests |-> Home]
    /\ rck = [r \in Requests |-> NoStep]
    /\ wpc = [r \in Requests |-> "none"]
    /\ wstep = [r \in Requests |-> 0]
    /\ gc = [r \in Requests |-> FALSE]
    /\ crashes = 0 /\ failures = 0
    /\ executed = {} /\ saved = 0

----------------------------------------------------------------------------
(* POST /runs *)

\* load_checkpoint: the process' own copy, unless it has none or a completed one.
MemoryCopy(p) == IF ckDone[p] THEN NoStep ELSE ckMem[p]

\* Bug to be caught: the task is created for a run that is not registered.
StartUnregistered(r, k) ==
    /\ wpc' = [wpc EXCEPT ![r] = "start"]
    /\ wstep' = [wstep EXCEPT ![r] = IF k = NoStep THEN 0 ELSE k]
    /\ rpc' = [rpc EXCEPT ![r] = "replied"]
    /\ UNCHANGED <<record, gc, executed>>

\* register, create_task and the reply: a worker starts from checkpoint k.
StartWorker(r, k) ==
    /\ record' = "running"
    /\ wpc' = [wpc EXCEPT ![r] = "start"]
    /\ wstep' = [wstep EXCEPT ![r] = IF k = NoStep THEN 0 ELSE k]
    /\ rpc' = [rpc EXCEPT ![r] = "replied"]
    /\ UNCHANGED <<gc, executed>>

\* Bug to be caught: the store is not asked for the run first.
PostAnyway(r) ==
    /\ backend = "memory" /\ rpc[r] = "new"
    /\ StartWorker(r, MemoryCopy(Home))
    /\ UNCHANGED <<backend, checkpoint, rproc, rck, crashes, failures>>

\* Without Redis the handler runs from store.get to create_task in one go.
PostMemory(r) ==
    /\ backend = "memory" /\ rpc[r] = "new"
    /\ IF record = "none"
         THEN StartWorker(r, MemoryCopy(Home))
         ELSE rpc' = [rpc EXCEPT ![r] = "replied"] /\ UNCHANGED <<store, worker>>
    /\ UNCHANGED <<backend, checkpoint, rproc, rck, crashes, failures>>

InFlight == {r \in Requests : rpc[r] \in {"load", "register"}}

\* store.get, and load_checkpoint up to its own await.
PostGet(r, p) ==
    /\ backend = "redis" /\ rpc[r] = "new"
    /\ Overlap \/ InFlight = {}
    /\ rproc' = [rproc EXCEPT ![r] = p]
    /\ rck' = [rck EXCEPT ![r] = MemoryCopy(p)]
    /\ rpc' = [rpc EXCEPT ![r] =
                  IF record # "none" THEN "replied"
                  ELSE IF MemoryCopy(p) = NoStep THEN "load" ELSE "register"]
    /\ UNCHANGED <<backend, store, checkpoint, worker, crashes, failures>>

\* load_checkpoint: the copy in Redis, kept in memory as well.
PostLoad(r) ==
    /\ rpc[r] = "load"
    /\ rck' = [rck EXCEPT ![r] = ckRedis]
    /\ rpc' = [rpc EXCEPT ![r] = "register"]
    /\ IF ckRedis = NoStep
         THEN UNCHANGED <<ckMem, ckDone>>
         ELSE /\ ckMem' = [ckMem EXCEPT ![rproc[r]] = ckRedis]
              /\ ckDone' = [ckDone EXCEPT ![rproc[r]] = FALSE]
    /\ UNCHANGED <<backend, store, ckRedis, saved, rproc, worker, crashes, failures>>

\* store.register, create_task.
PostRegister(r) ==
    /\ rpc[r] = "register"
    /\ StartWorker(r, rck[r])
    /\ UNCHANGED <<backend, checkpoint, rproc, rck, crashes, failures>>

----------------------------------------------------------------------------
(* The worker task. *)

\* buf = await store.get(run_id): return if the run is not there.
WorkerStart(r) ==
    /\ wpc[r] = "start"
    /\ wpc' = [wpc EXCEPT ![r] = IF record = "none" THEN "finished" ELSE "running"]
    /\ UNCHANGED <<backend, store, checkpoint, request, wstep, executed, crashes, failures>>

\* One step of the agent: the model is asked and the tools it names are run.
Execute(r) ==
    /\ wpc[r] = "running" /\ wstep[r] < MaxSteps
    /\ wstep' = [wstep EXCEPT ![r] = @ + 1]
    /\ executed' = executed \cup {wstep[r] + 1}
    /\ wpc' = [wpc EXCEPT ![r] = "ran"]
    /\ UNCHANGED <<backend, store, checkpoint, request, crashes, failures>>

\* Bug to be caught: the step saved is the one to come.
SaveNext(r) ==
    /\ wpc[r] = "ran"
    /\ ckMem' = [ckMem EXCEPT ![rproc[r]] = wstep[r] + 1]
    /\ ckDone' = [ckDone EXCEPT ![rproc[r]] = FALSE]
    /\ wpc' = [wpc EXCEPT ![r] = IF backend = "memory" THEN "running" ELSE "saving"]
    /\ saved' = IF backend = "memory" THEN wstep[r] ELSE saved
    /\ UNCHANGED <<backend, store, ckRedis, request, wstep, executed, crashes, failures>>

\* save_checkpoint: the copy in memory.
Save(r) ==
    /\ wpc[r] = "ran"
    /\ ckMem' = [ckMem EXCEPT ![rproc[r]] = wstep[r]]
    /\ ckDone' = [ckDone EXCEPT ![rproc[r]] = FALSE]
    /\ wpc' = [wpc EXCEPT ![r] = IF backend = "memory" THEN "running" ELSE "saving"]
    /\ saved' = IF backend = "memory" THEN wstep[r] ELSE saved
    /\ UNCHANGED <<backend, store, ckRedis, request, wstep, executed, crashes, failures>>

\* save_checkpoint: the copy in Redis.
SaveRedis(r) ==
    /\ wpc[r] = "saving"
    /\ ckRedis' = wstep[r]
    /\ saved' = wstep[r]
    /\ wpc' = [wpc EXCEPT ![r] = "running"]
    /\ UNCHANGED <<backend, store, ckMem, ckDone, request, wstep, executed, crashes, failures>>

\* mark_checkpoint_completed: the copy in memory.  The agent's loop is over:
\* it answered, ran out of steps, or returned on an error of the model.
Complete(r) ==
    /\ wpc[r] = "running"
    /\ ckDone' = [ckDone EXCEPT ![rproc[r]] = ckMem[rproc[r]] # NoStep]
    /\ saved' = IF backend = "memory" THEN 0 ELSE saved
    /\ wpc' = [wpc EXCEPT ![r] = IF backend = "memory" THEN "ending" ELSE "clearing"]
    /\ UNCHANGED <<backend, store, ckMem, ckRedis, request, wstep, executed, crashes, failures>>

\* Bug to be caught: the copy in Redis stays.
ClearNothing(r) ==
    /\ wpc[r] = "clearing"
    /\ saved' = 0
    /\ wpc' = [wpc EXCEPT ![r] = "ending"]
    /\ UNCHANGED <<backend, store, ckMem, ckDone, ckRedis, request, wstep, executed,
                   crashes, failures>>

\* mark_checkpoint_completed: the copy in Redis is deleted.
ClearRedis(r) ==
    /\ wpc[r] = "clearing"
    /\ ckRedis' = NoStep
    /\ saved' = 0
    /\ wpc' = [wpc EXCEPT ![r] = "ending"]
    /\ UNCHANGED <<backend, store, ckMem, ckDone, request, wstep, executed, crashes, failures>>

\* An exception leaves the agent's loop: the checkpoint stays as it is.
Fail(r) ==
    /\ wpc[r] = "running" /\ failures < MaxFailures
    /\ failures' = failures + 1
    /\ wpc' = [wpc EXCEPT ![r] = "ending"]
    /\ UNCHANGED <<backend, store, checkpoint, request, wstep, executed, crashes>>

\* Bug to be caught: the run is forgotten by nobody.
FinishForGood(r) ==
    /\ wpc[r] = "ending"
    /\ record' = IF record = "none" THEN "none" ELSE "done"
    /\ wpc' = [wpc EXCEPT ![r] = "finished"]
    /\ UNCHANGED <<backend, gc, checkpoint, request, wstep, executed, crashes, failures>>

\* buf.finish(), and the GC task is created.
Finish(r) ==
    /\ wpc[r] = "ending"
    /\ record' = IF record = "none" THEN "none" ELSE "done"
    /\ gc' = [gc EXCEPT ![r] = TRUE]
    /\ wpc' = [wpc EXCEPT ![r] = "finished"]
    /\ UNCHANGED <<backend, checkpoint, request, wstep, executed, crashes, failures>>

\* _schedule_gc: drop whatever the store has under this id.
Drop(r) ==
    /\ gc[r]
    /\ gc' = [gc EXCEPT ![r] = FALSE]
    /\ record' = "none"
    /\ UNCHANGED <<backend, checkpoint, request, worker, crashes, failures>>

\* The keys in Redis expire _DETACHED_GC_SEC after the last write.  A worker
\* that lives writes; a GC task that sleeps drops the keys as they expire.
Expire ==
    /\ backend = "redis" /\ record # "none"
    /\ \A r \in Requests : wpc[r] \notin Live /\ ~gc[r]
    /\ record' = "none"
    /\ UNCHANGED <<backend, gc, checkpoint, request, worker, crashes, failures>>

\* A process dies: its requests, its tasks and what it has in memory are lost.
Crash(p) ==
    /\ crashes < MaxCrashes
    /\ backend = "redis" \/ p = Home
    /\ crashes' = crashes + 1
    /\ rpc' = [r \in Requests |-> IF r \in InFlight /\ rproc[r] = p THEN "lost" ELSE rpc[r]]
    /\ wpc' = [r \in Requests |-> IF wpc[r] \in Live /\ rproc[r] = p THEN "dead" ELSE wpc[r]]
    /\ gc' = [r \in Requests |-> gc[r] /\ rproc[r] # p]
    /\ ckMem' = [ckMem EXCEPT ![p] = NoStep]
    /\ ckDone' = [ckDone EXCEPT ![p] = FALSE]
    /\ IF backend = "memory"
         THEN record' = "none" /\ saved' = 0
         ELSE UNCHANGED <<record, saved>>
    /\ UNCHANGED <<backend, ckRedis, rproc, rck, wstep, executed, failures>>

Post(r) == PostMemory(r) \/ (\E p \in Procs : PostGet(r, p)) \/ PostLoad(r) \/ PostRegister(r)

Work(r) ==
    \/ WorkerStart(r) \/ Execute(r) \/ Save(r) \/ SaveRedis(r)
    \/ Complete(r) \/ ClearRedis(r) \/ Fail(r) \/ Finish(r)

Next ==
    \/ \E r \in Requests : Post(r) \/ Work(r) \/ Drop(r)
    \/ Expire
    \/ \E p \in Procs : Crash(p)

Spec == Init /\ [][Next]_vars

\* Tasks that can go on do, GC tasks wake up, and keys nobody writes expire.
FairSpec ==
    /\ Spec
    /\ \A r \in Requests : WF_vars(Work(r)) /\ WF_vars(Drop(r))
    /\ WF_vars(Expire)

----------------------------------------------------------------------------
(* Properties. *)

\* The type invariant.
TypeOK ==
    /\ backend \in Backends
    /\ record \in {"none", "running", "done"}
    /\ ckMem \in [Procs -> NoStep..MaxSteps]
    /\ ckDone \in [Procs -> BOOLEAN]
    /\ ckRedis \in NoStep..MaxSteps
    /\ rpc \in [Requests -> {"new", "load", "register", "replied", "lost"}]
    /\ rproc \in [Requests -> Procs]
    /\ rck \in [Requests -> NoStep..MaxSteps]
    /\ wpc \in [Requests -> Live \cup {"none", "finished", "dead"}]
    /\ wstep \in [Requests -> 0..MaxSteps]
    /\ gc \in [Requests -> BOOLEAN]
    /\ crashes \in 0..MaxCrashes /\ failures \in 0..MaxFailures
    /\ executed \subseteq 1..MaxSteps
    /\ saved \in 0..MaxSteps

Working == {r \in Requests : wpc[r] \in Live}

\* POST /runs with a turn_id whose run is under way starts no second worker
\* (chat_routes.py: "idempotent resume"): the agent and the tools it calls
\* never run twice at a time for one turn.
OneWorker == Cardinality(Working) <= 1

\* While a worker works its run is in the store: readers can attach, and the
\* next POST finds it.
WorkingIsKnown == Working # {} => record # "none"

\* No worker stands at a step that was never executed: a resumed run skips
\* nothing, wherever its checkpoint was taken and whatever died since.
NothingSkipped ==
    \A r \in Requests : wpc[r] \in {"running", "ran", "saving"} => 1..wstep[r] \subseteq executed

Starts(r) == wpc[r] = "none" /\ wpc'[r] = "start"

\* run_checkpoint.py: "Persist agent run state so detached runs can resume
\* after worker loss."  A worker starts from the last step saved of the turn,
\* and from nothing when the turn was completed.
ResumesWhereSaved == [][\A r \in Requests : Starts(r) => wstep'[r] = saved]_vars

\* The process that takes the POST has an uncompleted copy in memory that is
\* not the one in Redis.
Shadowed(p) == backend = "redis" /\ ckMem[p] # NoStep /\ ~ckDone[p] /\ ckMem[p] # ckRedis

\* A worker starts from the last step saved, but for one reason: an old copy
\* in the memory of the process hides the one in Redis.
ResumesUnlessShadowed ==
    [][\A r \in Requests : Starts(r) => wstep'[r] = saved \/ Shadowed(rproc[r])]_vars

\* Nothing stays in the store for good: a run that ended, failed or lost its
\* process is forgotten, and its turn_id can be posted again.
Forgotten == record # "none" ~> record = "none"
----------------------------------------------------------------------------
(* The inductive invariant. *)

\* The step a worker starts at from checkpoint k.
StepOf(k) == IF k = NoStep THEN 0 ELSE k

\* Without Redis there is one process, and no handler and no worker waits for
\* a copy that is shared.
MemoryInv ==
    backend = "memory" =>
        \A r \in Requests : /\ rproc[r] = Home
                            /\ rpc[r] \notin {"load", "register"}
                            /\ wpc[r] \notin {"saving", "clearing"}

\* Every checkpoint, and every worker, stands at a step that was executed.
StepsInv ==
    /\ \A p \in Procs : 1..ckMem[p] \subseteq executed
    /\ 1..ckRedis \subseteq executed
    /\ \A r \in Requests : 1..rck[r] \subseteq executed /\ 1..wstep[r] \subseteq executed

\* The turn is posted by one request at a time.
OneAtATime == backend = "memory" \/ ~Overlap

\* One at a time are: a request on its way, which found no run; a worker,
\* whose run is in the store; a GC task, which sleeps on a run that is done.
TurnInv ==
    OneAtATime =>
        /\ \A r, q \in Working : r = q
        /\ \A r, q \in InFlight : r = q
        /\ \A r, q \in Requests : gc[r] /\ gc[q] => r = q
        /\ Working # {} => record # "none"
        /\ InFlight # {} => record = "none"
        /\ (\E r \in Requests : gc[r]) => record = "done" /\ Working = {}

\* Where the last step saved is to be found.
SavedInv ==
    saved = StepOf(IF backend = "redis" THEN ckRedis ELSE MemoryCopy(Home))

\* A request about to start a worker has what is in Redis, or what its
\* process has in memory.
LoadedInv ==
    OneAtATime => \A r \in Requests :
        rpc[r] = "register" =>
            \/ rck[r] = ckRedis
            \/ rck[r] # NoStep /\ rck[r] = MemoryCopy(rproc[r])

IInv == TypeOK /\ MemoryInv /\ StepsInv /\ TurnInv /\ SavedInv /\ LoadedInv
=============================================================================
