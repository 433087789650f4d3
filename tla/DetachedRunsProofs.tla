------------------------- MODULE DetachedRunsProofs -------------------------
(***************************************************************************)
(* Proofs about DetachedRuns for any number of requests, processes and     *)
(* steps: types, one worker at a time, and where a worker starts.  What    *)
(* needs the POSTs of a turn to come one at a time says so.                *)
(***************************************************************************)
EXTENDS DetachedRuns, FiniteSetTheorems, TLAPS

(* The invariant holds at the start. *)
LEMMA InitIInv == Init => IInv
<1> SUFFICES ASSUME Init PROVE IInv
  OBVIOUS
<1> USE RunsAssumption DEF NoStep
<1>1. TypeOK
  BY DEF Init, TypeOK, Live
<1>2. MemoryInv /\ StepsInv
  BY DEF Init, MemoryInv, StepsInv
<1>3. TurnInv
  BY DEF Init, TurnInv, Working, InFlight, Live
<1>4. SavedInv
  BY DEF Init, SavedInv, StepOf, MemoryCopy
<1>5. LoadedInv
  BY DEF Init, LoadedInv
<1> QED
  BY <1>1, <1>2, <1>3, <1>4, <1>5 DEF IInv

(* What a process has in memory is a step, or nothing. *)
LEMMA CopyIsAStep ==
  ASSUME TypeOK, NEW p \in Procs
  PROVE  MemoryCopy(p) \in NoStep..MaxSteps
BY RunsAssumption DEF TypeOK, MemoryCopy, NoStep

(* A POST keeps the types. *)
LEMMA PostTypes ==
  ASSUME TypeOK, NEW r \in Requests, Post(r)
  PROVE  TypeOK'
<1> USE RunsAssumption DEF store, checkpoint, request, worker
<1>1. CASE PostMemory(r)
  <2>1. CASE record = "none"
    <3>1. StartWorker(r, MemoryCopy(Home)) /\ MemoryCopy(Home) \in NoStep..MaxSteps
      BY <1>1, <2>1, CopyIsAStep DEF PostMemory
    <3>2. UNCHANGED <<backend, checkpoint, rproc, rck, crashes, failures>>
      BY <1>1 DEF PostMemory
    <3> QED
      BY <3>1, <3>2 DEF StartWorker, TypeOK, NoStep, Live
  <2>2. CASE record # "none"
    BY <1>1, <2>2 DEF PostMemory, TypeOK
  <2> QED
    BY <2>1, <2>2
<1>2. ASSUME NEW p \in Procs, PostGet(r, p)  PROVE TypeOK'
  BY <1>2, CopyIsAStep DEF PostGet, TypeOK
<1>3. CASE PostLoad(r)
  <2>1. CASE ckRedis = NoStep
    BY <1>3, <2>1 DEF PostLoad, TypeOK
  <2>2. CASE ckRedis # NoStep
    <3>1. rproc[r] \in Procs /\ ckRedis \in NoStep..MaxSteps
      BY DEF TypeOK
    <3>2. /\ ckMem' \in [Procs -> NoStep..MaxSteps]
          /\ rck' \in [Requests -> NoStep..MaxSteps]
      BY <1>3, <2>2, <3>1 DEF PostLoad, TypeOK
    <3>3. ckDone' \in [Procs -> BOOLEAN]
      BY <1>3, <2>2, <3>1 DEF PostLoad, TypeOK
    <3>4. rpc' \in [Requests -> {"new", "load", "register", "replied", "lost"}]
      BY <1>3 DEF PostLoad, TypeOK
    <3> QED
      BY <1>3, <3>2, <3>3, <3>4, Zenon DEF PostLoad, TypeOK
  <2> QED
    BY <2>1, <2>2
<1>4. CASE PostRegister(r)
  BY <1>4 DEF PostRegister, StartWorker, TypeOK, NoStep, Live
<1> QED
  BY <1>1, <1>2, <1>3, <1>4 DEF Post

(* ... and so does a worker, *)
LEMMA WorkTypes ==
  ASSUME TypeOK, NEW r \in Requests, Work(r)
  PROVE  TypeOK'
<1> USE RunsAssumption DEF store, checkpoint, request, worker, TypeOK
<1>1. CASE WorkerStart(r)
  BY <1>1 DEF WorkerStart, Live
<1>2. CASE Execute(r)
  <2>1. wstep[r] \in 0..MaxSteps /\ wstep[r] + 1 \in 1..MaxSteps
    BY <1>2 DEF Execute
  <2>2. executed' \subseteq 1..MaxSteps
    BY <1>2, <2>1 DEF Execute
  <2>3. wstep' \in [Requests -> 0..MaxSteps]
    BY <1>2, <2>1 DEF Execute
  <2>4. wpc' \in [Requests -> Live \cup {"none", "finished", "dead"}]
    BY <1>2 DEF Execute, Live
  <2> QED
    BY <1>2, <2>2, <2>3, <2>4, Zenon DEF Execute
<1>3. CASE Save(r)
  BY <1>3 DEF Save, Live, NoStep
<1>4. CASE SaveRedis(r)
  BY <1>4 DEF SaveRedis, Live, NoStep
<1>5. CASE Complete(r)
  BY <1>5 DEF Complete, Live
<1>6. CASE ClearRedis(r)
  BY <1>6 DEF ClearRedis, Live, NoStep
<1>7. CASE Fail(r)
  BY <1>7 DEF Fail, Live
<1>8. CASE Finish(r)
  BY <1>8 DEF Finish, Live
<1> QED
  BY <1>1, <1>2, <1>3, <1>4, <1>5, <1>6, <1>7, <1>8 DEF Work

(* ... the end of a run and the death of a process. *)
LEMMA WorldTypes ==
  ASSUME TypeOK, Expire \/ (\E r \in Requests : Drop(r)) \/ (\E p \in Procs : Crash(p))
  PROVE  TypeOK'
<1> USE RunsAssumption DEF store, checkpoint, request, worker, TypeOK
<1>1. CASE Expire
  BY <1>1 DEF Expire
<1>2. ASSUME NEW r \in Requests, Drop(r)  PROVE TypeOK'
  BY <1>2 DEF Drop
<1>3. ASSUME NEW p \in Procs, Crash(p)  PROVE TypeOK'
  BY <1>3 DEF Crash, NoStep
<1> QED
  BY <1>1, <1>2, <1>3

LEMMA StepTypes ==
  ASSUME TypeOK, Next PROVE TypeOK'
BY PostTypes, WorkTypes, WorldTypes DEF Next

(* Without Redis nothing waits for a shared copy. *)
LEMMA StepMemory ==
  ASSUME TypeOK, MemoryInv, Next PROVE MemoryInv'
<1> USE RunsAssumption DEF store, checkpoint, request, worker, TypeOK, MemoryInv
<1>1. ASSUME NEW r \in Requests, Post(r)  PROVE MemoryInv'
  BY <1>1 DEF Post, PostMemory, PostGet, PostLoad, PostRegister, StartWorker
<1>2. ASSUME NEW r \in Requests, Work(r)  PROVE MemoryInv'
  BY <1>2 DEF Work, WorkerStart, Execute, Save, SaveRedis, Complete, ClearRedis, Fail, Finish
<1>3. ASSUME NEW r \in Requests, Drop(r)  PROVE MemoryInv'
  BY <1>3 DEF Drop
<1>4. CASE Expire
  BY <1>4 DEF Expire
<1>5. ASSUME NEW p \in Procs, Crash(p)  PROVE MemoryInv'
  BY <1>5 DEF Crash
<1> QED
  BY <1>1, <1>2, <1>3, <1>4, <1>5 DEF Next

(* A checkpoint is taken of a step that was executed, and only such move. *)
LEMMA StepSteps ==
  ASSUME TypeOK, StepsInv, Next PROVE StepsInv'
<1> USE RunsAssumption DEF store, checkpoint, request, worker, TypeOK, StepsInv, NoStep
<1>0. 1..0 = {} /\ 1..(-1) = {}
  OBVIOUS
<1>1. ASSUME NEW r \in Requests, PostMemory(r)  PROVE StepsInv'
  BY <1>0, <1>1 DEF PostMemory, StartWorker, MemoryCopy
<1>2. ASSUME NEW r \in Requests, NEW p \in Procs, PostGet(r, p)  PROVE StepsInv'
  BY <1>0, <1>2 DEF PostGet, MemoryCopy
<1>3. ASSUME NEW r \in Requests, PostLoad(r)  PROVE StepsInv'
  BY <1>3 DEF PostLoad
<1>4. ASSUME NEW r \in Requests, PostRegister(r)  PROVE StepsInv'
  BY <1>0, <1>4 DEF PostRegister, StartWorker
<1>5. ASSUME NEW r \in Requests, WorkerStart(r) \/ Fail(r) \/ Finish(r) \/ Drop(r)
      PROVE  StepsInv'
  BY <1>5 DEF WorkerStart, Fail, Finish, Drop
<1>6. ASSUME NEW r \in Requests, Execute(r)  PROVE StepsInv'
  <2>1. wstep[r] \in Nat /\ 1..(wstep[r] + 1) = 1..wstep[r] \cup {wstep[r] + 1}
    OBVIOUS
  <2> QED
    BY <1>6, <2>1 DEF Execute
<1>7. ASSUME NEW r \in Requests, Save(r) \/ SaveRedis(r)  PROVE StepsInv'
  BY <1>7 DEF Save, SaveRedis
<1>8. ASSUME NEW r \in Requests, Complete(r) \/ ClearRedis(r)  PROVE StepsInv'
  BY <1>0, <1>8 DEF Complete, ClearRedis
<1>9. CASE Expire
  BY <1>9 DEF Expire
<1>10. ASSUME NEW p \in Procs, Crash(p)  PROVE StepsInv'
  BY <1>0, <1>10 DEF Crash
<1> QED
  BY <1>1, <1>2, <1>3, <1>4, <1>5, <1>6, <1>7, <1>8, <1>9, <1>10 DEF Next, Post, Work

(* A POST finds no run, one worker is started, its GC task sleeps: one at a  *)
(* time, if the POSTs come one at a time.                                    *)
LEMMA StepTurn ==
  ASSUME TypeOK, MemoryInv, TurnInv, Next PROVE TurnInv'
<1> USE RunsAssumption
    DEF store, checkpoint, request, worker, TypeOK, TurnInv, OneAtATime, Working, InFlight
<1>1. ASSUME NEW r \in Requests, PostMemory(r)  PROVE TurnInv'
  BY <1>1 DEF PostMemory, StartWorker, Live, MemoryInv
<1>2. ASSUME NEW r \in Requests, NEW p \in Procs, PostGet(r, p)  PROVE TurnInv'
  BY <1>2 DEF PostGet
<1>3. ASSUME NEW r \in Requests, PostLoad(r)  PROVE TurnInv'
  BY <1>3 DEF PostLoad
<1>4. ASSUME NEW r \in Requests, PostRegister(r)  PROVE TurnInv'
  BY <1>4 DEF PostRegister, StartWorker, Live
<1>5. ASSUME NEW r \in Requests, WorkerStart(r) \/ Execute(r) \/ Fail(r)  PROVE TurnInv'
  BY <1>5 DEF WorkerStart, Execute, Fail, Live
<1>6. ASSUME NEW r \in Requests,
             Save(r) \/ SaveRedis(r) \/ Complete(r) \/ ClearRedis(r)
      PROVE  TurnInv'
  BY <1>6 DEF Save, SaveRedis, Complete, ClearRedis, Live
<1>7. ASSUME NEW r \in Requests, Finish(r)  PROVE TurnInv'
  BY <1>7 DEF Finish, Live
<1>8. ASSUME NEW r \in Requests, Drop(r)  PROVE TurnInv'
  BY <1>8 DEF Drop
<1>9. CASE Expire
  BY <1>9 DEF Expire
<1>10. ASSUME NEW p \in Procs, Crash(p)  PROVE TurnInv'
  BY <1>10 DEF Crash, MemoryInv, Live
<1> QED
  BY <1>1, <1>2, <1>3, <1>4, <1>5, <1>6, <1>7, <1>8, <1>9, <1>10 DEF Next, Post, Work

(* The last step saved is in Redis, or in the memory of the only process. *)
LEMMA StepSaved ==
  ASSUME TypeOK, MemoryInv, SavedInv, Next PROVE SavedInv'
<1> USE RunsAssumption
    DEF store, checkpoint, request, worker, TypeOK, SavedInv, StepOf, MemoryCopy, NoStep
<1>1. ASSUME NEW r \in Requests, Post(r)  PROVE SavedInv'
  BY <1>1 DEF Post, PostMemory, PostGet, PostLoad, PostRegister, StartWorker, MemoryInv
<1>2. ASSUME NEW r \in Requests, WorkerStart(r) \/ Execute(r) \/ Fail(r) \/ Finish(r) \/ Drop(r)
      PROVE  SavedInv'
  BY <1>2 DEF WorkerStart, Execute, Fail, Finish, Drop
<1>3. ASSUME NEW r \in Requests, Save(r)  PROVE SavedInv'
  BY <1>3 DEF Save, MemoryInv
<1>4. ASSUME NEW r \in Requests, SaveRedis(r) \/ ClearRedis(r)  PROVE SavedInv'
  BY <1>4 DEF SaveRedis, ClearRedis, MemoryInv
<1>5. ASSUME NEW r \in Requests, Complete(r)  PROVE SavedInv'
  BY <1>5 DEF Complete, MemoryInv
<1>6. CASE Expire
  BY <1>6 DEF Expire
<1>7. ASSUME NEW p \in Procs, Crash(p)  PROVE SavedInv'
  BY <1>7 DEF Crash
<1> QED
  BY <1>1, <1>2, <1>3, <1>4, <1>5, <1>6, <1>7 DEF Next, Post, Work

(* What a request loaded stays true until it starts its worker. *)
LEMMA StepLoaded ==
  ASSUME TypeOK, MemoryInv, TurnInv, LoadedInv, Next PROVE LoadedInv'
<1> USE RunsAssumption
    DEF store, checkpoint, request, worker, TypeOK, LoadedInv, OneAtATime, MemoryCopy
<1>1. ASSUME NEW r \in Requests, PostMemory(r) \/ PostRegister(r)  PROVE LoadedInv'
  BY <1>1 DEF PostMemory, PostRegister, StartWorker
<1>2. ASSUME NEW r \in Requests, NEW p \in Procs, PostGet(r, p)  PROVE LoadedInv'
  BY <1>2 DEF PostGet
<1>3. ASSUME NEW r \in Requests, PostLoad(r)  PROVE LoadedInv'
  BY <1>3 DEF PostLoad, TurnInv, InFlight
<1>4. ASSUME NEW r \in Requests, WorkerStart(r) \/ Execute(r) \/ Fail(r) \/ Finish(r) \/ Drop(r)
      PROVE  LoadedInv'
  BY <1>4 DEF WorkerStart, Execute, Fail, Finish, Drop
<1>5. ASSUME NEW r \in Requests,
             Save(r) \/ SaveRedis(r) \/ Complete(r) \/ ClearRedis(r)
      PROVE  LoadedInv'
  <2>1. OneAtATime => Working # {} /\ InFlight = {}
    BY <1>5 DEF Save, SaveRedis, Complete, ClearRedis, Working, Live, TurnInv
  <2>2. UNCHANGED <<backend, rpc>>
    BY <1>5 DEF Save, SaveRedis, Complete, ClearRedis
  <2> QED
    BY <2>1, <2>2 DEF InFlight
<1>6. CASE Expire
  BY <1>6 DEF Expire
<1>7. ASSUME NEW p \in Procs, Crash(p)  PROVE LoadedInv'
  BY <1>7 DEF Crash, InFlight
<1> QED
  BY <1>1, <1>2, <1>3, <1>4, <1>5, <1>6, <1>7 DEF Next, Post, Work

LEMMA StepIInv ==
  ASSUME IInv, [Next]_vars PROVE IInv'
<1>1. CASE Next
  BY <1>1, StepTypes, StepMemory, StepSteps, StepTurn, StepSaved, StepLoaded DEF IInv
<1>2. CASE UNCHANGED vars
  BY <1>2 DEF vars, store, checkpoint, request, worker, IInv, TypeOK, MemoryInv, StepsInv,
              TurnInv, OneAtATime, Working, InFlight, SavedInv, LoadedInv, MemoryCopy
<1> QED
  BY <1>1, <1>2

----------------------------------------------------------------------------
\* The inductive invariant holds of every execution: what the store, the two
\* copies of the checkpoint, requests on their way and workers have to do
\* with each other.
THEOREM InductiveInvariant == Spec => []IInv
<1>1. Init => IInv
  BY InitIInv
<1>2. IInv /\ [Next]_vars => IInv'
  BY StepIInv
<1> QED
  BY <1>1, <1>2, PTL DEF Spec

----------------------------------------------------------------------------
(* What follows from it. *)

\* The types of the requests, the workers and the checkpoints.
THEOREM TypeCorrect == Spec => []TypeOK
<1>1. IInv => TypeOK
  BY DEF IInv
<1> QED
  BY <1>1, InductiveInvariant, PTL

\* If the POSTs of a turn do not overlap, the turn has one worker at a time
\* (start_detached_run), whatever dies, expires or fails.
THEOREM SingleWorker ==
  ASSUME Overlap = FALSE  PROVE Spec => []OneWorker
<1>1. ASSUME IInv  PROVE OneWorker
  <2>1. \A r, q \in Working : r = q
    BY <1>1 DEF IInv, TurnInv, OneAtATime
  <2>2. CASE Working = {}
    BY <2>2, FS_EmptySet DEF OneWorker
  <2>3. ASSUME NEW r \in Working  PROVE OneWorker
    <3>1. Working = {r}
      BY <2>1, <2>3
    <3>2. Cardinality(Working) = 1
      BY <3>1, FS_Singleton
    <3> QED
      BY <3>2 DEF OneWorker
  <2> QED
    BY <2>2, <2>3
<1> QED
  BY <1>1, InductiveInvariant, PTL

\* ... and while it works its run is in the store, where readers and the next
\* POST look for it.
THEOREM WorkerIsKnown ==
  ASSUME Overlap = FALSE  PROVE Spec => []WorkingIsKnown
<1>1. ASSUME IInv  PROVE WorkingIsKnown
  BY <1>1 DEF IInv, TurnInv, OneAtATime, WorkingIsKnown
<1> QED
  BY <1>1, InductiveInvariant, PTL

\* A resumed run skips nothing (load_checkpoint, restore_session): every step
\* up to the one a worker stands at was executed, overlapping POSTs or not.
THEOREM NothingIsSkipped == Spec => []NothingSkipped
<1>1. ASSUME IInv  PROVE NothingSkipped
  BY <1>1 DEF IInv, StepsInv, NothingSkipped
<1> QED
  BY <1>1, InductiveInvariant, PTL

\* Only a POST starts a worker.
LEMMA WhoStarts ==
  ASSUME TypeOK, NEW r \in Requests, Next, Starts(r)
  PROVE  PostMemory(r) \/ PostRegister(r)
<1> USE DEF TypeOK, Starts, store, checkpoint, request, worker
<1>1. ASSUME NEW q \in Requests, Post(q)  PROVE PostMemory(r) \/ PostRegister(r)
  BY <1>1 DEF Post, PostMemory, PostGet, PostLoad, PostRegister, StartWorker
<1>2. ASSUME NEW q \in Requests, Work(q) \/ Drop(q)  PROVE FALSE
  BY <1>2 DEF Work, WorkerStart, Execute, Save, SaveRedis, Complete, ClearRedis, Fail, Finish,
              Drop
<1>3. CASE Expire
  BY <1>3 DEF Expire
<1>4. ASSUME NEW p \in Procs, Crash(p)  PROVE FALSE
  BY <1>4 DEF Crash
<1> QED
  BY <1>1, <1>2, <1>3, <1>4 DEF Next

\* If the POSTs of a turn do not overlap, a worker starts from the last step
\* saved (save_checkpoint, mark_checkpoint_completed), unless an old copy in
\* the memory of the process hides the one in Redis.
THEOREM ResumesWell ==
  ASSUME Overlap = FALSE  PROVE Spec => ResumesUnlessShadowed
<1>1. ASSUME IInv, Next, NEW r \in Requests, Starts(r)
      PROVE  wstep'[r] = saved \/ Shadowed(rproc[r])
  <2> USE <1>1 DEF IInv
  <2>1. CASE PostMemory(r)
    <3>1. wstep'[r] = StepOf(MemoryCopy(Home))
      BY <2>1 DEF PostMemory, StartWorker, Starts, StepOf, TypeOK, worker
    <3> QED
      BY <3>1, <2>1 DEF PostMemory, SavedInv
  <2>2. CASE PostRegister(r)
    <3>1. wstep'[r] = StepOf(rck[r]) /\ backend = "redis" /\ saved = StepOf(ckRedis)
      BY <2>2, RunsAssumption DEF PostRegister, StartWorker, StepOf, TypeOK, MemoryInv, SavedInv
    <3>2. CASE rck[r] = ckRedis
      BY <3>1, <3>2
    <3>3. CASE rck[r] # ckRedis /\ rck[r] # NoStep /\ rck[r] = MemoryCopy(rproc[r])
      BY <3>1, <3>3 DEF Shadowed, MemoryCopy
    <3> QED
      BY <2>2, <3>2, <3>3 DEF PostRegister, LoadedInv, OneAtATime
  <2> QED
    BY <2>1, <2>2, WhoStarts
<1>2. ASSUME NEW r \in Requests, UNCHANGED vars  PROVE ~Starts(r)
  BY <1>2 DEF vars, worker, Starts
<1>3. IInv /\ [Next]_vars =>
        [\A r \in Requests : Starts(r) => wstep'[r] = saved \/ Shadowed(rproc[r])]_vars
  BY <1>1, <1>2
<1> QED
  BY <1>3, InductiveInvariant, PTL DEF Spec, ResumesUnlessShadowed
=============================================================================
