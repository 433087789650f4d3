-------------------------- MODULE AutomationsProofs --------------------------
(***************************************************************************)
(* Proofs about Automations, part by part, for any number of triggers,     *)
(* processes, requests, events and threads and any bounds. Of its runs:    *)
(* types, what a task leaves behind when it returns, and the count of the  *)
(* failures. Of what makes them start: that events reach an automation,    *)
(* once. Of the accounts: that cleanups leave an active one.               *)
(***************************************************************************)
EXTENDS Automations, SequenceTheorems, FiniteSetTheorems, WellFoundedInduction, TLAPS

----------------------------------------------------------------------------
(* The runs: AutomationRunner.                                              *)


(* The invariant holds at the start. *)
LEMMA InitIInv == Init => IInv
<1> SUFFICES ASSUME Init PROVE IInv
  OBVIOUS
<1> USE RunnerAssumption
<1>1. TypeOK
  <2>1. /\ failures \in Nat /\ current \in Triggers \cup {None} /\ since \subseteq Triggers /\ missed \subseteq Triggers
        /\ crashes \in 0..MaxCrashes /\ errors \in 0..MaxErrors /\ resets \in 0..MaxResets
    BY DEF Init
  <2>6. active \in BOOLEAN /\ raced \in BOOLEAN
    BY Zenon DEF Init
  <2>2. /\ row \in [Triggers -> {"none", "running", "skipped", "success", "failed"}]
        /\ outcome \in [Triggers -> {"success", "failed"}]
        /\ prev \in [Triggers -> Nat]
        /\ proc \in [Triggers -> Procs]
    BY DEF Init
  <2>3. /\ seen \in [Triggers -> [active : BOOLEAN, failures : Nat]]
        /\ busy \in [Triggers -> BOOLEAN]
    BY DEF Init
  <2>4. /\ lock \in [Procs -> Triggers \cup {None}]
        /\ \A p \in Procs : lock[p] # None => proc[lock[p]] = p
    BY DEF Init
  <2>5. pc \in [Triggers -> {"new", "query", "decide", "skip", "insert", "point", "queued",
                             "run", "finish", "record", "bump", "release", "done", "raised",
                             "dead"}]
    BY DEF Init
  <2> QED
    BY <2>1, <2>2, <2>3, <2>4, <2>5, <2>6, Zenon DEF TypeOK
<1>2. LockInv /\ CurrentInv
  BY DEF Init, LockInv, CurrentInv
<1>3. RowInv /\ HistoryInv /\ BrokenInv
  BY FS_EmptySet DEF Init, RowInv, HistoryInv, BrokenInv
<1>4. CountInv
  <2>1. Between = {} /\ since \ Uncounted = {} /\ Cardinality({}) = 0
    BY FS_EmptySet DEF Init, Between, Uncounted
  <2> QED
    BY <2>1 DEF Init, CountInv
<1> QED
  BY <1>1, <1>2, <1>3, <1>4 DEF IInv

(* Every action keeps the types: Get to SetCurrent, what queues a run. *)
LEMMA QueueTypes ==
  ASSUME TypeOK, NEW t \in Triggers,
         Get(t) \/ Query(t) \/ Decide(t) \/ InsertSkipped(t) \/ InsertStart(t) \/ SetCurrent(t)
  PROVE  TypeOK'
<1> USE RunnerAssumption DEF TypeOK, automation, local, bounds, history, Go
<1>1. CASE Get(t)
  BY <1>1 DEF Get
<1>2. CASE Query(t)
  <2>1. /\ UNCHANGED <<active, failures, current, row, proc, seen, outcome, prev, lock,
                       crashes, resets, since, missed, raced>>
        /\ pc' = [pc EXCEPT ![t] = "decide"]
    BY <1>2 DEF Query
  <2>2. errors' \in 0..MaxErrors
    BY <1>2 DEF Query
  <2>3. busy' \in [Triggers -> BOOLEAN]
    BY <1>2, Zenon DEF Query
  <2> QED
    BY <2>1, <2>2, <2>3
<1>3. CASE Decide(t)
  BY <1>3 DEF Decide
<1>4. CASE InsertSkipped(t)
  BY <1>4 DEF InsertSkipped
<1>5. CASE InsertStart(t)
  BY <1>5 DEF InsertStart
<1>6. CASE SetCurrent(t)
  BY <1>6 DEF SetCurrent
<1> QED
  BY <1>1, <1>2, <1>3, <1>4, <1>5, <1>6

(* ... and what executes it. *)
LEMMA ExecuteTypes ==
  ASSUME TypeOK, NEW t \in Triggers,
         Acquire(t) \/ Run(t) \/ FinishRun(t) \/ RecordFailed(t) \/ Bump(t)
           \/ RecordSuccess(t) \/ Release(t) \/ Raise(t)
  PROVE  TypeOK'
<1> USE RunnerAssumption DEF TypeOK, automation, local, bounds, history, Go
<1>1. CASE Acquire(t)
  BY <1>1 DEF Acquire
<1>2. CASE Run(t)
  BY <1>2 DEF Run
<1>3. CASE FinishRun(t)
  BY <1>3 DEF FinishRun
<1>4. CASE RecordFailed(t)
  BY <1>4 DEF RecordFailed
<1>5. CASE Bump(t)
  BY <1>5 DEF Bump
<1>6. CASE RecordSuccess(t)
  BY <1>6 DEF RecordSuccess
<1>7. CASE Release(t)
  BY <1>7 DEF Release, Unlocked
<1>8. CASE Raise(t)
  BY <1>8 DEF Raise, Unlocked
<1> QED
  BY <1>1, <1>2, <1>3, <1>4, <1>5, <1>6, <1>7, <1>8

(* ... and the death of a process or a change by the user. *)
LEMMA WorldTypes ==
  ASSUME TypeOK, Patch \/ \E p \in Procs : Crash(p)
  PROVE  TypeOK'
<1> USE RunnerAssumption DEF TypeOK, automation, local, bounds, history
<1>1. CASE Patch
  <2>1. /\ UNCHANGED <<current, row, pc, proc, seen, busy, outcome, prev, lock, crashes, errors>>
        /\ active' \in BOOLEAN
    BY <1>1 DEF Patch
  <2>2. resets' \in 0..MaxResets
    BY <1>1 DEF Patch
  <2>3. failures' \in Nat /\ since' \subseteq Triggers /\ missed' \subseteq Triggers
    BY <1>1 DEF Patch
  <2>4. raced' \in BOOLEAN
    BY <1>1, Zenon DEF Patch
  <2> QED
    BY <2>1, <2>2, <2>3, <2>4
<1>2. ASSUME NEW p \in Procs, Crash(p) PROVE TypeOK'
  <2>1. missed' \subseteq Triggers
    BY <1>2 DEF Crash, Between
  <2> QED
    BY <1>2, <2>1 DEF Crash
<1> QED
  BY <1>1, <1>2
(* Every step keeps the types. *)
LEMMA StepTypes ==
  ASSUME TypeOK, Next PROVE TypeOK'
BY QueueTypes, ExecuteTypes, WorldTypes DEF Next, Work

(* A lock is taken by a task that executes, and given back as it returns, raises or dies. *)
LEMMA StepLock ==
  ASSUME IInv, Next PROVE LockInv'
<1> USE RunnerAssumption DEF IInv, TypeOK, LockInv, Executing, automation, local, bounds, history, Go
<1>1. ASSUME NEW t \in Triggers, Get(t) PROVE LockInv'
  BY <1>1 DEF Get
<1>2. ASSUME NEW t \in Triggers, Query(t) PROVE LockInv'
  BY <1>2 DEF Query
<1>3. ASSUME NEW t \in Triggers, Decide(t) PROVE LockInv'
  BY <1>3 DEF Decide
<1>4. ASSUME NEW t \in Triggers, InsertSkipped(t) PROVE LockInv'
  BY <1>4 DEF InsertSkipped
<1>5. ASSUME NEW t \in Triggers, InsertStart(t) PROVE LockInv'
  BY <1>5 DEF InsertStart
<1>6. ASSUME NEW t \in Triggers, SetCurrent(t) PROVE LockInv'
  BY <1>6 DEF SetCurrent
<1>7. ASSUME NEW t \in Triggers, Acquire(t) PROVE LockInv'
  BY <1>7 DEF Acquire
<1>8. ASSUME NEW t \in Triggers, Run(t) PROVE LockInv'
  BY <1>8 DEF Run
<1>9. ASSUME NEW t \in Triggers, FinishRun(t) PROVE LockInv'
  BY <1>9 DEF FinishRun
<1>10. ASSUME NEW t \in Triggers, RecordFailed(t) PROVE LockInv'
  BY <1>10 DEF RecordFailed
<1>11. ASSUME NEW t \in Triggers, Bump(t) PROVE LockInv'
  BY <1>11 DEF Bump
<1>12. ASSUME NEW t \in Triggers, RecordSuccess(t) PROVE LockInv'
  BY <1>12 DEF RecordSuccess
<1>13. ASSUME NEW t \in Triggers, Release(t) PROVE LockInv'
  BY <1>13 DEF Release, Unlocked
<1>14. ASSUME NEW t \in Triggers, Raise(t) PROVE LockInv'
  BY <1>14 DEF Raise, Unlocked
<1>15. CASE Patch
  BY <1>15 DEF Patch
<1>16. ASSUME NEW p \in Procs, Crash(p) PROVE LockInv'
  BY <1>16 DEF Crash
<1> QED
  BY <1>1, <1>2, <1>3, <1>4, <1>5, <1>6, <1>7, <1>8, <1>9, <1>10, <1>11, <1>12,
     <1>13, <1>14, <1>15, <1>16 DEF Next, Work

(* Only SetCurrent points the automation at a run, and every recording of a run clears it. *)
LEMMA StepCurrent ==
  ASSUME IInv, Next PROVE CurrentInv'
<1> USE RunnerAssumption DEF IInv, TypeOK, CurrentInv, automation, local, bounds, history, Go
<1>1. ASSUME NEW t \in Triggers, Get(t) PROVE CurrentInv'
  BY <1>1 DEF Get
<1>2. ASSUME NEW t \in Triggers, Query(t) PROVE CurrentInv'
  BY <1>2 DEF Query
<1>3. ASSUME NEW t \in Triggers, Decide(t) PROVE CurrentInv'
  BY <1>3 DEF Decide
<1>4. ASSUME NEW t \in Triggers, InsertSkipped(t) PROVE CurrentInv'
  BY <1>4 DEF InsertSkipped
<1>5. ASSUME NEW t \in Triggers, InsertStart(t) PROVE CurrentInv'
  BY <1>5 DEF InsertStart
<1>6. ASSUME NEW t \in Triggers, SetCurrent(t) PROVE CurrentInv'
  BY <1>6 DEF SetCurrent
<1>7. ASSUME NEW t \in Triggers, Acquire(t) PROVE CurrentInv'
  BY <1>7 DEF Acquire
<1>8. ASSUME NEW t \in Triggers, Run(t) PROVE CurrentInv'
  BY <1>8 DEF Run
<1>9. ASSUME NEW t \in Triggers, FinishRun(t) PROVE CurrentInv'
  BY <1>9 DEF FinishRun
<1>10. ASSUME NEW t \in Triggers, RecordFailed(t) PROVE CurrentInv'
  BY <1>10 DEF RecordFailed
<1>11. ASSUME NEW t \in Triggers, Bump(t) PROVE CurrentInv'
  BY <1>11 DEF Bump
<1>12. ASSUME NEW t \in Triggers, RecordSuccess(t) PROVE CurrentInv'
  BY <1>12 DEF RecordSuccess
<1>13. ASSUME NEW t \in Triggers, Release(t) PROVE CurrentInv'
  BY <1>13 DEF Release
<1>14. ASSUME NEW t \in Triggers, Raise(t) PROVE CurrentInv'
  BY <1>14 DEF Raise
<1>15. CASE Patch
  BY <1>15 DEF Patch
<1>16. ASSUME NEW p \in Procs, Crash(p) PROVE CurrentInv'
  BY <1>16 DEF Crash
<1> QED
  BY <1>1, <1>2, <1>3, <1>4, <1>5, <1>6, <1>7, <1>8, <1>9, <1>10, <1>11, <1>12,
     <1>13, <1>14, <1>15, <1>16 DEF Next, Work

(* A row is written by its own trigger alone. *)
LEMMA StepRow ==
  ASSUME IInv, Next PROVE RowInv'
<1> USE RunnerAssumption DEF IInv, TypeOK, RowInv, automation, local, bounds, history, Go
<1>1. ASSUME NEW t \in Triggers, Get(t) PROVE RowInv'
  BY <1>1 DEF Get
<1>2. ASSUME NEW t \in Triggers, Query(t) PROVE RowInv'
  BY <1>2 DEF Query
<1>3. ASSUME NEW t \in Triggers, Decide(t) PROVE RowInv'
  BY <1>3 DEF Decide
<1>4. ASSUME NEW t \in Triggers, InsertSkipped(t) PROVE RowInv'
  BY <1>4 DEF InsertSkipped
<1>5. ASSUME NEW t \in Triggers, InsertStart(t) PROVE RowInv'
  BY <1>5 DEF InsertStart
<1>6. ASSUME NEW t \in Triggers, SetCurrent(t) PROVE RowInv'
  BY <1>6 DEF SetCurrent
<1>7. ASSUME NEW t \in Triggers, Acquire(t) PROVE RowInv'
  BY <1>7 DEF Acquire
<1>8. ASSUME NEW t \in Triggers, Run(t) PROVE RowInv'
  BY <1>8 DEF Run
<1>9. ASSUME NEW t \in Triggers, FinishRun(t) PROVE RowInv'
  BY <1>9 DEF FinishRun
<1>10. ASSUME NEW t \in Triggers, RecordFailed(t) PROVE RowInv'
  BY <1>10 DEF RecordFailed
<1>11. ASSUME NEW t \in Triggers, Bump(t) PROVE RowInv'
  BY <1>11 DEF Bump
<1>12. ASSUME NEW t \in Triggers, RecordSuccess(t) PROVE RowInv'
  BY <1>12 DEF RecordSuccess
<1>13. ASSUME NEW t \in Triggers, Release(t) PROVE RowInv'
  BY <1>13 DEF Release
<1>14. ASSUME NEW t \in Triggers, Raise(t) PROVE RowInv'
  BY <1>14 DEF Raise
<1>15. CASE Patch
  BY <1>15 DEF Patch
<1>16. ASSUME NEW p \in Procs, Crash(p) PROVE RowInv'
  BY <1>16 DEF Crash
<1> QED
  BY <1>1, <1>2, <1>3, <1>4, <1>5, <1>6, <1>7, <1>8, <1>9, <1>10, <1>11, <1>12,
     <1>13, <1>14, <1>15, <1>16 DEF Next, Work

(* Steps that neither close a run nor count its end leave the histories be. *)
LEMMA StepHistory ==
  ASSUME IInv, Next PROVE HistoryInv' /\ BrokenInv'
<1> USE RunnerAssumption DEF IInv, TypeOK, HistoryInv, BrokenInv, automation, local, bounds, history, Go
<1>1. ASSUME NEW t \in Triggers, Get(t) PROVE HistoryInv' /\ BrokenInv'
  BY <1>1 DEF Get
<1>2. ASSUME NEW t \in Triggers, Query(t) PROVE HistoryInv' /\ BrokenInv'
  BY <1>2 DEF Query
<1>3. ASSUME NEW t \in Triggers, Decide(t) PROVE HistoryInv' /\ BrokenInv'
  BY <1>3 DEF Decide
<1>4. ASSUME NEW t \in Triggers, InsertSkipped(t) PROVE HistoryInv' /\ BrokenInv'
  BY <1>4 DEF InsertSkipped
<1>5. ASSUME NEW t \in Triggers, InsertStart(t) PROVE HistoryInv' /\ BrokenInv'
  BY <1>5 DEF InsertStart
<1>6. ASSUME NEW t \in Triggers, SetCurrent(t) PROVE HistoryInv' /\ BrokenInv'
  BY <1>6 DEF SetCurrent
<1>7. ASSUME NEW t \in Triggers, Acquire(t) PROVE HistoryInv' /\ BrokenInv'
  BY <1>7 DEF Acquire
<1>8. ASSUME NEW t \in Triggers, Run(t) PROVE HistoryInv' /\ BrokenInv'
  BY <1>8 DEF Run
<1>9. ASSUME NEW t \in Triggers, FinishRun(t) PROVE HistoryInv' /\ BrokenInv'
  <2>1. /\ since' \subseteq since \cup {t} /\ missed' \subseteq missed /\ UNCHANGED <<errors, crashes>>
        /\ pc[t] = "finish" /\ pc' = [pc EXCEPT ![t] = "record"]
    BY <1>9 DEF FinishRun
  <2>2. IsFiniteSet(since')
    BY <2>1, FS_AddElement, FS_Subset
  <2> QED
    BY <2>1, <2>2
<1>10. ASSUME NEW t \in Triggers, RecordFailed(t) PROVE HistoryInv' /\ BrokenInv'
  BY <1>10 DEF RecordFailed
<1>11. ASSUME NEW t \in Triggers, Bump(t) PROVE HistoryInv' /\ BrokenInv'
  BY <1>11 DEF Bump
<1>12. ASSUME NEW t \in Triggers, RecordSuccess(t) PROVE HistoryInv' /\ BrokenInv'
  BY <1>12 DEF RecordSuccess
<1>13. ASSUME NEW t \in Triggers, Release(t) PROVE HistoryInv' /\ BrokenInv'
  BY <1>13 DEF Release
<1>14. ASSUME NEW t \in Triggers, Raise(t) PROVE HistoryInv' /\ BrokenInv'
  BY <1>14 DEF Raise, Between
<1>15. CASE Patch
  BY <1>15, FS_EmptySet DEF Patch
<1>16. ASSUME NEW p \in Procs, Crash(p) PROVE HistoryInv' /\ BrokenInv'
  <2>1. since' = since /\ \A t \in Triggers : pc[t] \in {"record", "bump", "release", "done", "raised", "dead"}
                             => pc'[t] \in {"record", "bump", "release", "done", "raised", "dead"}
    BY <1>16 DEF Crash
  <2>2. \A t \in missed' : t \in missed \/ (t \in Between /\ proc[t] = p)
    BY <1>16 DEF Crash
  <2>3. \A t \in missed' : pc'[t] \in {"raised", "dead"}
    BY <1>16, <2>2 DEF Crash, Between
  <2>4. errors' + crashes' > 0
    BY <1>16 DEF Crash
  <2> QED
    BY <2>1, <2>3, <2>4
<1> QED
  BY <1>1, <1>2, <1>3, <1>4, <1>5, <1>6, <1>7, <1>8, <1>9, <1>10, <1>11, <1>12,
     <1>13, <1>14, <1>15, <1>16 DEF Next, Work

(* A step that leaves alone what is counted, and who is about to count. *)
LEMMA CountStays ==
  ASSUME CountInv, UNCHANGED <<failures, prev, since, missed, raced>>,
         Between' = Between,
         \A t \in Triggers : pc'[t] = "bump" => pc[t] = "bump" /\ outcome'[t] = outcome[t],
         \A t \in Uncounted : outcome'[t] = outcome[t]
  PROVE  CountInv'
<1>1. Uncounted' = Uncounted
  BY DEF Uncounted
<1> HIDE DEF Uncounted, Between
<1>2. Between \subseteq Uncounted
  BY DEF Uncounted
<1> QED
  BY <1>1, <1>2 DEF CountInv

(* Ends that will never be counted stay uncounted. *)
LEMMA CountMisses ==
  ASSUME CountInv, UNCHANGED <<failures, prev, outcome, since, raced>>,
         NEW S, Between' = Between \ S, missed' = missed \cup (Between \cap S),
         \A t \in Triggers : pc'[t] = "bump" => pc[t] = "bump"
  PROVE  CountInv'
<1>1. Uncounted' = Uncounted
  BY DEF Uncounted
<1> HIDE DEF Uncounted, Between
<1> QED
  BY <1>1 DEF CountInv

(* A count of an end, while other ends are not counted, sets raced. *)
LEMMA StepCount ==
  ASSUME IInv, Next PROVE CountInv'
<1> USE RunnerAssumption DEF IInv, TypeOK, automation, local, bounds, history, Go
<1>1. ASSUME NEW t \in Triggers, Get(t) PROVE CountInv'
  BY <1>1, CountStays DEF Get, Between, HistoryInv
<1>2. ASSUME NEW t \in Triggers, Query(t) PROVE CountInv'
  BY <1>2, CountStays DEF Query, Between
<1>3. ASSUME NEW t \in Triggers, Decide(t) PROVE CountInv'
  BY <1>3, CountStays DEF Decide, Between
<1>4. ASSUME NEW t \in Triggers, InsertSkipped(t) PROVE CountInv'
  BY <1>4, CountStays DEF InsertSkipped, Between
<1>5. ASSUME NEW t \in Triggers, InsertStart(t) PROVE CountInv'
  BY <1>5, CountStays DEF InsertStart, Between
<1>6. ASSUME NEW t \in Triggers, SetCurrent(t) PROVE CountInv'
  BY <1>6, CountStays DEF SetCurrent, Between
<1>7. ASSUME NEW t \in Triggers, Acquire(t) PROVE CountInv'
  BY <1>7, CountStays DEF Acquire, Between
<1>8. ASSUME NEW t \in Triggers, Run(t) PROVE CountInv'
  <2>1. \A u \in Uncounted : u # t
    BY <1>8 DEF Run, Uncounted, Between, HistoryInv
  <2>2. Between' = Between
    BY <1>8 DEF Run, Between
  <2> QED
    BY <1>8, <2>1, <2>2, CountStays DEF Run
<1>9. ASSUME NEW t \in Triggers, FinishRun(t) PROVE CountInv'
  <2>1. Between' = Between \cup {t} /\ t \notin Between /\ t \notin since /\ t \notin missed
    BY <1>9 DEF FinishRun, Between, HistoryInv
  <2>2. /\ UNCHANGED <<failures, prev, outcome>>
        /\ \A u \in Triggers : pc'[u] = "bump" => pc[u] = "bump"
    BY <1>9 DEF FinishRun
  <2>3. ~raced' => ~raced /\ \A u \in Between : outcome[u] = outcome[t]
    BY <1>9, Zenon DEF FinishRun
  <2>4. CASE outcome[t] = "failed"
    <3>1. since' = since \cup {t} /\ missed' = missed
      BY <1>9, <2>4 DEF FinishRun
    <3>2. Uncounted' = Uncounted \cup {t}
      BY <2>1, <3>1 DEF Uncounted
    <3>3. since' \ Uncounted' = since \ Uncounted
      BY <3>1, <3>2, <2>1 DEF Uncounted
    <3> HIDE DEF Uncounted, Between
    <3> QED
      BY <2>1, <2>2, <2>3, <2>4, <3>1, <3>2, <3>3 DEF CountInv
  <2>5. CASE outcome[t] = "success"
    <3>1. since' = {}
      BY <1>9, <2>5 DEF FinishRun
    <3>2. t \in Uncounted'
      BY <2>1 DEF Uncounted
    <3> HIDE DEF Uncounted, Between
    <3> QED
      BY <2>1, <2>2, <2>3, <2>5, <3>1, <3>2 DEF CountInv
  <2> QED
    BY <2>4, <2>5
<1>10. ASSUME NEW t \in Triggers, RecordFailed(t) PROVE CountInv'
  <2>1. Between' = Between
    BY <1>10 DEF RecordFailed, Between
  <2>2. Uncounted' = Uncounted
    BY <1>10, <2>1 DEF RecordFailed, Uncounted
  <2> HIDE DEF Uncounted, Between
  <2> QED
    BY <1>10, <2>1, <2>2 DEF RecordFailed, CountInv
<1>11. ASSUME NEW t \in Triggers, Bump(t) PROVE CountInv'
  <2>1. /\ Between' = Between \ {t} /\ t \in Between /\ t \notin missed
        /\ UNCHANGED <<outcome, since, missed, prev>>
        /\ failures' = prev[t] + 1
        /\ \A u \in Triggers : pc'[u] = "bump" => pc[u] = "bump" /\ u # t
    BY <1>11 DEF Bump, Between, HistoryInv
  <2>2. ~raced' => ~raced /\ \A u \in Triggers : u # t => pc[u] # "bump"
    BY <1>11, Zenon DEF Bump, BetweenReadAndWrite
  <2>3. ASSUME ~raced' PROVE CountInv'
    <3>1. /\ pc[t] = "bump" /\ prev[t] = failures /\ outcome[t] = "failed" /\ t \in since
          /\ (\A u \in Uncounted : outcome[u] = "failed") => failures = Cardinality(since \ Uncounted)
      BY <1>11, <2>1, <2>2, <2>3 DEF CountInv, Bump
    <3>2. Uncounted' = Uncounted \ {t} /\ t \in Uncounted
      BY <2>1 DEF Uncounted
    <3> HIDE DEF Uncounted, Between
    <3>3. since' \ Uncounted' = (since \ Uncounted) \cup {t} /\ t \notin since \ Uncounted
      BY <2>1, <3>1, <3>2
    <3>4. IsFiniteSet(since \ Uncounted)
      BY FS_Difference DEF HistoryInv
    <3>5. Cardinality(since' \ Uncounted') = Cardinality(since \ Uncounted) + 1
      BY <3>3, <3>4, FS_AddElement
    <3>6. (\A u \in Uncounted' : outcome'[u] = "failed") => failures' = Cardinality(since' \ Uncounted')
      BY <2>1, <3>1, <3>2, <3>5
    <3>7. /\ \A u, w \in Between' : outcome'[u] = outcome'[w]
          /\ \A u \in Between' : IF outcome'[u] = "failed" THEN u \in since' ELSE since' = {}
      BY <2>1, <2>2, <2>3 DEF CountInv
    <3>8. \A u \in Triggers : pc'[u] # "bump"
      BY <2>1, <2>2, <2>3
    <3> QED
      BY <3>6, <3>7, <3>8 DEF CountInv
  <2> QED
    BY <2>3 DEF CountInv
<1>12. ASSUME NEW t \in Triggers, RecordSuccess(t) PROVE CountInv'
  <2>1. /\ Between' = Between \ {t} /\ t \in Between /\ outcome[t] = "success"
        /\ UNCHANGED <<outcome, since, missed, prev>>
        /\ failures' = 0
        /\ \A u \in Triggers : pc'[u] = "bump" => pc[u] = "bump" /\ u # t
    BY <1>12 DEF RecordSuccess, Between
  <2>2. ~raced' => ~raced /\ \A u \in Triggers : u # t => pc[u] # "bump"
    BY <1>12, Zenon DEF RecordSuccess, BetweenReadAndWrite
  <2>3. ASSUME ~raced' PROVE CountInv'
    <3>1. since = {}
      BY <2>1, <2>2, <2>3 DEF CountInv
    <3> HIDE DEF Uncounted, Between
    <3>2. since' \ Uncounted' = {} /\ Cardinality({}) = 0
      BY <2>1, <3>1, FS_EmptySet
    <3>3. /\ \A u, w \in Between' : outcome'[u] = outcome'[w]
          /\ \A u \in Between' : IF outcome'[u] = "failed" THEN u \in since' ELSE since' = {}
      BY <2>1, <2>2, <2>3 DEF CountInv
    <3>4. \A u \in Triggers : pc'[u] # "bump"
      BY <2>1, <2>2, <2>3
    <3> QED
      BY <2>1, <3>2, <3>3, <3>4 DEF CountInv
  <2> QED
    BY <2>3 DEF CountInv
<1>13. ASSUME NEW t \in Triggers, Release(t) PROVE CountInv'
  BY <1>13, CountStays DEF Release, Between
<1>14. ASSUME NEW t \in Triggers, Raise(t) PROVE CountInv'
  <2>1. /\ Between' = Between \ {t} /\ missed' = missed \cup (Between \cap {t})
        /\ UNCHANGED <<failures, prev, outcome, since, raced>>
        /\ \A u \in Triggers : pc'[u] = "bump" => pc[u] = "bump"
    BY <1>14 DEF Raise, Between
  <2> QED
    BY <2>1, CountMisses
<1>15. CASE Patch
  <2>1. CASE UNCHANGED <<failures, history>>
    BY <1>15, <2>1, CountStays DEF Patch, Between
  <2>2. CASE failures' = 0 /\ since' = {} /\ missed' = {} /\ raced' = (raced \/ Between # {})
    <3>1. Between' = Between /\ pc' = pc
      BY <1>15 DEF Patch, Between
    <3>2. ~raced' => Between = {}
      BY <2>2, Zenon
    <3>3. ~raced' => \A t \in Triggers : pc'[t] # "bump"
      BY <3>1, <3>2 DEF Between
    <3>4. since' \ Uncounted' = {} /\ Cardinality({}) = 0
      BY <2>2, FS_EmptySet
    <3> HIDE DEF Uncounted, Between
    <3> QED
      BY <2>2, <3>1, <3>2, <3>3, <3>4 DEF CountInv
  <2> QED
    BY <1>15, <2>1, <2>2, Zenon DEF Patch
<1>16. ASSUME NEW p \in Procs, Crash(p) PROVE CountInv'
  <2> DEFINE S == {t \in Triggers : proc[t] = p}
  <2>1. /\ Between' = Between \ S
        /\ missed' = missed \cup (Between \cap S)
        /\ UNCHANGED <<failures, prev, outcome, since, raced>>
    BY <1>16 DEF Crash, Between
  <2>2. \A u \in Triggers : pc'[u] = "bump" => pc[u] = "bump"
    BY <1>16 DEF Crash
  <2> HIDE DEF S
  <2> QED
    BY <2>1, <2>2, CountMisses
<1> QED
  BY <1>1, <1>2, <1>3, <1>4, <1>5, <1>6, <1>7, <1>8, <1>9, <1>10, <1>11, <1>12,
     <1>13, <1>14, <1>15, <1>16 DEF Next, Work

(* No step disturbs the invariant. *)
LEMMA StepIInv ==
  ASSUME IInv, [Next]_vars PROVE IInv'
<1>1. CASE Next
  <2>1. TypeOK'
    BY <1>1, StepTypes DEF IInv
  <2> QED
    BY <1>1, <2>1, StepLock, StepCurrent, StepRow, StepHistory, StepCount DEF IInv
<1>2. CASE UNCHANGED vars
  BY <1>2 DEF IInv, TypeOK, LockInv, Executing, CurrentInv, RowInv, HistoryInv, CountInv,
              BrokenInv, Between, Uncounted, vars, automation, local, bounds, history
<1> QED
  BY <1>1, <1>2

(* The invariant holds in every reachable state. *)
THEOREM InductiveInvariant == Spec => []IInv
<1>1. Init => IInv
  BY InitIInv
<1>2. IInv /\ [Next]_vars => IInv'
  BY StepIInv
<1> QED
  BY <1>1, <1>2, PTL DEF Spec

(* The variables have their types, and a lock is held by a task of its own *)
(* process.                                                                *)
THEOREM TypeCorrect == Spec => []TypeOK
<1>1. IInv => TypeOK
  BY DEF IInv
<1> QED
  BY <1>1, InductiveInvariant, PTL

(* Whatever way a run ends it does not hold the lock; a row is open, or    *)
(* pointed at, only while its run is under way or after a call of it       *)
(* raised or its process died; a run that returned has closed its row.     *)
THEOREM Returned == Spec => []Settled
<1>1. IInv => Settled
  BY DEF IInv, TypeOK, LockInv, CurrentInv, RowInv, BrokenInv, Broken, Settled, Executing
<1> QED
  BY <1>1, InductiveInvariant, PTL

(* For any number of runs that overlap, fail or die: the failures counted  *)
(* are the rows closed as failed since the last success or reset, less     *)
(* those whose end is not counted yet or never will be because a call      *)
(* raised or the process died in between -- unless such an end was a       *)
(* success, or ends were counted at once or out of order.                  *)
THEOREM ExactCount == Spec => []FailuresExact
<1>1. IInv => FailuresExact
  BY DEF IInv, CountInv, FailuresExact
<1> QED
  BY <1>1, InductiveInvariant, PTL
----------------------------------------------------------------------------
(* What makes the runs start: AutomationTriggers.                           *)

CauseTypes ==
    /\ scene \in CauseScenes
    /\ saved \in [there : BOOLEAN, active : BOOLEAN, cron : Nat]
    /\ handlers \in [Cause!Handlers \cup Cause!Processes -> {"idle", "sync", "apply", "switch", "write", "done"}]
    /\ doing \in [Cause!Handlers -> Cause!Changes \cup {"none", "create"}]
    /\ \A c \in Cause!Handlers : handlers[c] \in {"switch", "write"} => doing[c] # "none"
    /\ event \in [Cause!Events -> {"new", "found", "claimed", "queued", "skipped", "lost", "gone", "404", "409", "500"}]
    /\ claims \in [Cause!Processes -> SUBSET {scene.key[e] : e \in Cause!Events}]
    /\ counts \in [changes : Nat, calls : Nat, deaths : Nat, expiries : Nat]
    /\ torn \in BOOLEAN /\ untold \in BOOLEAN

\* Until something is torn, one handler changes the automation at a time.
AloneInv ==
    ~torn => \A c, d \in Cause!Handlers :
        handlers[c] \notin {"idle", "done"} /\ handlers[d] \notin {"idle", "done"} => c = d

\* What Composio has to know of the row, and what it knows already while a
\* handler is about to write that row.
Told ==
    IF saved.there THEN trigger \in {"enabled", "disabled"} /\ (saved.active => trigger = "enabled")
    ELSE trigger \in {"none", "gone"}
ToldFirst(c) ==
    \/ doing[c] = "create" /\ ~saved.there /\ trigger = "enabled"
    \/ doing[c] = "pause" /\ saved.there /\ trigger = "disabled"
    \/ doing[c] = "resume" /\ saved.there /\ trigger = "enabled"
    \/ doing[c] = "delete" /\ saved.there /\ trigger = "gone"
SwitchInv ==
    scene.mode = "composio" /\ ~torn /\ ~untold =>
        /\ (\A c \in Cause!Handlers : handlers[c] # "write") => Told
        /\ \A c \in Cause!Handlers :
              /\ handlers[c] = "switch" => doing[c] \in (IF saved.there THEN {"pause", "resume", "delete"} ELSE {"create"})
              /\ handlers[c] = "write" => ToldFirst(c)

\* A delivery that got past the claim has its key among the claims, alone.
Past(e) == event[e] \in {"claimed", "queued"}
ClaimInv ==
    scene.mode = "webhook" /\ counts.deaths = 0 /\ counts.expiries = 0 =>
        /\ \A e \in Cause!Events : Past(e) => scene.key[e] \in claims[scene.to[e]]
        /\ \A e, f \in Cause!Events :
              Past(e) /\ Past(f) /\ scene.to[e] = scene.to[f] /\ scene.key[e] = scene.key[f] => e = f

CauseInv == CauseTypes /\ AloneInv /\ SwitchInv /\ ClaimInv

\* The invariant holds at the start.
LEMMA CauseStarts == Cause!Init => CauseInv
<1> SUFFICES ASSUME Cause!Init PROVE CauseInv
  OBVIOUS
<1> USE CauseAssumption DEF Cause!Init, Cause!Handlers, Cause!Processes, Cause!Events, Cause!Changes
<1>1. CauseTypes
  BY DEF CauseTypes
<1>2. AloneInv /\ SwitchInv
  BY DEF AloneInv, SwitchInv, Told
<1>3. ClaimInv
  BY DEF ClaimInv, Past
<1> QED  BY <1>1, <1>2, <1>3 DEF CauseInv

\* A call that fails tears the automation, and is neither a death nor the end
\* of a claim.
LEMMA CallFailed ==
    ASSUME CauseTypes, Cause!CallFails
    PROVE  /\ counts' \in [changes : Nat, calls : Nat, deaths : Nat, expiries : Nat]
           /\ counts'.deaths = counts.deaths /\ counts'.expiries = counts.expiries
           /\ torn' \in BOOLEAN /\ (torn => torn') /\ UNCHANGED untold
<1>1. /\ counts' \in [changes : Nat, calls : Nat, deaths : Nat, expiries : Nat]
      /\ counts'.deaths = counts.deaths /\ counts'.expiries = counts.expiries
  BY DEF CauseTypes, Cause!CallFails
<1>2. torn' = TRUE /\ UNCHANGED untold
  BY DEF Cause!CallFails
<1> QED  BY <1>1, <1>2

\* The scheduler: the handlers and processes only sync.
LEMMA CauseSchedules ==
    ASSUME CauseInv,
           \/ Cause!Tick \/ Cause!TickReads \/ Cause!TickQueues
           \/ \E p \in Cause!Processes : Cause!Start(p) \/ Cause!Resync(p)
           \/ \E k \in DOMAIN handlers : Cause!List(k) \/ Cause!Apply(k)
    PROVE  CauseInv'
<1> USE DEF CauseInv, Cause!Handlers, Cause!Processes, Cause!Events, Cause!Changes
<1>1. /\ UNCHANGED <<scene, saved, trigger, doing, event, claims, untold>>
      /\ counts' \in [changes : Nat, calls : Nat, deaths : Nat, expiries : Nat]
      /\ counts'.deaths = counts.deaths /\ counts'.expiries = counts.expiries
      /\ torn' \in BOOLEAN /\ (torn => torn')
  <2>1. CASE Cause!Tick \/ Cause!TickReads \/ Cause!TickQueues
    BY <2>1 DEF CauseTypes, Cause!Tick, Cause!TickReads, Cause!TickQueues, Cause!handling, Cause!events, Cause!history
  <2>2. CASE \E p \in Cause!Processes : Cause!Start(p) \/ Cause!Resync(p)
    BY <2>2 DEF CauseTypes, Cause!Start, Cause!Resync, Cause!events, Cause!schedule, Cause!history
  <2>3. CASE \E k \in DOMAIN handlers : Cause!List(k) \/ Cause!Apply(k)
    <3>1. UNCHANGED <<scene, saved, trigger, doing, event, claims>>
      BY <2>3 DEF Cause!List, Cause!Apply, Cause!events
    <3>2. UNCHANGED <<counts, torn, untold>> \/ Cause!CallFails
      BY <2>3 DEF Cause!List, Cause!Apply, Cause!history
    <3> QED  BY <3>1, <3>2, CallFailed DEF CauseTypes
  <2> QED  BY <2>1, <2>2, <2>3
<1>2. /\ handlers' \in [Cause!Handlers \cup Cause!Processes -> {"idle", "sync", "apply", "switch", "write", "done"}]
      /\ \A c \in Cause!Handlers :
            \/ handlers'[c] = handlers[c]
            \/ handlers[c] \in {"sync", "apply"} /\ handlers'[c] \in {"apply", "idle", "done"}
  <2>1. CASE Cause!Tick \/ Cause!TickReads \/ Cause!TickQueues
    BY <2>1 DEF CauseTypes, Cause!Tick, Cause!TickReads, Cause!TickQueues, Cause!handling
  <2>2. CASE \E p \in Cause!Processes : Cause!Start(p) \/ Cause!Resync(p)
    <3>1. Cause!Handlers \cap Cause!Processes = {}
      BY CauseAssumption DEF CauseTypes
    <3> QED  BY <2>2, <3>1 DEF CauseTypes, Cause!Start, Cause!Resync, Cause!Go
  <2>3. CASE \E k \in DOMAIN handlers : Cause!List(k) \/ Cause!Apply(k)
    BY <2>3 DEF CauseTypes, Cause!List, Cause!Apply, Cause!Go, Cause!After
  <2> QED  BY <2>1, <2>2, <2>3
<1>3. CauseTypes'
  BY <1>1, <1>2 DEF CauseTypes
<1>4. AloneInv'
  BY <1>1, <1>2 DEF AloneInv, CauseTypes
<1>5. SwitchInv'
  <2> SUFFICES ASSUME scene.mode = "composio", ~torn, ~untold PROVE SwitchInv'
    BY <1>1 DEF SwitchInv
  <2>1. \A c \in Cause!Handlers : ToldFirst(c)' = ToldFirst(c)
    BY <1>1 DEF ToldFirst
  <2>2. Told' = Told
    BY <1>1 DEF Told
  <2>3. \A c \in Cause!Handlers : /\ handlers'[c] = "write" <=> handlers[c] = "write"
                                  /\ handlers'[c] = "switch" <=> handlers[c] = "switch"
    BY <1>2
  <2> QED  BY <1>1, <2>1, <2>2, <2>3 DEF SwitchInv
<1>6. ClaimInv'
  BY <1>1 DEF ClaimInv, Past
<1> QED  BY <1>3, <1>4, <1>5, <1>6

\* What leaves the handlers and the row alone: events, claims that expire.
LEMMA CauseDelivers ==
    ASSUME CauseInv,
           \/ \E p \in Cause!Processes : Cause!Expire(p)
           \/ \E e \in Cause!Events :
                  Cause!Arrives(e) \/ Cause!ClaimIdempotency(e) \/ Cause!ArrivesFromComposio(e) \/ Cause!Queue(e)
    PROVE  CauseInv'
<1> USE DEF CauseInv, Cause!Handlers, Cause!Processes, Cause!Events, Cause!Changes
<1>1. /\ UNCHANGED <<scene, saved, trigger, handlers, doing, untold>>
      /\ torn' \in BOOLEAN /\ (torn => torn')
  <2>1. CASE \E p \in Cause!Processes : Cause!Expire(p)
    BY <2>1 DEF CauseTypes, Cause!Expire, Cause!handling, Cause!history
  <2>2. CASE \E e \in Cause!Events :
                Cause!Arrives(e) \/ Cause!ClaimIdempotency(e) \/ Cause!ArrivesFromComposio(e) \/ Cause!Queue(e)
    <3>1. /\ UNCHANGED <<scene, saved, trigger, handlers, doing>>
          /\ UNCHANGED <<torn, untold>> \/ Cause!CallFails
      BY <2>2 DEF Cause!Arrives, Cause!ClaimIdempotency, Cause!ArrivesFromComposio, Cause!Queue,
                  Cause!handling, Cause!history
    <3> QED  BY <3>1, CallFailed DEF CauseTypes
  <2> QED  BY <2>1, <2>2
<1>2. /\ event' \in [Cause!Events -> {"new", "found", "claimed", "queued", "skipped", "lost", "gone", "404", "409", "500"}]
      /\ claims' \in [Cause!Processes -> SUBSET {scene.key[e] : e \in Cause!Events}]
      /\ counts' \in [changes : Nat, calls : Nat, deaths : Nat, expiries : Nat]
  <2>1. CASE \E p \in Cause!Processes : Cause!Expire(p)
    BY <2>1 DEF CauseTypes, Cause!Expire
  <2>2. CASE \E e \in Cause!Events : Cause!Arrives(e) \/ Cause!ArrivesFromComposio(e)
    BY <2>2 DEF CauseTypes, Cause!Arrives, Cause!ArrivesFromComposio, Cause!At
  <2>3. CASE \E e \in Cause!Events : Cause!ClaimIdempotency(e)
    <3>1. PICK e \in Cause!Events : Cause!ClaimIdempotency(e)
      BY <2>3
    <3>2. /\ \E where \in {"409", "claimed"} : event' = [event EXCEPT ![e] = where]
          /\ claims' = claims \/ claims' = [claims EXCEPT ![scene.to[e]] = @ \cup {scene.key[e]}]
          /\ counts' = counts
      BY <3>1 DEF Cause!ClaimIdempotency, Cause!At
    <3>3. event' \in [Cause!Events -> {"new", "found", "claimed", "queued", "skipped", "lost", "gone", "404", "409", "500"}]
      BY <3>2 DEF CauseTypes
    <3>4. claims' \in [Cause!Processes -> SUBSET {scene.key[f] : f \in Cause!Events}]
      BY <3>2 DEF CauseTypes
    <3> QED  BY <3>2, <3>3, <3>4 DEF CauseTypes
  <2>4. CASE \E e \in Cause!Events : Cause!Queue(e)
    BY <2>4 DEF CauseTypes, Cause!Queue, Cause!At, Cause!CallFails
  <2> QED  BY <2>1, <2>2, <2>3, <2>4
<1>3. CauseTypes'
  BY <1>1, <1>2 DEF CauseTypes
<1>4. AloneInv'
  BY <1>1 DEF AloneInv
<1>5. SwitchInv'
  <2>1. \A c \in Cause!Handlers : ToldFirst(c)' = ToldFirst(c)
    BY <1>1 DEF ToldFirst
  <2>2. Told' = Told
    BY <1>1 DEF Told
  <2> QED  BY <1>1, <2>1, <2>2 DEF SwitchInv, CauseTypes
<1>6. ClaimInv'
  <2>1. CASE \E p \in Cause!Processes : Cause!Expire(p)
    BY <2>1, <1>1, <1>2 DEF ClaimInv, Cause!Expire, CauseTypes
  <2>2. CASE \E e \in Cause!Events : Cause!Arrives(e) \/ Cause!ArrivesFromComposio(e)
    BY <2>2, <1>1 DEF ClaimInv, Past, Cause!Arrives, Cause!ArrivesFromComposio, Cause!At, CauseTypes
  <2>3. CASE \E e \in Cause!Events : Cause!ClaimIdempotency(e)
    <3> PICK e \in Cause!Events : Cause!ClaimIdempotency(e)
      BY <2>3
    <3>1. scene.to[e] \in Cause!Processes
      OBVIOUS
    <3>2. CASE scene.key[e] \in claims[scene.to[e]]
      <4>1. event' = [event EXCEPT ![e] = "409"] /\ claims' = claims /\ counts' = counts
        BY <3>2 DEF Cause!ClaimIdempotency, Cause!At
      <4>2. \A f \in Cause!Events : Past(f)' => Past(f)
        BY <4>1 DEF Past, CauseTypes
      <4> QED  BY <1>1, <4>1, <4>2 DEF ClaimInv
    <3>3. CASE scene.key[e] \notin claims[scene.to[e]]
      <4>1. /\ event' = [event EXCEPT ![e] = "claimed"]
            /\ claims' = [claims EXCEPT ![scene.to[e]] = @ \cup {scene.key[e]}]
            /\ UNCHANGED counts
        BY <3>3 DEF Cause!ClaimIdempotency, Cause!At
      <4> SUFFICES ASSUME scene.mode = "webhook", counts.deaths = 0, counts.expiries = 0 PROVE ClaimInv'
        BY <1>1, <4>1 DEF ClaimInv
      <4>2. \A f \in Cause!Events : Past(f)' => f = e \/ Past(f)
        BY <4>1 DEF Past, CauseTypes
      <4>3. \A f \in Cause!Events : claims[scene.to[f]] \subseteq claims'[scene.to[f]]
        BY <4>1 DEF CauseTypes
      <4>4. scene.key[e] \in claims'[scene.to[e]]
        BY <4>1, <3>1 DEF CauseTypes
      <4>5. \A f \in Cause!Events : Past(f) /\ scene.to[f] = scene.to[e] => scene.key[f] # scene.key[e]
        BY <3>3 DEF ClaimInv
      <4>6. \A f \in Cause!Events : Past(f)' => scene.key[f] \in claims'[scene.to[f]]
        BY <4>2, <4>3, <4>4 DEF ClaimInv
      <4>7. \A f, g \in Cause!Events :
               Past(f)' /\ Past(g)' /\ scene.to[f] = scene.to[g] /\ scene.key[f] = scene.key[g] => f = g
        BY <4>2, <4>5 DEF ClaimInv
      <4> QED  BY <1>1, <4>6, <4>7 DEF ClaimInv
    <3> QED  BY <3>2, <3>3
  <2>4. CASE \E e \in Cause!Events : Cause!Queue(e)
    <3>1. PICK e \in Cause!Events : Cause!Queue(e)
      BY <2>4
    <3>2. \A f \in Cause!Events : Past(f)' => Past(f)
      BY <3>1 DEF Past, Cause!Queue, Cause!At, CauseTypes
    <3>3. claims' = claims /\ counts'.deaths = counts.deaths /\ counts'.expiries = counts.expiries
      BY <3>1 DEF Cause!Queue, Cause!CallFails, CauseTypes
    <3> QED  BY <1>1, <3>2, <3>3 DEF ClaimInv
  <2> QED  BY <2>1, <2>2, <2>3, <2>4
<1> QED  BY <1>3, <1>4, <1>5, <1>6

\* A process that stops tears the automation and ends claims.
LEMMA CauseStops ==
    ASSUME CauseInv, NEW p \in Cause!Processes, Cause!Stop(p)
    PROVE  CauseInv'
<1> USE DEF CauseInv, Cause!Handlers, Cause!Processes, Cause!Events, Cause!Changes
<1>1. UNCHANGED <<scene, saved, trigger, doing, untold>> /\ torn' = TRUE
  BY DEF Cause!Stop
<1>2. counts' \in [changes : Nat, calls : Nat, deaths : Nat, expiries : Nat] /\ counts'.deaths # 0
  BY DEF Cause!Stop, CauseTypes
<1>3. /\ handlers' \in [Cause!Handlers \cup Cause!Processes -> {"idle", "sync", "apply", "switch", "write", "done"}]
      /\ \A c \in Cause!Handlers : handlers'[c] \in {"switch", "write"} => handlers'[c] = handlers[c]
  BY DEF Cause!Stop, CauseTypes
<1>4. event' \in [Cause!Events -> {"new", "found", "claimed", "queued", "skipped", "lost", "gone", "404", "409", "500"}]
  BY DEF Cause!Stop, CauseTypes
<1>5. claims' \in [Cause!Processes -> SUBSET {scene.key[e] : e \in Cause!Events}]
  BY DEF Cause!Stop, CauseTypes
<1>6. CauseTypes'
  BY <1>1, <1>2, <1>3, <1>4, <1>5 DEF CauseTypes
<1> QED  BY <1>1, <1>2, <1>6 DEF AloneInv, SwitchInv, ClaimInv

\* What a change of the user leaves alone.
LEMMA CauseChangesOthers ==
    ASSUME CauseInv, NEW c \in Cause!Handlers,
           \/ Cause!Switch(c) \/ Cause!Write(c)
           \/ \E change \in Cause!Changes \cup {"create"}, tool \in BOOLEAN : Cause!Request(c, change, tool)
    PROVE  /\ UNCHANGED <<scene, event, claims>>
           /\ counts' \in [changes : Nat, calls : Nat, deaths : Nat, expiries : Nat]
           /\ counts'.deaths = counts.deaths /\ counts'.expiries = counts.expiries
           /\ torn' \in BOOLEAN /\ (torn => torn') /\ untold' \in BOOLEAN /\ (untold => untold')
           /\ ClaimInv'
<1> USE DEF CauseInv
<1>1. UNCHANGED <<scene, event, claims>>
  BY DEF Cause!Switch, Cause!Write, Cause!Request, Cause!events
<1>2. /\ counts' \in [changes : Nat, calls : Nat, deaths : Nat, expiries : Nat]
      /\ counts'.deaths = counts.deaths /\ counts'.expiries = counts.expiries
      /\ torn' \in BOOLEAN /\ (torn => torn') /\ untold' \in BOOLEAN /\ (untold => untold')
  <2>1. CASE Cause!Switch(c) \/ Cause!Write(c)
    <3>1. UNCHANGED <<counts, torn, untold>> \/ Cause!CallFails
      BY <2>1 DEF Cause!Switch, Cause!Write, Cause!history
    <3> QED  BY <3>1, CallFailed DEF CauseTypes
  <2>2. CASE \E change \in Cause!Changes \cup {"create"}, tool \in BOOLEAN : Cause!Request(c, change, tool)
    <3>1. counts' = [counts EXCEPT !.changes = @ + 1]
      BY <2>2 DEF Cause!Request
    <3>2. PICK tool \in BOOLEAN :
             /\ torn' = (torn \/ \E d \in Cause!Handlers : handlers[d] \notin {"idle", "done"})
             /\ untold' = (untold \/ (scene.mode = "composio" /\ tool))
      BY <2>2 DEF Cause!Request
    <3>3. torn' \in BOOLEAN /\ (torn => torn') /\ untold' \in BOOLEAN /\ (untold => untold')
      BY <3>2
    <3>4. /\ counts' \in [changes : Nat, calls : Nat, deaths : Nat, expiries : Nat]
          /\ counts'.deaths = counts.deaths /\ counts'.expiries = counts.expiries
      BY <3>1 DEF CauseTypes
    <3> QED  BY <3>3, <3>4
  <2> QED  BY <2>1, <2>2
<1>3. ClaimInv'
  BY <1>1, <1>2 DEF ClaimInv, Past, Cause!Events
<1> QED  BY <1>1, <1>2, <1>3

\* A change begins: Composio is told first, but by a tool of the agent.
LEMMA CauseRequested ==
    ASSUME CauseInv, NEW c \in Cause!Handlers,
           NEW change \in Cause!Changes \cup {"create"}, NEW tool \in BOOLEAN, Cause!Request(c, change, tool)
    PROVE  CauseInv'
<1> USE DEF CauseInv, Cause!Handlers, Cause!Processes, Cause!Changes
<1>1. /\ UNCHANGED <<scene, event, claims, saved, trigger>>
      /\ counts' \in [changes : Nat, calls : Nat, deaths : Nat, expiries : Nat]
      /\ torn' \in BOOLEAN /\ (torn => torn') /\ untold' \in BOOLEAN /\ (untold => untold')
      /\ ClaimInv'
  BY CauseChangesOthers DEF Cause!Request
<1>2. /\ handlers[c] = "idle"
      /\ handlers' = [handlers EXCEPT ![c] = IF scene.mode = "composio" /\ ~tool THEN "switch" ELSE "write"]
      /\ doing' = [doing EXCEPT ![c] = change]
      /\ (\E d \in Cause!Handlers : handlers[d] \notin {"idle", "done"}) => torn'
      /\ scene.mode = "composio" /\ tool => untold'
  BY DEF Cause!Request, Cause!Go
<1>3. /\ scene.mode = "composio" => change # "reschedule"
      /\ IF saved.there THEN change \in {"pause", "resume", "reschedule", "delete"} ELSE change = "create"
  BY DEF Cause!Request, Cause!Scheduled
<1>4. CauseTypes'
  <2>1. handlers' \in [Cause!Handlers \cup Cause!Processes -> {"idle", "sync", "apply", "switch", "write", "done"}]
    BY <1>2 DEF CauseTypes
  <2>2. doing' \in [Cause!Handlers -> Cause!Changes \cup {"none", "create"}]
    BY <1>2 DEF CauseTypes
  <2>3. \A d \in Cause!Handlers : handlers'[d] \in {"switch", "write"} => doing'[d] # "none"
    BY <1>2 DEF CauseTypes
  <2> QED  BY <1>1, <2>1, <2>2, <2>3 DEF CauseTypes, Cause!Events
<1>5. AloneInv'
  BY <1>1, <1>2 DEF AloneInv, CauseTypes
<1>6. SwitchInv'
  <2> SUFFICES ASSUME scene.mode = "composio", ~torn', ~untold' PROVE SwitchInv'
    BY <1>1 DEF SwitchInv
  <2>1. \A d \in Cause!Handlers : handlers[d] \in {"idle", "done"}
    BY <1>2
  <2>2. handlers'[c] = "switch" /\ \A d \in Cause!Handlers : d # c => handlers'[d] \in {"idle", "done"}
    BY <1>2, <2>1 DEF CauseTypes
  <2>3. Told'
    BY <1>1, <2>1 DEF SwitchInv, Told
  <2>4. doing'[c] \in (IF saved.there THEN {"pause", "resume", "delete"} ELSE {"create"})
    BY <1>2, <1>3 DEF CauseTypes
  <2> QED  BY <1>1, <2>2, <2>3, <2>4 DEF SwitchInv
<1> QED  BY <1>1, <1>4, <1>5, <1>6

\* Composio is told.
LEMMA CauseSwitched ==
    ASSUME CauseInv, NEW c \in Cause!Handlers, Cause!Switch(c)
    PROVE  CauseInv'
<1> USE DEF CauseInv, Cause!Handlers, Cause!Processes, Cause!Changes
<1>1. /\ UNCHANGED <<scene, event, claims, saved, doing>>
      /\ counts' \in [changes : Nat, calls : Nat, deaths : Nat, expiries : Nat]
      /\ torn' \in BOOLEAN /\ (torn => torn') /\ untold' \in BOOLEAN /\ (untold => untold')
      /\ ClaimInv'
  BY CauseChangesOthers DEF Cause!Switch
<1>2. /\ handlers[c] = "switch"
      /\ handlers' = [handlers EXCEPT ![c] = "write"] \/ handlers' = [handlers EXCEPT ![c] = "done"]
  BY DEF Cause!Switch, Cause!Go
<1>3. CauseTypes'
  BY <1>1, <1>2 DEF CauseTypes, Cause!Events
<1>4. AloneInv'
  BY <1>1, <1>2 DEF AloneInv, CauseTypes
<1>5. SwitchInv'
  <2> SUFFICES ASSUME scene.mode = "composio", ~torn', ~untold' PROVE SwitchInv'
    BY <1>1 DEF SwitchInv
  <2>1. ~torn /\ ~untold
    BY <1>1
  <2>2. ~Cause!CallFails
    BY DEF Cause!CallFails
  <2>3. \A d \in Cause!Handlers : d # c => handlers[d] \in {"idle", "done"}
    BY <1>2, <2>1 DEF AloneInv
  <2>4. Told /\ doing[c] \in (IF saved.there THEN {"pause", "resume", "delete"} ELSE {"create"})
    BY <1>2, <2>1, <2>3 DEF SwitchInv
  <2>5. /\ trigger' = IF trigger = "gone" /\ doing[c] # "create" THEN trigger ELSE Cause!Switched(c)
        /\ handlers' = [handlers EXCEPT ![c] = "write"]
    BY <2>2 DEF Cause!Switch, Cause!Go
  <2>6. ToldFirst(c)'
    BY <1>1, <2>4, <2>5 DEF ToldFirst, Told, Cause!Switched
  <2>7. handlers'[c] = "write" /\ \A d \in Cause!Handlers : d # c => handlers'[d] \in {"idle", "done"}
    BY <2>3, <2>5 DEF CauseTypes
  <2> QED  BY <1>1, <2>6, <2>7 DEF SwitchInv
<1> QED  BY <1>1, <1>3, <1>4, <1>5

\* The row is written.
LEMMA CauseWritten ==
    ASSUME CauseInv, NEW c \in Cause!Handlers, Cause!Write(c)
    PROVE  CauseInv'
<1> USE DEF CauseInv, Cause!Handlers, Cause!Processes, Cause!Changes
<1>1. /\ UNCHANGED <<scene, event, claims, doing>>
      /\ counts' \in [changes : Nat, calls : Nat, deaths : Nat, expiries : Nat]
      /\ torn' \in BOOLEAN /\ (torn => torn') /\ untold' \in BOOLEAN /\ (untold => untold')
      /\ ClaimInv'
  BY CauseChangesOthers DEF Cause!Write
<1>2. /\ handlers[c] = "write"
      /\ handlers' = [handlers EXCEPT ![c] = "sync"] \/ handlers' = [handlers EXCEPT ![c] = "done"]
  BY DEF Cause!Write, Cause!Go
<1>3. saved' \in [there : BOOLEAN, active : BOOLEAN, cron : Nat]
  <2>1. saved' = saved \/ saved' \in Cause!Written(c)
    BY DEF Cause!Write
  <2>2. CASE saved' \in Cause!Written(c)
    <3>1. doing[c] \in {"create", "pause", "resume", "reschedule", "delete"}
      BY <1>2 DEF CauseTypes
    <3>2. CASE doing[c] = "create"
      BY <2>2, <3>2 DEF Cause!Written, CauseTypes
    <3>3. CASE doing[c] \in {"pause", "resume"}
      BY <2>2, <3>3 DEF Cause!Written, CauseTypes
    <3>4. CASE doing[c] = "reschedule"
      BY <2>2, <3>4 DEF Cause!Written, CauseTypes
    <3>5. CASE doing[c] = "delete"
      BY <2>2, <3>5 DEF Cause!Written, CauseTypes
    <3> QED  BY <3>1, <3>2, <3>3, <3>4, <3>5
  <2> QED  BY <2>1, <2>2 DEF CauseTypes
<1>4. CauseTypes'
  BY <1>1, <1>2, <1>3 DEF CauseTypes, Cause!Events
<1>5. AloneInv'
  BY <1>1, <1>2 DEF AloneInv, CauseTypes
<1>6. SwitchInv'
  <2> SUFFICES ASSUME scene.mode = "composio", ~torn', ~untold' PROVE SwitchInv'
    BY <1>1 DEF SwitchInv
  <2>1. ~torn /\ ~untold
    BY <1>1
  <2>2. ~Cause!CallFails
    BY DEF Cause!CallFails
  <2>3. \A d \in Cause!Handlers : d # c => handlers[d] \in {"idle", "done"}
    BY <1>2, <2>1 DEF AloneInv
  <2>4. ToldFirst(c)
    BY <1>2, <2>1 DEF SwitchInv
  <2>5. /\ IF saved.there \/ doing[c] = "create" THEN saved' \in Cause!Written(c) ELSE UNCHANGED saved
        /\ handlers' = [handlers EXCEPT ![c] = "sync"] /\ UNCHANGED trigger
    BY <2>2 DEF Cause!Write, Cause!Go
  <2>6. Told'
    BY <2>4, <2>5, <1>3 DEF ToldFirst, Told, Cause!Written, CauseTypes
  <2>7. handlers'[c] = "sync" /\ \A d \in Cause!Handlers : d # c => handlers'[d] \in {"idle", "done"}
    BY <2>3, <2>5 DEF CauseTypes
  <2> QED  BY <1>1, <2>6, <2>7 DEF SwitchInv
<1> QED  BY <1>1, <1>4, <1>5, <1>6

\* Every step keeps the invariant...
LEMMA CauseSteps == CauseInv /\ [Cause!Next]_cause => CauseInv'
<1> SUFFICES ASSUME CauseInv, [Cause!Next]_cause PROVE CauseInv'
  OBVIOUS
<1>1. CASE UNCHANGED cause
  BY <1>1 DEF cause, CauseInv, CauseTypes, AloneInv, SwitchInv, ClaimInv, Told, ToldFirst, Past,
              Cause!Handlers, Cause!Processes, Cause!Events, Cause!Changes
<1>2. CASE Cause!Next
  <2>1. CASE \/ Cause!Tick \/ Cause!TickReads \/ Cause!TickQueues
             \/ \E p \in Cause!Processes : Cause!Start(p) \/ Cause!Resync(p)
             \/ \E k \in DOMAIN handlers : Cause!List(k) \/ Cause!Apply(k)
    BY <2>1, CauseSchedules
  <2>2. CASE \E p \in Cause!Processes : Cause!Stop(p)
    BY <2>2, CauseStops
  <2>3. CASE \/ \E p \in Cause!Processes : Cause!Expire(p)
             \/ \E e \in Cause!Events :
                    Cause!Arrives(e) \/ Cause!ClaimIdempotency(e) \/ Cause!ArrivesFromComposio(e) \/ Cause!Queue(e)
    BY <2>3, CauseDelivers
  <2>4. CASE \E c \in Cause!Handlers : Cause!Switch(c)
    BY <2>4, CauseSwitched
  <2>5. CASE \E c \in Cause!Handlers : Cause!Write(c)
    BY <2>5, CauseWritten
  <2>6. CASE \E c \in Cause!Handlers : \E change \in Cause!Changes \cup {"create"}, tool \in BOOLEAN :
                Cause!Request(c, change, tool)
    BY <2>6, CauseRequested
  <2> QED  BY <1>2, <2>1, <2>2, <2>3, <2>4, <2>5, <2>6 DEF Cause!Next
<1> QED  BY <1>1, <1>2 DEF cause

\* The row is there as it was in the beginning until a change is made, and only
\* an automation that is there has events.
ChangeInv ==
    /\ \A c \in Cause!Handlers : handlers[c] \in {"switch", "write"} => counts.changes > 0
    /\ saved.there # scene.there => counts.changes > 0
    /\ \A e \in Cause!Events : event[e] \in {"found", "claimed"} => scene.there \/ counts.changes > 0

\* A claim is the claim of a delivery that was taken or came to nothing.
Claimer(p, key, f) ==
    /\ f \in Cause!Events /\ scene.to[f] = p /\ scene.key[f] = key
    /\ Cause!Taken(f) \/ Cause!Fruitless(f)
TakenInv ==
    scene.mode = "webhook" =>
        /\ \A p \in Cause!Processes : \A key \in claims[p] : \E f : Claimer(p, key, f)
        /\ \A e \in Cause!Events : event[e] = "409" => \E f : Claimer(scene.to[e], scene.key[e], f)

LEMMA CauseTakenStarts == Cause!Init => ChangeInv /\ TakenInv
BY DEF Cause!Init, ChangeInv, TakenInv, Cause!Handlers, Cause!Events, Cause!Processes

\* A step that leaves the events alone, while the counts only grow.
LEMMA TakenStays ==
    ASSUME CauseTypes, TakenInv, UNCHANGED <<scene, event>>,
           \A p \in Cause!Processes : claims'[p] \subseteq claims[p],
           counts' \in [changes : Nat, calls : Nat, deaths : Nat, expiries : Nat],
           counts'.changes >= counts.changes, counts'.calls >= counts.calls, counts'.deaths >= counts.deaths
    PROVE  TakenInv'
<1>1. \A p, key, f : Claimer(p, key, f) => Claimer(p, key, f)'
  BY DEF CauseTypes, Claimer, Cause!Taken, Cause!Fruitless, Cause!Events
<1>2. UNCHANGED <<Cause!Processes, Cause!Events>>
  BY DEF Cause!Processes, Cause!Handlers, Cause!Events
<1> HIDE DEF Claimer
<1> QED  BY <1>1, <1>2 DEF TakenInv

LEMMA FailsCounted ==
    ASSUME CauseTypes, Cause!CallFails
    PROVE  counts'.changes = counts.changes /\ counts'.calls = counts.calls + 1 /\ counts'.deaths = counts.deaths
BY DEF CauseTypes, Cause!CallFails

\* The scheduler.
LEMMA CauseSchedulesTaken ==
    ASSUME CauseInv, ChangeInv, TakenInv,
           \/ Cause!Tick \/ Cause!TickReads \/ Cause!TickQueues
           \/ \E p \in Cause!Processes : Cause!Start(p) \/ Cause!Resync(p) \/ Cause!Expire(p)
           \/ \E k \in DOMAIN handlers : Cause!List(k) \/ Cause!Apply(k)
    PROVE  ChangeInv' /\ TakenInv'
<1> USE DEF CauseInv
<1>0. CauseInv'
  BY CauseSchedules, CauseDelivers
<1>1. /\ UNCHANGED <<scene, saved, event>>
      /\ counts'.changes = counts.changes /\ counts'.calls >= counts.calls /\ counts'.deaths = counts.deaths
  <2>1. CASE Cause!Tick \/ Cause!TickReads \/ Cause!TickQueues
    BY <2>1 DEF CauseTypes, Cause!Tick, Cause!TickReads, Cause!TickQueues, Cause!events
  <2>2. CASE \E p \in Cause!Processes : Cause!Start(p) \/ Cause!Resync(p) \/ Cause!Expire(p)
    BY <2>2 DEF CauseTypes, Cause!Start, Cause!Resync, Cause!Expire, Cause!events
  <2>3. CASE \E k \in DOMAIN handlers : Cause!List(k) \/ Cause!Apply(k)
    <3>1. UNCHANGED <<scene, saved, event>>
      BY <2>3 DEF Cause!List, Cause!Apply, Cause!events
    <3>2. counts' = counts \/ Cause!CallFails
      BY <2>3 DEF Cause!List, Cause!Apply
    <3> QED  BY <3>1, <3>2, FailsCounted DEF CauseTypes
  <2> QED  BY <2>1, <2>2, <2>3
<1>2. \A p \in Cause!Processes : claims'[p] \subseteq claims[p]
  <2>1. CASE \E p \in Cause!Processes : Cause!Expire(p)
    BY <2>1 DEF CauseTypes, Cause!Expire
  <2>2. CASE UNCHANGED claims
    BY <2>2
  <2>3. UNCHANGED claims \/ \E p \in Cause!Processes : Cause!Expire(p)
    BY DEF Cause!Tick, Cause!TickReads, Cause!TickQueues, Cause!Start, Cause!Resync, Cause!List, Cause!Apply, Cause!events
  <2> QED  BY <2>1, <2>2, <2>3
<1>3. \A c \in Cause!Handlers : handlers'[c] \in {"switch", "write"} => handlers[c] \in {"switch", "write"}
  <2>1. CASE \E p \in Cause!Processes : Cause!Start(p) \/ Cause!Resync(p)
    <3>1. Cause!Handlers \subseteq DOMAIN handlers
      BY DEF CauseTypes
    <3> QED  BY <2>1, <3>1 DEF CauseTypes, Cause!Start, Cause!Resync, Cause!Go
  <2>2. CASE \E k \in DOMAIN handlers : Cause!List(k) \/ Cause!Apply(k)
    BY <2>2 DEF CauseTypes, Cause!List, Cause!Apply, Cause!Go, Cause!After
  <2>3. CASE UNCHANGED handlers
    BY <2>3
  <2>4. \/ UNCHANGED handlers
        \/ \E p \in Cause!Processes : Cause!Start(p) \/ Cause!Resync(p)
        \/ \E k \in DOMAIN handlers : Cause!List(k) \/ Cause!Apply(k)
    BY DEF Cause!Tick, Cause!TickReads, Cause!TickQueues, Cause!Expire, Cause!handling
  <2> QED  BY <2>1, <2>2, <2>3, <2>4
<1>4. TakenInv'
  BY <1>0, <1>1, <1>2, TakenStays DEF CauseTypes
<1> QED  BY <1>1, <1>3, <1>4 DEF ChangeInv, Cause!Handlers, Cause!Events

\* The changes of the user.
LEMMA CauseChangesTaken ==
    ASSUME CauseInv, ChangeInv, TakenInv, NEW c \in Cause!Handlers,
           \/ Cause!Switch(c) \/ Cause!Write(c)
           \/ \E change \in Cause!Changes \cup {"create"}, tool \in BOOLEAN : Cause!Request(c, change, tool)
    PROVE  ChangeInv' /\ TakenInv'
<1> USE DEF CauseInv
<1>1. /\ UNCHANGED <<scene, event, claims>>
      /\ counts' \in [changes : Nat, calls : Nat, deaths : Nat, expiries : Nat]
  BY CauseChangesOthers
<1>2. /\ counts'.changes >= counts.changes /\ counts'.calls >= counts.calls /\ counts'.deaths >= counts.deaths
      /\ counts'.changes > 0
  <2>1. CASE Cause!Switch(c) \/ Cause!Write(c)
    <3>1. counts' = counts \/ Cause!CallFails
      BY <2>1 DEF Cause!Switch, Cause!Write
    <3>2. counts.changes > 0
      BY <2>1 DEF Cause!Switch, Cause!Write, ChangeInv
    <3> QED  BY <3>1, <3>2, FailsCounted DEF CauseTypes
  <2>2. CASE \E change \in Cause!Changes \cup {"create"}, tool \in BOOLEAN : Cause!Request(c, change, tool)
    <3>1. counts' = [counts EXCEPT !.changes = @ + 1]
      BY <2>2 DEF Cause!Request
    <3> QED  BY <3>1 DEF CauseTypes
  <2> QED  BY <2>1, <2>2
<1>3. TakenInv'
  BY <1>1, <1>2, TakenStays
<1> QED  BY <1>2, <1>3 DEF ChangeInv

\* The events: only a claim refuses, and what it refuses was claimed before.
LEMMA CauseEventsTaken ==
    ASSUME CauseInv, ChangeInv, TakenInv, NEW e \in Cause!Events,
           Cause!Arrives(e) \/ Cause!ClaimIdempotency(e) \/ Cause!ArrivesFromComposio(e) \/ Cause!Queue(e)
    PROVE  ChangeInv' /\ TakenInv'
<1> USE DEF CauseInv
<1>1. UNCHANGED <<scene, saved, handlers>>
  BY DEF Cause!Arrives, Cause!ClaimIdempotency, Cause!ArrivesFromComposio, Cause!Queue, Cause!handling
<1>2. UNCHANGED <<Cause!Processes, Cause!Events, Cause!Handlers>>
  BY <1>1 DEF Cause!Processes, Cause!Handlers, Cause!Events
<1>3. CASE Cause!Arrives(e) \/ Cause!ArrivesFromComposio(e)
  <2>1. /\ \E where \in {"404", "found", "skipped", "claimed"} :
              /\ event' = [event EXCEPT ![e] = where]
              /\ where \in {"found", "claimed"} => saved.there
              /\ where = "claimed" => scene.mode # "webhook"
        /\ event[e] = "new" /\ UNCHANGED <<claims, counts>>
    BY <1>3 DEF Cause!Arrives, Cause!ArrivesFromComposio, Cause!At
  <2>2. ChangeInv'
    BY <1>1, <1>2, <2>1 DEF ChangeInv, CauseTypes
  <2>3. ASSUME scene.mode = "webhook" PROVE TakenInv'
    <3>1. \A p, key, f : Claimer(p, key, f) => Claimer(p, key, f)'
      BY <1>1, <2>1 DEF CauseTypes, Claimer, Cause!Taken, Cause!Fruitless, Cause!Events
    <3>2. \A f \in Cause!Events : event'[f] = "409" => event[f] = "409"
      BY <2>1 DEF CauseTypes
    <3> HIDE DEF Claimer
    <3> QED  BY <1>1, <1>2, <2>1, <3>1, <3>2 DEF TakenInv
  <2> QED  BY <1>1, <2>2, <2>3 DEF TakenInv
<1>4. CASE Cause!ClaimIdempotency(e)
  <2>1. /\ event[e] = "found" /\ scene.mode = "webhook" /\ UNCHANGED counts
        /\ IF scene.key[e] \in claims[scene.to[e]] THEN event' = [event EXCEPT ![e] = "409"] /\ UNCHANGED claims
           ELSE event' = [event EXCEPT ![e] = "claimed"] /\ claims' = [claims EXCEPT ![scene.to[e]] = @ \cup {scene.key[e]}]
    BY <1>4 DEF Cause!ClaimIdempotency, Cause!At
  <2>2. ChangeInv'
    BY <1>1, <1>2, <2>1 DEF ChangeInv, CauseTypes
  <2>3. \A p, key, f : Claimer(p, key, f) => Claimer(p, key, f)'
    BY <1>1, <2>1 DEF CauseTypes, Claimer, Cause!Taken, Cause!Fruitless, Cause!Events
  <2>4. scene.to[e] \in Cause!Processes
    BY DEF Cause!Processes, Cause!Events
  <2>5. CASE scene.key[e] \in claims[scene.to[e]]
    <3>1. \A f \in Cause!Events : event'[f] = "409" => event[f] = "409" \/ f = e
      BY <2>1, <2>5 DEF CauseTypes
    <3>2. PICK h : Claimer(scene.to[e], scene.key[e], h)
      BY <2>1, <2>4, <2>5 DEF TakenInv
    <3>3. UNCHANGED <<claims, scene>>
      BY <1>1, <2>1, <2>5
    <3>4. Claimer(scene.to[e], scene.key[e], h)'
      BY <1>1, <2>1, <3>2 DEF CauseTypes, Claimer, Cause!Taken, Cause!Fruitless, Cause!Events
    <3> HIDE DEF Claimer
    <3>5. \A q \in Cause!Processes : \A key \in claims[q] : \E f : Claimer(q, key, f)'
      BY <2>1, <2>3 DEF TakenInv
    <3>6. \A g \in Cause!Events : event'[g] = "409" => \E f : Claimer(scene.to[g], scene.key[g], f)'
      <4> SUFFICES ASSUME NEW g \in Cause!Events, event'[g] = "409"
                   PROVE  \E f : Claimer(scene.to[g], scene.key[g], f)'
        OBVIOUS
      <4>1. CASE g = e
        BY <3>4, <4>1
      <4>2. CASE event[g] = "409"
        <5>1. PICK f : Claimer(scene.to[g], scene.key[g], f)
          BY <2>1, <4>2 DEF TakenInv
        <5>2. Claimer(scene.to[g], scene.key[g], f)'
          BY <1>1, <2>1, <5>1 DEF CauseTypes, Claimer, Cause!Taken, Cause!Fruitless, Cause!Events
        <5> QED  BY <5>2
      <4> QED  BY <3>1, <4>1, <4>2
    <3>8. (\A q \in Cause!Processes : \A key \in claims[q] : \E f : Claimer(q, key, f))'
      BY <1>2, <3>3, <3>5
    <3>9. (\A g \in Cause!Events : event[g] = "409" => \E f : Claimer(scene.to[g], scene.key[g], f))'
      BY <1>2, <3>6
    <3> QED  BY <2>2, <3>8, <3>9 DEF TakenInv
  <2>6. CASE scene.key[e] \notin claims[scene.to[e]]
    <3>1. \A f \in Cause!Events : event'[f] = "409" => event[f] = "409"
      BY <2>1, <2>6 DEF CauseTypes
    <3>2. Claimer(scene.to[e], scene.key[e], e)'
      BY <1>1, <2>1, <2>6 DEF CauseTypes, Claimer, Cause!Taken, Cause!Events
    <3>3. \A p \in Cause!Processes : \A key \in claims'[p] :
             key \in claims[p] \/ (p = scene.to[e] /\ key = scene.key[e])
      BY <2>1, <2>6 DEF CauseTypes
    <3> HIDE DEF Claimer
    <3>4. \A q \in Cause!Processes : \A key \in claims'[q] : \E f : Claimer(q, key, f)'
      <4> SUFFICES ASSUME NEW q \in Cause!Processes, NEW key \in claims'[q]
                   PROVE  \E f : Claimer(q, key, f)'
        OBVIOUS
      <4>1. CASE key \in claims[q]
        BY <2>1, <2>3, <4>1 DEF TakenInv
      <4>2. CASE q = scene.to[e] /\ key = scene.key[e]
        <5>1. Claimer(q, key, e)'
          BY <1>1, <3>2, <4>2
        <5> QED  BY <5>1
      <4> QED  BY <3>3, <4>1, <4>2
    <3>5. \A g \in Cause!Events : event'[g] = "409" => \E f : Claimer(scene.to[g], scene.key[g], f)'
      <4> SUFFICES ASSUME NEW g \in Cause!Events, event'[g] = "409"
                   PROVE  \E f : Claimer(scene.to[g], scene.key[g], f)'
        OBVIOUS
      <4>1. PICK f : Claimer(scene.to[g], scene.key[g], f)
        BY <2>1, <3>1 DEF TakenInv
      <4>2. Claimer(scene.to[g], scene.key[g], f)'
        BY <1>1, <2>1, <4>1 DEF CauseTypes, Claimer, Cause!Taken, Cause!Fruitless, Cause!Events
      <4> QED  BY <4>2
    <3>8. (\A q \in Cause!Processes : \A key \in claims[q] : \E f : Claimer(q, key, f))'
      BY <1>2, <3>4
    <3>9. (\A g \in Cause!Events : event[g] = "409" => \E f : Claimer(scene.to[g], scene.key[g], f))'
      BY <1>2, <3>5
    <3> QED  BY <2>2, <3>8, <3>9 DEF TakenInv
  <2> QED  BY <2>2, <2>5, <2>6
<1>5. CASE Cause!Queue(e)
  <2>1. /\ event[e] = "claimed" /\ UNCHANGED claims
        /\ \/ event' = [event EXCEPT ![e] = IF saved.there THEN "queued" ELSE "gone"] /\ UNCHANGED counts
           \/ Cause!CallFails /\ event' = [event EXCEPT ![e] = IF scene.mode = "composio" THEN "lost" ELSE "500"]
    BY <1>5 DEF Cause!Queue, Cause!At
  <2>2. /\ counts'.changes = counts.changes /\ counts'.calls >= counts.calls /\ counts'.deaths = counts.deaths
        /\ event'[e] = "500" => counts'.calls > 0
        /\ event'[e] = "gone" => ~saved.there
        /\ event'[e] \in {"queued", "gone", "500"} \/ scene.mode = "composio"
        /\ \A f \in Cause!Events : f # e => event'[f] = event[f]
        /\ event'[e] \in {"queued", "gone", "500", "lost"}
    BY <2>1, FailsCounted DEF CauseTypes
  <2>3. event'[e] = "gone" => counts'.changes > 0
    BY <2>1, <2>2 DEF ChangeInv
  <2>4. ChangeInv'
    BY <1>1, <1>2, <2>2 DEF ChangeInv
  <2>5. ASSUME scene.mode = "webhook" PROVE TakenInv'
    <3>0. /\ Cause!Taken(e)' \/ Cause!Fruitless(e)'
          /\ \A f \in Cause!Events : f # e /\ Cause!Taken(f) => Cause!Taken(f)'
          /\ \A f \in Cause!Events : f # e /\ Cause!Fruitless(f) => Cause!Fruitless(f)'
      <4>1. Cause!Taken(e)' \/ Cause!Fruitless(e)'
        BY <2>2, <2>3, <2>5 DEF Cause!Taken, Cause!Fruitless
      <4>2. \A f \in Cause!Events : f # e /\ Cause!Taken(f) => Cause!Taken(f)'
        BY <2>2 DEF Cause!Taken
      <4>3. \A f \in Cause!Events : f # e /\ Cause!Fruitless(f) => Cause!Fruitless(f)'
        <5>1. counts.calls \in Nat /\ counts'.calls >= counts.calls
          BY <2>2 DEF CauseTypes
        <5>2. counts'.calls \in Int
          BY <2>1, FailsCounted DEF CauseTypes
        <5>3. counts.calls > 0 => counts'.calls > 0
          BY <5>1, <5>2
        <5> QED  BY <2>2, <5>3 DEF Cause!Fruitless
      <4> QED  BY <4>1, <4>2, <4>3
    <3>1. \A p, key, f : Claimer(p, key, f) => Claimer(p, key, f)'
      BY <1>1, <1>2, <3>0 DEF Claimer
    <3>2. \A f \in Cause!Events : event'[f] = "409" => event[f] = "409"
      BY <2>2
    <3> HIDE DEF Claimer
    <3> QED  BY <1>1, <1>2, <2>1, <3>1, <3>2 DEF TakenInv
  <2> QED  BY <1>1, <2>4, <2>5 DEF TakenInv
<1> QED  BY <1>3, <1>4, <1>5

\* A process dies with the deliveries it had not queued.
LEMMA CauseStopsTaken ==
    ASSUME CauseInv, ChangeInv, TakenInv, NEW p \in Cause!Processes, Cause!Stop(p)
    PROVE  ChangeInv' /\ TakenInv'
<1> USE DEF CauseInv
<1>1. /\ UNCHANGED <<scene, saved>>
      /\ counts'.changes = counts.changes /\ counts'.calls = counts.calls /\ counts'.deaths > 0
  BY DEF Cause!Stop, CauseTypes
<1>2. UNCHANGED <<Cause!Processes, Cause!Events, Cause!Handlers>>
  BY <1>1 DEF Cause!Processes, Cause!Handlers, Cause!Events
<1>3. \A f \in Cause!Events : event'[f] = event[f] \/ (event[f] \in {"found", "claimed"} /\ event'[f] = "lost")
  BY DEF Cause!Stop, CauseTypes
<1>4. \A c \in Cause!Handlers : handlers'[c] \in {"switch", "write"} => handlers[c] \in {"switch", "write"}
  BY DEF Cause!Stop, CauseTypes
<1>5. \A q \in Cause!Processes : claims'[q] \subseteq claims[q]
  BY DEF Cause!Stop, CauseTypes
<1>6. ChangeInv'
  BY <1>1, <1>2, <1>3, <1>4 DEF ChangeInv
<1>7. \A q, key, f : Claimer(q, key, f) => Claimer(q, key, f)'
  BY <1>1, <1>2, <1>3 DEF CauseTypes, Claimer, Cause!Taken, Cause!Fruitless
<1>8. \A f \in Cause!Events : event'[f] = "409" => event[f] = "409"
  BY <1>3
<1> HIDE DEF Claimer
<1> QED  BY <1>1, <1>2, <1>5, <1>6, <1>7, <1>8 DEF TakenInv

\* What was claimed stays claimed or comes to nothing.
LEMMA CauseTakes ==
    ASSUME CauseInv, ChangeInv, TakenInv, [Cause!Next]_cause
    PROVE  ChangeInv' /\ TakenInv'
<1>1. CASE UNCHANGED cause
  BY <1>1 DEF cause, ChangeInv, TakenInv, Claimer, Cause!Taken, Cause!Fruitless,
              Cause!Handlers, Cause!Processes, Cause!Events
<1>2. CASE Cause!Next
  BY <1>2, CauseSchedulesTaken, CauseChangesTaken, CauseEventsTaken, CauseStopsTaken DEF Cause!Next
<1> QED  BY <1>1, <1>2 DEF cause

\* ... which implies the property.
LEMMA CauseReaches == CauseInv /\ TakenInv => Cause!EventsReachOnce
<1> SUFFICES ASSUME CauseInv, TakenInv PROVE Cause!EventsReachOnce
  OBVIOUS
<1> USE DEF CauseInv
<1>3. Cause!RefusedIsTaken
  BY DEF TakenInv, Claimer, Cause!RefusedIsTaken
<1>1. Cause!ActiveFires
  BY DEF Cause!ActiveFires, Cause!Changing, SwitchInv, Told
<1>2. Cause!EventOnce
  <2> SUFFICES ASSUME scene.mode = "webhook", counts.deaths + counts.expiries = 0,
                      NEW p \in Cause!Processes, NEW e \in Cause!Events
               PROVE  Cardinality(Cause!Runs(p, scene.key[e])) <= 1
    <3>1. \A S : Cause!Cardinality(S) = Cardinality(S)
      BY DEF Cause!Cardinality, Cardinality
    <3> QED  BY <3>1 DEF Cause!EventOnce
  <2> DEFINE R == Cause!Runs(p, scene.key[e])
  <2>1. counts.deaths = 0 /\ counts.expiries = 0
    BY DEF CauseTypes
  <2>2. \A f, g \in R : f = g
    BY <2>1 DEF ClaimInv, Past, Cause!Runs
  <2>3. R = {} \/ \E f : R = {f}
    BY <2>2
  <2>4. Cardinality(R) = 0 \/ Cardinality(R) = 1
    BY <2>3, FS_EmptySet, FS_Singleton
  <2> QED  BY <2>4
<1> QED  BY <1>1, <1>2, <1>3 DEF Cause!EventsReachOnce

\* Whatever requests, tools, events and deaths come: an automation that is
\* active has its trigger enabled between changes that neither failed nor
\* overlapped; a delivery that comes again to a process starts no second run
\* (webhook_guard.py, claim_idempotency), and is refused only when one before
\* it was queued or is about to be, or came to nothing after its claim because
\* the automation was deleted, a call failed or the process died.
THEOREM ReachedOnce == PartSpec => []EventsReachOnce
<1> DEFINE Inv == part = "causes" => CauseInv /\ ChangeInv /\ TakenInv
<1>1. PartInit => Inv
  BY CauseStarts, CauseTakenStarts DEF PartInit
<1>2. Inv /\ [PartNext]_all => Inv'
  <2> SUFFICES ASSUME Inv, [PartNext]_all, part = "causes" PROVE Inv'
    BY DEF PartNext, all
  <2>1. [Cause!Next]_cause
    BY DEF PartNext, all, cause
  <2> QED  BY <2>1, CauseSteps, CauseTakes
<1>3. Inv => EventsReachOnce
  BY CauseReaches DEF EventsReachOnce
<1> QED  BY <1>1, <1>2, <1>3, PTL DEF PartSpec
----------------------------------------------------------------------------
(* The accounts: Connections.                                               *)

Rows == [id : Nat, status : {"INITIATED", "ACTIVE", "EXPIRED"}]
Lists == [list : Seq(Rows), asOf : Nat]
Works ==
    [way : Account!Ways, list : Seq(Rows), asOf : Nat, group : Lists \cup {Account!Unset},
     doomed : SUBSET Nat, removed : BOOLEAN]
Places == {"idle", "get", "touch", "listed", "fetch", "store", "invalidate", "delete"}

AccountTypes ==
    /\ accounts \in Seq(Rows) /\ opened \in Nat /\ changes \in Nat
    /\ rows \in [Account!Homes -> Lists \cup {Account!Unset}]
    /\ threads \in [Account!Threads -> Places]
    /\ work \in [Account!Threads -> Works]

\* The account that a cleanup which looks now would keep.
LastActive(s, id) ==
    \E k \in DOMAIN s : /\ s[k].status = "ACTIVE" /\ s[k].id = id
                        /\ \A j \in DOMAIN s : j > k => s[j].status # "ACTIVE"
Same(s) == \A id \in Nat : LastActive(s, id) <=> LastActive(accounts, id)

\* A list is no newer than the accounts, and one that is as new names the same
\* account to keep.
FreshInv ==
    /\ changes = 0 => accounts = <<>>
    /\ \A t \in Account!Threads : work[t].asOf <= changes
    /\ \A p \in Account!Homes : rows[p] # Account!Unset => rows[p].asOf <= changes
    /\ ~late => /\ \A t \in Account!Threads : work[t].asOf = changes => Same(work[t].list)
                /\ \A p \in Account!Homes :
                      rows[p] # Account!Unset /\ rows[p].asOf = changes => Same(rows[p].list)

\* A cleanup does not delete what it keeps.
DoomInv ==
    \A t \in Account!Threads :
        threads[t] = "delete" /\ work[t].list # <<>> => Account!Primary(work[t].list) \notin work[t].doomed

AccountInv == AccountTypes /\ FreshInv /\ DoomInv

\* The invariant holds at the start.
LEMMA AccountStarts == Account!Init => AccountInv
<1> SUFFICES ASSUME Account!Init PROVE AccountInv
  OBVIOUS
<1> USE DEF Account!Init, Account!Homes, Account!Threads, Account!Home
<1>1. Account!NoWork \in Works /\ Account!NoWork.list = <<>> /\ Account!NoWork.asOf = 0
  BY DEF Account!NoWork, Works, Account!Ways, Account!Starts
<1>2. AccountTypes
  BY <1>1 DEF AccountTypes, Places
<1>3. FreshInv
  BY <1>1 DEF FreshInv, Same
<1>4. DoomInv
  BY DEF DoomInv
<1> QED  BY <1>2, <1>3, <1>4 DEF AccountInv

\* A set of naturals has a least element.
LEMMA LeastNat ==
    ASSUME NEW S \in SUBSET Nat, S # {}
    PROVE  \E a \in S : \A b \in S : a <= b
<1>1. PICK a \in S : \A b \in S : ~ (<<b, a>> \in OpToRel(<, Nat))
  BY Zenon, NatLessThanWellFounded, WFMin
<1>2. \A b \in S : ~ (b < a)
  BY <1>1 DEF OpToRel
<1>3. \A b \in S : a <= b
  <2> SUFFICES ASSUME NEW b \in S PROVE a <= b
    OBVIOUS
  <2>1. ~ (b < a) /\ a \in Nat /\ b \in Nat
    BY <1>2
  <2> QED  BY <2>1
<1> QED  BY <1>3

\* A sequence that is joined from two.
LEMMA Joins ==
    ASSUME NEW M, NEW a \in Seq(M), NEW b \in Seq(M), NEW r, r = a \o b
    PROVE  /\ r \in Seq(M) /\ Len(r) = Len(a) + Len(b)
           /\ \A j \in 1..(Len(a) + Len(b)) : /\ j <= Len(a) => r[j] = a[j]
                                              /\ j > Len(a) => r[j] = b[j - Len(a)]
<1>1. Len(a) \in Nat /\ Len(b) \in Nat
  OBVIOUS
<1>2. /\ a \o b \in Seq(M) /\ Len(a \o b) = Len(a) + Len(b)
      /\ \A j \in 1..(Len(a) + Len(b)) : (a \o b)[j] = IF j <= Len(a) THEN a[j] ELSE b[j - Len(a)]
  BY ConcatProperties
<1> DEFINE c == a \o b
<1>3. r = c
  OBVIOUS
<1> HIDE DEF c
<1> QED  BY <1>1, <1>2, <1>3 DEF c

\* A deletion that spares the last active account leaves it the last one, and
\* leaves an active account if there was any.
LEMMA RemovalSpares ==
    ASSUME NEW s \in Seq(Rows), NEW i \in DOMAIN s, ~LastActive(s, s[i].id)
    PROVE  /\ Account!RemoveAt(s, i) \in Seq(Rows)
           /\ \A id \in Nat : LastActive(Account!RemoveAt(s, i), id) <=> LastActive(s, id)
           /\ Account!Active(s) => Account!Active(Account!RemoveAt(s, i))
<1> DEFINE r == Account!RemoveAt(s, i)
           n == Len(s)
<1>1. n \in Nat /\ DOMAIN s = 1..n /\ i \in 1..n
  OBVIOUS
<1> DEFINE a == SubSeq(s, 1, i - 1)
           b == SubSeq(s, i + 1, n)
<1>2. r = a \o b
  BY DEF Account!RemoveAt
<1> HIDE DEF r
<1>3. a \in Seq(Rows) /\ Len(a) = i - 1 /\ \A j \in 1..(i - 1) : a[j] = s[j]
  BY <1>1
<1>4. b \in Seq(Rows) /\ Len(b) = n - i /\ \A j \in 1..(n - i) : b[j] = s[i + j]
  BY <1>1
<1> HIDE DEF a, b, n
<1>5. /\ r \in Seq(Rows) /\ Len(r) = (i - 1) + (n - i)
      /\ \A j \in 1..((i - 1) + (n - i)) : /\ j <= i - 1 => r[j] = a[j]
                                           /\ j > i - 1 => r[j] = b[j - (i - 1)]
  <2>1. a \in Seq(Rows) /\ b \in Seq(Rows) /\ Len(a) = i - 1 /\ Len(b) = n - i
    BY <1>3, <1>4
  <2>2. /\ r \in Seq(Rows) /\ Len(r) = Len(a) + Len(b)
        /\ \A j \in 1..(Len(a) + Len(b)) : /\ j <= Len(a) => r[j] = a[j]
                                           /\ j > Len(a) => r[j] = b[j - Len(a)]
    BY <1>2, <2>1, Joins
  <2> QED  BY <2>1, <2>2
<1>6. ASSUME NEW j \in 1..(n - 1) PROVE r[j] = IF j < i THEN s[j] ELSE s[j + 1]
  <2>1. j \in 1..((i - 1) + (n - i))
    BY <1>1
  <2>2. CASE j < i
    BY <1>1, <1>3, <1>5, <2>1, <2>2
  <2>3. CASE j >= i
    <3> DEFINE d == j - (i - 1)
    <3>1. r[j] = b[d] /\ d \in 1..(n - i) /\ i + d = j + 1
      BY <1>1, <1>5, <2>1, <2>3
    <3> HIDE DEF d
    <3> QED  BY <1>1, <1>4, <2>3, <3>1
  <2> QED  BY <1>1, <2>2, <2>3
<1>7. DOMAIN r = 1..(n - 1)
  BY <1>1, <1>5
<1>8. ASSUME NEW id \in Nat, LastActive(s, id) PROVE LastActive(r, id)
  <2>1. PICK k \in 1..n : /\ s[k].status = "ACTIVE" /\ s[k].id = id
                          /\ \A j \in 1..n : j > k => s[j].status # "ACTIVE"
    BY <1>1, <1>8 DEF LastActive
  <2>2. k # i
    BY <1>8, <2>1
  <2>3. CASE k < i
    <3>1. k \in DOMAIN r /\ r[k] = s[k]
      BY <1>1, <1>6, <1>7, <2>3
    <3>2. \A j \in DOMAIN r : j > k => r[j].status # "ACTIVE"
      BY <1>1, <1>6, <1>7, <2>1
    <3> QED  BY <2>1, <3>1, <3>2 DEF LastActive
  <2>4. CASE k > i
    <3>1. k - 1 \in DOMAIN r /\ r[k - 1] = s[k]
      BY <1>1, <1>6, <1>7, <2>4
    <3>2. \A j \in DOMAIN r : j > k - 1 => r[j].status # "ACTIVE"
      BY <1>1, <1>6, <1>7, <2>1, <2>4
    <3> QED  BY <2>1, <3>1, <3>2 DEF LastActive
  <2> QED  BY <1>1, <2>2, <2>3, <2>4
<1>9. ASSUME NEW id \in Nat, LastActive(r, id) PROVE LastActive(s, id)
  <2>1. PICK k \in 1..(n - 1) : /\ r[k].status = "ACTIVE" /\ r[k].id = id
                                /\ \A j \in 1..(n - 1) : j > k => r[j].status # "ACTIVE"
    BY <1>7, <1>9 DEF LastActive
  <2>2. PICK m \in 1..n : m = (IF k < i THEN k ELSE k + 1) /\ m # i
    BY <1>1
  <2>3. s[m] = r[k]
    BY <1>1, <1>6, <2>2
  <2>4. ASSUME NEW j \in 1..n, j > m, j # i PROVE s[j].status # "ACTIVE"
    <3>1. CASE j < i
      BY <1>1, <1>6, <2>1, <2>2, <2>4, <3>1
    <3>2. CASE j > i
      <4>1. j - 1 \in 1..(n - 1) /\ j - 1 > k /\ r[j - 1] = s[j]
        BY <1>1, <1>6, <2>2, <2>4, <3>2
      <4> QED  BY <2>1, <4>1
    <3> QED  BY <1>1, <2>4, <3>1, <3>2
  <2>5. i > m => s[i].status # "ACTIVE"
    <3> SUFFICES ASSUME i > m, s[i].status = "ACTIVE" PROVE LastActive(s, s[i].id)
      OBVIOUS
    <3>1. \A j \in 1..n : j > i => s[j].status # "ACTIVE"
      BY <1>1, <2>4
    <3> QED  BY <1>1, <3>1 DEF LastActive
  <2> QED  BY <1>1, <2>1, <2>2, <2>3, <2>4, <2>5 DEF LastActive
<1>10. Account!Active(s) => Account!Active(r)
  <2> SUFFICES ASSUME NEW k \in 1..n, s[k].status = "ACTIVE" PROVE \E j \in 1..(n - 1) : r[j].status = "ACTIVE"
    BY <1>1, <1>7 DEF Account!Active
  <2>1. CASE k < i
    BY <1>1, <1>6, <2>1
  <2>2. CASE k > i
    <3>1. k - 1 \in 1..(n - 1) /\ r[k - 1] = s[k]
      BY <1>1, <1>6, <2>2
    <3> QED  BY <3>1
  <2>3. CASE k = i
    <3>1. ~LastActive(s, s[i].id)
      OBVIOUS
    <3>2. PICK j \in 1..n : j > i /\ s[j].status = "ACTIVE"
      BY <1>1, <2>3, <3>1 DEF LastActive
    <3>3. j - 1 \in 1..(n - 1) /\ r[j - 1] = s[j]
      BY <1>1, <1>6, <3>2
    <3> QED  BY <3>2, <3>3
  <2> QED  BY <1>1, <2>1, <2>2, <2>3
<1> QED  BY <1>5, <1>8, <1>9, <1>10 DEF r

\* The last active account is the one that is kept.
LEMMA PrimaryIsLast ==
    ASSUME NEW s \in Seq(Rows), NEW id \in Nat, LastActive(s, id)
    PROVE  s # <<>> /\ Account!Primary(s) = id
<1>1. PICK k \in DOMAIN s : /\ s[k].status = "ACTIVE" /\ s[k].id = id
                            /\ \A j \in DOMAIN s : j > k => s[j].status # "ACTIVE"
  BY DEF LastActive
<1> DEFINE those == {i \in DOMAIN s : s[i].status = "ACTIVE"}
           pool == IF those = {} THEN DOMAIN s ELSE those
           best == CHOOSE i \in pool : \A j \in pool : j <= i
<1>2. k \in pool /\ \A j \in pool : j \in DOMAIN s /\ j <= k
  BY <1>1
<1>3. \A j \in pool : j \in Int
  BY <1>2
<1>4. best \in pool /\ \A j \in pool : j <= best
  BY <1>2
<1>5. best = k
  BY <1>2, <1>3, <1>4
<1>6. Account!Primary(s) = s[best].id
  BY Zenon DEF Account!Primary
<1>7. s # <<>>
  BY <1>1
<1> HIDE DEF best
<1> QED  BY <1>1, <1>5, <1>6, <1>7

\* While the accounts do not change but by deletions, what is fresh stays so:
\* each list in hand is one that was, or is that of the accounts, or empty.
LEMMA AccountKeeps ==
    ASSUME AccountInv, UNCHANGED <<accounts, opened, changes, late, setting>>,
           rows' \in [Account!Homes -> Lists \cup {Account!Unset}],
           threads' \in [Account!Threads -> Places],
           work' \in [Account!Threads -> Works],
           \A t \in Account!Threads :
               \/ work'[t].list = work[t].list /\ work'[t].asOf = work[t].asOf
               \/ work'[t].list = <<>> /\ work'[t].asOf = 0
               \/ work'[t].list = accounts /\ work'[t].asOf = changes
               \/ \E p \in Account!Homes : /\ rows[p] # Account!Unset
                                           /\ work'[t].list = rows[p].list /\ work'[t].asOf = rows[p].asOf,
           \A p \in Account!Homes :
               \/ rows'[p] = rows[p] \/ rows'[p] = Account!Unset
               \/ \E t \in Account!Threads : rows'[p].list = work[t].list /\ rows'[p].asOf = work[t].asOf,
           \A t \in Account!Threads :
               threads'[t] = "delete" =>
                  \/ /\ threads[t] = "delete" /\ work'[t].list = work[t].list
                     /\ work'[t].doomed \subseteq work[t].doomed
                  \/ work'[t].list # <<>> => Account!Primary(work'[t].list) \notin work'[t].doomed
    PROVE  AccountInv'
<1> USE DEF AccountInv
<1>1. Account!Homes' = Account!Homes /\ Account!Threads' = Account!Threads
  BY DEF Account!Homes, Account!Threads, Account!Home
<1>2. AccountTypes'
  BY <1>1 DEF AccountTypes
<1>3. changes \in Nat /\ \A s : Same(s)' = Same(s)
  BY DEF AccountTypes, Same
<1>4. changes = 0 => accounts = <<>>
  BY DEF FreshInv
<1>5. \A t \in Account!Threads : work'[t].asOf <= changes
  BY <1>3 DEF FreshInv
<1>6. \A p \in Account!Homes : rows'[p] # Account!Unset => rows'[p].asOf <= changes
  BY <1>3 DEF FreshInv
<1>7. ASSUME ~late, NEW t \in Account!Threads, work'[t].asOf = changes PROVE Same(work'[t].list)
  <2>1. CASE work'[t].list = <<>> /\ work'[t].asOf = 0
    BY <2>1, <1>4, <1>7 DEF Same
  <2>2. CASE work'[t].list = accounts
    BY <2>2 DEF Same
  <2>3. CASE work'[t].list = work[t].list /\ work'[t].asOf = work[t].asOf
    BY <2>3, <1>7 DEF FreshInv
  <2>4. CASE \E p \in Account!Homes : /\ rows[p] # Account!Unset
                                      /\ work'[t].list = rows[p].list /\ work'[t].asOf = rows[p].asOf
    BY <2>4, <1>7 DEF FreshInv
  <2> QED  BY <2>1, <2>2, <2>3, <2>4
<1>8. ASSUME ~late, NEW p \in Account!Homes, rows'[p] # Account!Unset, rows'[p].asOf = changes PROVE Same(rows'[p].list)
  BY <1>8 DEF FreshInv
<1>9. FreshInv'
  BY <1>1, <1>3, <1>4, <1>5, <1>6, <1>7, <1>8 DEF FreshInv
<1>10. DoomInv'
  BY <1>1 DEF DoomInv
<1> QED  BY <1>2, <1>9, <1>10

\* A step of one thread that leaves the accounts alone.
LEMMA AccountThread ==
    ASSUME AccountInv, UNCHANGED <<accounts, opened, changes, late, setting>>,
           NEW t \in Account!Threads, NEW place \in Places, NEW w \in Works,
           threads' = [threads EXCEPT ![t] = place], work' = [work EXCEPT ![t] = w],
           \/ w.list = work[t].list /\ w.asOf = work[t].asOf
           \/ w.list = <<>> /\ w.asOf = 0
           \/ w.list = accounts /\ w.asOf = changes
           \/ \E p \in Account!Homes : rows[p] # Account!Unset /\ w.list = rows[p].list /\ w.asOf = rows[p].asOf,
           rows' \in [Account!Homes -> Lists \cup {Account!Unset}],
           \A p \in Account!Homes :
               \/ rows'[p] = rows[p] \/ rows'[p] = Account!Unset
               \/ \E u \in Account!Threads : rows'[p].list = work[u].list /\ rows'[p].asOf = work[u].asOf,
           place = "delete" => \/ threads[t] = "delete" /\ w.list = work[t].list /\ w.doomed \subseteq work[t].doomed
                               \/ w.list # <<>> => Account!Primary(w.list) \notin w.doomed
    PROVE  AccountInv'
<1>1. threads' \in [Account!Threads -> Places] /\ work' \in [Account!Threads -> Works]
  BY DEF AccountInv, AccountTypes
<1>2. threads'[t] = place /\ work'[t] = w
  BY DEF AccountInv, AccountTypes
<1>3. \A u \in Account!Threads : u # t => threads'[u] = threads[u] /\ work'[u] = work[u]
  BY DEF AccountInv, AccountTypes
<1>4. \A u \in Account!Threads :
         \/ work'[u].list = work[u].list /\ work'[u].asOf = work[u].asOf
         \/ work'[u].list = <<>> /\ work'[u].asOf = 0
         \/ work'[u].list = accounts /\ work'[u].asOf = changes
         \/ \E p \in Account!Homes : /\ rows[p] # Account!Unset
                                     /\ work'[u].list = rows[p].list /\ work'[u].asOf = rows[p].asOf
  BY <1>2, <1>3
<1>5. \A u \in Account!Threads :
         threads'[u] = "delete" =>
            \/ /\ threads[u] = "delete" /\ work'[u].list = work[u].list
               /\ work'[u].doomed \subseteq work[u].doomed
            \/ work'[u].list # <<>> => Account!Primary(work'[u].list) \notin work'[u].doomed
  BY <1>2, <1>3
<1> QED  BY <1>1, <1>4, <1>5, AccountKeeps

\* A thread looks for the accounts, in the cache or at Composio.
LEMMA AccountLooks ==
    ASSUME AccountInv, UNCHANGED setting, NEW t \in Account!Threads,
           \/ Account!Hit(t) \/ Account!Touch(t) \/ Account!Miss(t) \/ Account!Fetch(t)
           \/ Account!FetchFails(t) \/ Account!Store(t)
    PROVE  AccountInv'
<1> USE DEF Account!remote, Account!caches, Account!Goes, Account!Done, Account!Cached
<1> DEFINE p == Account!Home[t]
<1>1. p \in Account!Homes
  BY DEF Account!Homes
<1>2. /\ work[t] \in Works /\ work \in [Account!Threads -> Works]
      /\ rows \in [Account!Homes -> Lists \cup {Account!Unset}]
      /\ accounts \in Seq(Rows) /\ changes \in Nat
  BY DEF AccountInv, AccountTypes
<1>3. Account!NoWork \in Works /\ Account!NoWork.list = <<>> /\ Account!NoWork.asOf = 0
  BY DEF Account!NoWork, Works, Account!Ways, Account!Starts
<1>4. work = [work EXCEPT ![t] = work[t]]
  BY <1>2
<1> HIDE DEF p
<1>5. CASE Account!Hit(t)
  <2> DEFINE w == [work[t] EXCEPT !.list = rows[p].list, !.asOf = rows[p].asOf]
  <2>1. rows[p] \in Lists /\ rows[p] # Account!Unset
    BY <1>1, <1>2, <1>5 DEF Account!Hit, p
  <2>2. w \in Works /\ w.list = rows[p].list /\ w.asOf = rows[p].asOf
    BY <1>2, <2>1 DEF Works, Lists
  <2>3. work' = [work EXCEPT ![t] = w]
    BY <1>2, <1>5 DEF Account!Hit, p
  <2>4. /\ UNCHANGED <<accounts, opened, changes, late, rows>>
        /\ threads' = [threads EXCEPT ![t] = "touch"]
    BY <1>5 DEF Account!Hit
  <2> HIDE DEF w
  <2> QED  BY <1>1, <1>2, <2>1, <2>2, <2>3, <2>4, AccountThread DEF Places
<1>6. CASE Account!Touch(t)
  <2>1. UNCHANGED <<accounts, opened, changes, late, rows>>
    BY <1>6 DEF Account!Touch
  <2>2. CASE rows[p] # Account!Unset
    <3>1. threads' = [threads EXCEPT ![t] = "listed"] /\ work' = work
      BY <1>6, <2>2 DEF Account!Touch, p
    <3> QED  BY <1>2, <1>4, <2>1, <3>1, AccountThread DEF Places
  <2>3. CASE rows[p] = Account!Unset
    <3>1. threads' = [threads EXCEPT ![t] = "idle"] /\ work' = [work EXCEPT ![t] = Account!NoWork]
      BY <1>6, <2>3 DEF Account!Touch, p
    <3> QED  BY <1>2, <1>3, <2>1, <3>1, AccountThread DEF Places
  <2> QED  BY <2>2, <2>3
<1>7. CASE Account!Miss(t)
  <2>1. /\ UNCHANGED <<accounts, opened, changes, late, rows, work>>
        /\ threads' = [threads EXCEPT ![t] = "fetch"]
    BY <1>7 DEF Account!Miss
  <2> QED  BY <1>2, <1>4, <2>1, AccountThread DEF Places
<1>8. CASE Account!Fetch(t)
  <2> DEFINE w == [work[t] EXCEPT !.list = accounts, !.asOf = changes]
  <2>1. w \in Works /\ w.list = accounts /\ w.asOf = changes
    BY <1>2 DEF Works
  <2>2. work' = [work EXCEPT ![t] = w]
    BY <1>2, <1>8 DEF Account!Fetch
  <2>3. /\ UNCHANGED <<accounts, opened, changes, late, rows>>
        /\ threads' = [threads EXCEPT ![t] = "store"]
    BY <1>8 DEF Account!Fetch
  <2> HIDE DEF w
  <2> QED  BY <1>2, <2>1, <2>2, <2>3, AccountThread DEF Places
<1>9. CASE Account!FetchFails(t)
  <2>1. /\ UNCHANGED <<accounts, opened, changes, late, rows>>
        /\ threads' = [threads EXCEPT ![t] = "idle"] /\ work' = [work EXCEPT ![t] = Account!NoWork]
    BY <1>9 DEF Account!FetchFails
  <2> QED  BY <1>2, <1>3, <2>1, AccountThread DEF Places
<1>10. CASE Account!Store(t)
  <2> DEFINE e == [list |-> work[t].list, asOf |-> work[t].asOf]
  <2>1. e \in Lists /\ e.list = work[t].list /\ e.asOf = work[t].asOf
    BY <1>2 DEF Works, Lists
  <2>2. /\ UNCHANGED <<accounts, opened, changes, late, work>>
        /\ threads' = [threads EXCEPT ![t] = "listed"] /\ rows' = [rows EXCEPT ![p] = e]
    BY <1>10 DEF Account!Store, p
  <2> HIDE DEF e
  <2>3. rows' \in [Account!Homes -> Lists \cup {Account!Unset}]
    BY <1>1, <1>2, <2>1, <2>2
  <2>4. \A q \in Account!Homes : \/ rows'[q] = rows[q] \/ rows'[q] = Account!Unset
            \/ \E u \in Account!Threads : rows'[q].list = work[u].list /\ rows'[q].asOf = work[u].asOf
    BY <1>1, <1>2, <2>1, <2>2
  <2> QED  BY <1>2, <1>4, <2>2, <2>3, <2>4, AccountThread DEF Places
<1> QED  BY <1>5, <1>6, <1>7, <1>8, <1>9, <1>10

\* A thread goes its way, and Composio has no part in it.
LEMMA AccountWorks ==
    ASSUME AccountInv, UNCHANGED setting, NEW t \in Account!Threads,
           \/ Account!Invalidate(t) \/ Account!Group(t) \/ Account!Choose(t) \/ Account!DeleteFails(t)
           \/ Account!NothingToClean(t) \/ Account!Cleaned(t) \/ Account!Looked(t)
           \/ Account!AlreadyConnected(t) \/ Account!OpenFails(t) \/ Account!SetPrompt(t) \/ Account!LoadTools(t)
           \/ \E way \in Account!Starts : Account!Start(t, way)
    PROVE  AccountInv'
<1> USE DEF Account!remote, Account!caches, Account!Goes, Account!Done, Account!Cached
<1> DEFINE p == Account!Home[t]
<1>1. p \in Account!Homes
  BY DEF Account!Homes
<1>2. /\ work[t] \in Works /\ work \in [Account!Threads -> Works]
      /\ rows \in [Account!Homes -> Lists \cup {Account!Unset}]
      /\ accounts \in Seq(Rows) /\ changes \in Nat
      /\ threads \in [Account!Threads -> Places]
  BY DEF AccountInv, AccountTypes
<1>3. Account!NoWork \in Works /\ Account!NoWork.list = <<>> /\ Account!NoWork.asOf = 0
  BY DEF Account!NoWork, Works, Account!Ways, Account!Starts
<1>4. work = [work EXCEPT ![t] = work[t]]
  BY <1>2
<1>5. rows' = rows => rows' \in [Account!Homes -> Lists \cup {Account!Unset}]
  BY <1>2
<1>6. [rows EXCEPT ![p] = Account!Unset] \in [Account!Homes -> Lists \cup {Account!Unset}]
      /\ \A q \in Account!Homes : [rows EXCEPT ![p] = Account!Unset][q] \in {rows[q], Account!Unset}
  BY <1>1, <1>2
<1> HIDE DEF p
<1>7. CASE Account!Invalidate(t)
  <2>1. UNCHANGED <<accounts, opened, changes, late>> /\ rows' = [rows EXCEPT ![p] = Account!Unset]
    BY <1>7 DEF Account!Invalidate, Account!Invalidated, p
  <2>2. CASE work[t].way = "opened"
    <3>1. threads' = [threads EXCEPT ![t] = "idle"] /\ work' = [work EXCEPT ![t] = Account!NoWork]
      BY <1>7, <2>2 DEF Account!Invalidate
    <3> QED  BY <1>3, <1>6, <2>1, <3>1, AccountThread DEF Places
  <2>3. CASE work[t].way # "opened"
    <3>1. threads' = [threads EXCEPT ![t] = "get"] /\ work' = work
      BY <1>7, <2>3 DEF Account!Invalidate
    <3> QED  BY <1>2, <1>4, <1>6, <2>1, <3>1, AccountThread DEF Places
  <2> QED  BY <2>2, <2>3
<1>8. CASE Account!Group(t)
  <2> DEFINE g == [list |-> work[t].list, asOf |-> work[t].asOf]
             w == [work[t] EXCEPT !.group = g]
  <2>1. g \in Lists
    BY <1>2 DEF Works, Lists
  <2>2. w \in Works /\ w.list = work[t].list /\ w.asOf = work[t].asOf
    BY <1>2, <2>1 DEF Works
  <2>3. /\ UNCHANGED <<accounts, opened, changes, late, rows>>
        /\ threads' = [threads EXCEPT ![t] = "get"] /\ work' = [work EXCEPT ![t] = w]
    BY <1>2, <1>8 DEF Account!Group
  <2> HIDE DEF w
  <2> QED  BY <1>2, <2>2, <2>3, AccountThread DEF Places
<1>9. CASE Account!Choose(t)
  <2> DEFINE d == {a.id : a \in Account!ToSet(work[t].group.list)} \ {Account!Kept(t)}
             w == [work[t] EXCEPT !.doomed = d]
  <2>1. work[t].group \in Lists
    BY <1>2, <1>9 DEF Account!Choose, Works
  <2>2. d \in SUBSET Nat
    <3>1. PICK s \in Seq(Rows) : s = work[t].group.list
      BY <2>1 DEF Lists
    <3>2. \A i \in DOMAIN s : s[i] \in Rows
      OBVIOUS
    <3>3. \A a \in Account!ToSet(s) : a.id \in Nat
      BY <3>2 DEF Rows, Account!ToSet
    <3> QED  BY <3>1, <3>3
  <2>3. work[t].list # <<>> => Account!Primary(work[t].list) \notin d
    BY DEF Account!Kept
  <2> HIDE DEF d
  <2>4. w \in Works /\ w.list = work[t].list /\ w.asOf = work[t].asOf /\ w.doomed = d
    BY <1>2, <2>2 DEF Works
  <2>5. /\ UNCHANGED <<accounts, opened, changes, late, rows>>
        /\ threads' = [threads EXCEPT ![t] = "delete"] /\ work' = [work EXCEPT ![t] = w]
    BY <1>2, <1>9 DEF Account!Choose, d
  <2> HIDE DEF w
  <2> QED  BY <1>2, <2>3, <2>4, <2>5, AccountThread DEF Places
<1>10. CASE Account!DeleteFails(t)
  <2> DEFINE w == [work[t] EXCEPT !.doomed = @ \ {Account!Oldest(t)}]
  <2>1. /\ w \in Works /\ w.list = work[t].list /\ w.asOf = work[t].asOf
        /\ w.doomed \subseteq work[t].doomed
    BY <1>2 DEF Works
  <2>2. /\ UNCHANGED <<accounts, opened, changes, late, rows, threads>>
        /\ threads[t] = "delete" /\ work' = [work EXCEPT ![t] = w]
    BY <1>2, <1>10 DEF Account!DeleteFails
  <2>3. threads' = [threads EXCEPT ![t] = "delete"]
    BY <1>2, <2>2
  <2> HIDE DEF w
  <2> QED  BY <1>2, <2>1, <2>2, <2>3, AccountThread DEF Places
<1>11. CASE Account!NothingToClean(t) \/ Account!Cleaned(t)
  <2> DEFINE w == [Account!NoWork EXCEPT !.way = IF work[t].way = "overview" THEN "look" ELSE "open"]
  <2>1. w \in Works /\ w.list = <<>> /\ w.asOf = 0
    BY <1>3 DEF Works, Account!Ways
  <2>2. /\ UNCHANGED <<accounts, opened, changes, late>>
        /\ threads' = [threads EXCEPT ![t] = "get"] /\ work' = [work EXCEPT ![t] = w]
        /\ rows' = rows \/ rows' = [rows EXCEPT ![p] = Account!Unset]
    BY <1>11 DEF Account!NothingToClean, Account!Cleaned, Account!Onwards, Account!Invalidated, p
  <2> HIDE DEF w
  <2> QED  BY <1>2, <1>5, <1>6, <2>1, <2>2, AccountThread DEF Places
<1>12. CASE Account!Looked(t) \/ Account!AlreadyConnected(t) \/ Account!OpenFails(t)
            \/ Account!SetPrompt(t) \/ Account!LoadTools(t)
  <2>1. /\ UNCHANGED <<accounts, opened, changes, late, rows>>
        /\ threads' = [threads EXCEPT ![t] = "idle"] /\ work' = [work EXCEPT ![t] = Account!NoWork]
    BY <1>12 DEF Account!Looked, Account!AlreadyConnected, Account!OpenFails, Account!SetPrompt, Account!LoadTools
  <2> QED  BY <1>2, <1>3, <2>1, AccountThread DEF Places
<1>13. CASE \E way \in Account!Starts : Account!Start(t, way)
  <2> PICK way \in Account!Starts : Account!Start(t, way)
    BY <1>13
  <2> DEFINE w == [work[t] EXCEPT !.way = way]
  <2>1. w \in Works /\ w.list = work[t].list /\ w.asOf = work[t].asOf
    BY <1>2 DEF Works, Account!Ways
  <2>2. /\ UNCHANGED <<accounts, opened, changes, late, rows>>
        /\ work' = [work EXCEPT ![t] = w]
        /\ threads' = [threads EXCEPT ![t] = "invalidate"] \/ threads' = [threads EXCEPT ![t] = "get"]
    BY <1>2 DEF Account!Start
  <2> HIDE DEF w
  <2> QED  BY <1>2, <2>1, <2>2, AccountThread DEF Places
<1> QED  BY <1>7, <1>8, <1>9, <1>10, <1>11, <1>12, <1>13

\* An entry ages.
LEMMA AccountAges ==
    ASSUME AccountInv, UNCHANGED setting, NEW p \in Account!Homes,
           Account!AgeRows(p) \/ Account!AgePrompt(p) \/ Account!AgeTools(p)
    PROVE  AccountInv'
<1>1. /\ UNCHANGED <<accounts, opened, changes, late, threads, work>>
      /\ rows' = rows \/ rows' = [rows EXCEPT ![p] = Account!Unset]
  BY DEF Account!AgeRows, Account!AgePrompt, Account!AgeTools, Account!remote, Account!threads
<1>2. /\ rows \in [Account!Homes -> Lists \cup {Account!Unset}]
      /\ threads \in [Account!Threads -> Places] /\ work \in [Account!Threads -> Works]
  BY DEF AccountInv, AccountTypes
<1>3. /\ rows' \in [Account!Homes -> Lists \cup {Account!Unset}]
      /\ \A q \in Account!Homes : rows'[q] = rows[q] \/ rows'[q] = Account!Unset
  BY <1>1, <1>2
<1> QED  BY <1>1, <1>2, <1>3, AccountKeeps

\* The accounts change: nothing that was listed is as new as they are.
LEMMA AccountChanges ==
    ASSUME AccountInv, UNCHANGED setting,
           Account!StatusChanges \/ \E t \in Account!Threads : Account!Open(t)
    PROVE  AccountInv'
<1> USE DEF AccountInv, Account!Change
<1>1. Account!Homes' = Account!Homes /\ Account!Threads' = Account!Threads
  BY DEF Account!Homes, Account!Threads, Account!Home
<1>2. /\ accounts \in Seq(Rows) /\ opened \in Nat /\ changes \in Nat
      /\ work \in [Account!Threads -> Works] /\ threads \in [Account!Threads -> Places]
      /\ rows \in [Account!Homes -> Lists \cup {Account!Unset}]
  BY DEF AccountTypes
<1>3. changes' = changes + 1 /\ UNCHANGED <<late, rows>>
  BY DEF Account!StatusChanges, Account!Open, Account!caches
<1>4. /\ accounts' \in Seq(Rows) /\ opened' \in Nat
      /\ work' \in [Account!Threads -> Works] /\ threads' \in [Account!Threads -> Places]
      /\ \A t \in Account!Threads : /\ work'[t].asOf = work[t].asOf /\ work'[t].list = work[t].list
                                    /\ work'[t].doomed = work[t].doomed
                                    /\ threads'[t] = "delete" => threads[t] = "delete"
  <2>1. CASE Account!StatusChanges
    <3>1. UNCHANGED <<opened, work, threads>>
      BY <2>1 DEF Account!StatusChanges, Account!threads
    <3>2. PICK i \in DOMAIN accounts, s \in {"ACTIVE", "EXPIRED"} : accounts' = [accounts EXCEPT ![i].status = s]
      BY <2>1 DEF Account!StatusChanges
    <3>3. [accounts[i] EXCEPT !.status = s] \in Rows
      <4>1. accounts[i] \in Rows
        BY <1>2
      <4> QED  BY <4>1 DEF Rows
    <3>4. accounts' = [accounts EXCEPT ![i] = [accounts[i] EXCEPT !.status = s]]
      BY <1>2, <3>2
    <3>5. accounts' \in Seq(Rows)
      BY <1>2, <3>3, <3>4
    <3> QED  BY <1>2, <3>1, <3>5
  <2>2. CASE \E t \in Account!Threads : Account!Open(t)
    <3> PICK t \in Account!Threads : Account!Open(t)
      BY <2>2
    <3> DEFINE w == [work[t] EXCEPT !.way = "opened"]
    <3>1. /\ accounts' = Append(accounts, [id |-> opened + 1, status |-> "INITIATED"])
          /\ opened' = opened + 1 /\ threads' = [threads EXCEPT ![t] = "invalidate"]
          /\ work' = [work EXCEPT ![t] = w]
      BY <1>2 DEF Account!Open, Account!Goes
    <3>2. accounts' \in Seq(Rows) /\ opened' \in Nat
      BY <1>2, <3>1 DEF Rows
    <3>3. /\ w \in Works /\ w.asOf = work[t].asOf /\ w.list = work[t].list
          /\ w.doomed = work[t].doomed
      BY <1>2 DEF Works, Account!Ways
    <3> HIDE DEF w
    <3> QED  BY <1>2, <3>1, <3>2, <3>3 DEF Places
  <2> QED  BY <2>1, <2>2
<1>5. AccountTypes'
  BY <1>1, <1>2, <1>3, <1>4 DEF AccountTypes
<1>6. FreshInv'
  <2>1. \A t \in Account!Threads : work'[t].asOf <= changes /\ work'[t].asOf \in Nat
    BY <1>2, <1>4 DEF FreshInv, Works
  <2>2. \A p \in Account!Homes : rows[p] # Account!Unset => rows[p].asOf <= changes /\ rows[p].asOf \in Nat
    BY <1>2 DEF FreshInv, Lists
  <2> QED  BY <1>1, <1>2, <1>3, <2>1, <2>2 DEF FreshInv
<1>7. DoomInv'
  BY <1>1, <1>4 DEF DoomInv
<1> QED  BY <1>5, <1>6, <1>7

\* A deletion: a cleanup whose lists are as new as the accounts spares the one
\* that all such lists name.
LEMMA AccountDeletes ==
    ASSUME AccountInv, UNCHANGED setting, NEW t \in Account!Threads, Account!Delete(t)
    PROVE  AccountInv' /\ (~late' /\ Account!Active(accounts) => Account!Active(accounts'))
<1> USE DEF AccountInv
<1> DEFINE d == Account!Oldest(t)
           w == [work[t] EXCEPT !.doomed = @ \ {d}, !.removed = TRUE]
<1>1. Account!Homes' = Account!Homes /\ Account!Threads' = Account!Threads
  BY DEF Account!Homes, Account!Threads, Account!Home
<1>2. /\ accounts \in Seq(Rows) /\ opened \in Nat /\ changes \in Nat
      /\ work \in [Account!Threads -> Works] /\ threads \in [Account!Threads -> Places]
      /\ rows \in [Account!Homes -> Lists \cup {Account!Unset}]
  BY DEF AccountTypes
<1>3. /\ UNCHANGED <<opened, changes, rows, threads>>
      /\ threads[t] = "delete" /\ work[t].doomed # {}
      /\ late' = (late \/ {work[t].asOf, work[t].group.asOf} # {changes})
  BY DEF Account!Delete, Account!caches
<1>4. work' = [work EXCEPT ![t] = w]
  BY <1>2 DEF Account!Delete
<1>5. PICK i \in DOMAIN accounts : accounts[i].id = d /\ accounts' = Account!RemoveAt(accounts, i)
  BY DEF Account!Delete
<1>6. d \in work[t].doomed
  <2>1. work[t].doomed \in SUBSET Nat /\ work[t].doomed # {}
    BY <1>2, <1>3 DEF Works
  <2>2. PICK S \in SUBSET Nat : S = work[t].doomed /\ S # {}
    BY <2>1
  <2>3. \E a \in S : \A b \in S : a <= b
    BY <2>2, LeastNat
  <2> QED  BY <2>2, <2>3 DEF Account!Oldest
<1>7. /\ w \in Works /\ w.list = work[t].list /\ w.asOf = work[t].asOf
      /\ w.doomed \subseteq work[t].doomed
  BY <1>2 DEF Works
<1> HIDE DEF w, d
<1>8. work' \in [Account!Threads -> Works]
  BY <1>2, <1>4, <1>7
<1>9. \A u \in Account!Threads : /\ work'[u].list = work[u].list /\ work'[u].asOf = work[u].asOf
                                 /\ work'[u].doomed \subseteq work[u].doomed
  BY <1>2, <1>4, <1>7
<1>10. \/ ~LastActive(accounts, accounts[i].id)
       \/ late'
  <2> SUFFICES ASSUME ~late', LastActive(accounts, d) PROVE FALSE
    BY <1>5
  <2>1. ~late /\ work[t].asOf = changes
    BY <1>3
  <2>2. d \in Nat
    BY <1>2, <1>6 DEF Works
  <2>3. LastActive(work[t].list, d)
    BY <2>1, <2>2 DEF FreshInv, Same
  <2>4. work[t].list \in Seq(Rows)
    BY <1>2 DEF Works
  <2>5. PICK s \in Seq(Rows) : s = work[t].list
    BY <2>4
  <2>6. s # <<>> /\ Account!Primary(s) = d
    BY <2>2, <2>3, <2>5, PrimaryIsLast
  <2> QED  BY <1>3, <1>6, <2>5, <2>6 DEF DoomInv
<1>11. CASE ~LastActive(accounts, accounts[i].id)
  <2>1. PICK s \in Seq(Rows) : s = accounts
    BY <1>2
  <2>2. /\ Account!RemoveAt(s, i) \in Seq(Rows)
        /\ \A id \in Nat : LastActive(Account!RemoveAt(s, i), id) <=> LastActive(s, id)
        /\ Account!Active(s) => Account!Active(Account!RemoveAt(s, i))
    BY <1>5, <1>11, <2>1, RemovalSpares
  <2>3. /\ accounts' \in Seq(Rows)
        /\ \A id \in Nat : LastActive(accounts', id) <=> LastActive(accounts, id)
        /\ Account!Active(accounts) => Account!Active(accounts')
    BY <1>5, <2>1, <2>2
  <2>4. AccountTypes'
    BY <1>1, <1>2, <1>3, <1>8, <2>3 DEF AccountTypes
  <2>5. changes = 0 => accounts' = <<>>
    BY <1>2, <1>5 DEF FreshInv
  <2>6. \A s_1 : Same(s_1) => Same(s_1)'
    BY <2>3 DEF Same
  <2>7. ~late' => ~late
    BY <1>3
  <2>8. FreshInv'
    BY <1>1, <1>3, <1>9, <2>5, <2>6, <2>7 DEF FreshInv
  <2>9. DoomInv'
    BY <1>1, <1>3, <1>9 DEF DoomInv
  <2> QED  BY <2>3, <2>4, <2>8, <2>9
<1>12. CASE late'
  <2>1. accounts' \in Seq(Rows)
    BY <1>2, <1>5 DEF Account!RemoveAt
  <2>2. AccountTypes'
    BY <1>1, <1>2, <1>3, <1>8, <2>1 DEF AccountTypes
  <2>3. changes = 0 => accounts' = <<>>
    BY <1>2, <1>5 DEF FreshInv
  <2>4. FreshInv'
    BY <1>1, <1>3, <1>9, <1>12, <2>3 DEF FreshInv
  <2>5. DoomInv'
    BY <1>1, <1>3, <1>9 DEF DoomInv
  <2> QED  BY <1>12, <2>2, <2>4, <2>5
<1> QED  BY <1>10, <1>11, <1>12

\* Every step keeps the invariant, and an active account.
LEMMA AccountSteps ==
    ASSUME AccountInv, [Account!Next]_account
    PROVE  AccountInv' /\ Account!KeepsActive
<1>1. CASE UNCHANGED account
  <2>1. UNCHANGED <<setting, accounts, opened, changes, rows, threads, work, late>>
    BY <1>1 DEF account
  <2>2. AccountInv'
    <3>1. AccountTypes'
      BY <2>1 DEF AccountInv, AccountTypes, Account!Homes, Account!Threads, Account!Home
    <3>2. FreshInv'
      BY <2>1 DEF AccountInv, FreshInv, Same, Account!Homes, Account!Threads, Account!Home
    <3>3. DoomInv'
      BY <2>1 DEF AccountInv, DoomInv, Same, Account!Homes, Account!Threads, Account!Home
    <3> QED  BY <3>1, <3>2, <3>3 DEF AccountInv
  <2> QED  BY <2>1, <2>2 DEF Account!KeepsActive
<1>2. CASE Account!Next
  <2> USE <1>2 DEF Account!Next
  <2>1. UNCHANGED setting
    OBVIOUS
  <2>2. CASE \E t \in Account!Threads : Account!Delete(t)
    BY <2>1, <2>2, AccountDeletes DEF Account!KeepsActive
  <2>3. CASE Account!StatusChanges
    <3>1. UNCHANGED work
      BY <2>3 DEF Account!StatusChanges, Account!threads
    <3> QED  BY <2>1, <2>3, <3>1, AccountChanges DEF Account!KeepsActive
  <2>4. CASE \E t \in Account!Threads : Account!Open(t)
    <3>1. \A u \in Account!Threads : work'[u].doomed = work[u].doomed
      BY <2>4 DEF Account!Open, AccountInv, AccountTypes, Works
    <3> QED  BY <2>1, <2>4, <3>1, AccountChanges DEF Account!KeepsActive
  <2>5. ASSUME NEW t \in Account!Threads,
               \/ Account!Hit(t) \/ Account!Touch(t) \/ Account!Miss(t) \/ Account!Fetch(t)
               \/ Account!FetchFails(t) \/ Account!Store(t)
        PROVE  AccountInv' /\ Account!KeepsActive
    <3>1. UNCHANGED accounts
      BY <2>5 DEF Account!Hit, Account!Touch, Account!Miss, Account!Fetch, Account!FetchFails, Account!Store, Account!remote
    <3> QED  BY <2>1, <2>5, <3>1, AccountLooks DEF Account!KeepsActive
  <2>6. ASSUME NEW t \in Account!Threads,
               \/ Account!Invalidate(t) \/ Account!Group(t) \/ Account!Choose(t) \/ Account!DeleteFails(t)
               \/ Account!NothingToClean(t) \/ Account!Cleaned(t) \/ Account!Looked(t)
               \/ Account!AlreadyConnected(t) \/ Account!OpenFails(t) \/ Account!SetPrompt(t) \/ Account!LoadTools(t)
               \/ \E way \in Account!Starts : Account!Start(t, way)
        PROVE  AccountInv' /\ Account!KeepsActive
    <3>1. UNCHANGED accounts
      BY <2>6 DEF Account!Invalidate, Account!Group, Account!Choose, Account!DeleteFails, Account!NothingToClean,
                  Account!Cleaned, Account!Looked, Account!AlreadyConnected, Account!OpenFails, Account!SetPrompt,
                  Account!LoadTools, Account!Start, Account!remote
    <3> QED  BY <2>1, <2>6, <3>1, AccountWorks DEF Account!KeepsActive
  <2>7. CASE \E p \in Account!Homes : Account!AgeRows(p) \/ Account!AgePrompt(p) \/ Account!AgeTools(p)
    <3>1. UNCHANGED accounts
      BY <2>7 DEF Account!AgeRows, Account!AgePrompt, Account!AgeTools, Account!remote
    <3> QED  BY <2>1, <2>7, <3>1, AccountAges DEF Account!KeepsActive
  <2> QED  BY <2>2, <2>3, <2>4, <2>5, <2>6, <2>7 DEF Account!Step
<1> QED  BY <1>1, <1>2

\* Cleanups by lists as new as the accounts leave an active account if there
\* was one, for any number of threads and processes, whatever their caches
\* dropped and whichever deletions failed (composio.py,
\* cleanup_duplicate_toolkit_connections).
THEOREM ActiveIsKept == PartSpec => ActiveKept
<1> DEFINE Inv == part = "accounts" => AccountInv
           Keeps == part = "accounts" => Account!KeepsActive
<1>1. PartInit => Inv
  BY AccountStarts DEF PartInit
<1>2. Inv /\ [PartNext]_all => Inv' /\ [Keeps]_all
  BY AccountSteps DEF PartNext, all, account
<1> QED  BY <1>1, <1>2, PTL DEF PartSpec, ActiveKept
=============================================================================
