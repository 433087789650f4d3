-------------------------- MODULE AutomationRunner --------------------------
(***************************************************************************)
(* The runs of one saved automation: a cron tick, a webhook event or a     *)
(* click queues a run (queue_automation_run), which is skipped or recorded *)
(* in the run table and executed by a background task (execute_automation) *)
(* under a lock of its API process.  The automation and its runs are rows  *)
(* of a database that all processes share; every access is an await.  The  *)
(* run table has one row per trigger at most, so a row has its name.       *)
(***************************************************************************)
EXTENDS Integers, FiniteSets

CONSTANTS
    Triggers,       \* ticks, events and clicks that queue a run
    Procs,          \* API processes
    Threshold,      \* max_failures_before_pause
    MaxCrashes,     \* bound on the deaths of processes
    MaxErrors,      \* bound on the calls of the database that fail
    MaxResets,      \* bound on the resets of the failure count by the user
    None            \* no run

ASSUME RunnerAssumption ==
    /\ Threshold \in Nat
    /\ MaxCrashes \in Nat /\ MaxErrors \in Nat /\ MaxResets \in Nat
    /\ None \notin Triggers

VARIABLES
    active,         \* automation row: status is "active" (else "paused")
    failures,       \* automation row: consecutive_failures
    current,        \* automation row: current_run_id
    row,            \* run table: the status of each trigger's row
    pc,             \* trigger: the await its handler or task is at
    proc,           \* trigger: its process
    seen,           \* trigger: status and failure count it read
    busy,           \* trigger: what has_running_run told it
    outcome,        \* trigger: how its run ended
    prev,           \* trigger: the failure count it is about to increment
    lock,           \* process: the trigger that holds _run_guard's lock
    crashes, errors, resets,    \* counted up to their bounds
    since,          \* history: runs closed as failed since a success or reset
    missed,         \* history: runs closed, but whose end was never counted
    raced           \* history: two ends were counted in another order or at once

automation == <<active, failures, current>>
local == <<proc, seen, busy, outcome, prev>>
bounds == <<crashes, errors, resets>>
history == <<since, missed, raced>>
vars == <<automation, row, pc, local, lock, bounds, history>>

Init ==
    /\ active = TRUE /\ failures = 0 /\ current = None
    /\ row = [t \in Triggers |-> "none"]
    /\ pc = [t \in Triggers |-> "new"]
    /\ proc \in [Triggers -> Procs]
    /\ seen = [t \in Triggers |-> [active |-> TRUE, failures |-> 0]]
    /\ busy = [t \in Triggers |-> FALSE]
    /\ outcome = [t \in Triggers |-> "failed"]
    /\ prev = [t \in Triggers |-> 0]
    /\ lock = [p \in Procs |-> None]
    /\ crashes = 0 /\ errors = 0 /\ resets = 0
    /\ since = {} /\ missed = {} /\ raced = FALSE

Go(t, p) == pc' = [pc EXCEPT ![t] = p]

----------------------------------------------------------------------------
(* queue_automation_run *)

\* auto = await get_automation
Get(t) ==
    /\ pc[t] = "new"
    /\ seen' = [seen EXCEPT ![t] = [active |-> active, failures |-> failures]]
    /\ Go(t, "query")
    /\ UNCHANGED <<automation, row, proc, busy, outcome, prev, lock, bounds, history>>

RunningRows == {t \in Triggers : row[t] = "running"}

\* running = await has_running_run: an answer other than 200 reads as "no".
Query(t) ==
    /\ pc[t] = "query"
    /\ \/ busy' = [busy EXCEPT ![t] = RunningRows # {}] /\ UNCHANGED errors
       \/ /\ errors < MaxErrors
          /\ errors' = errors + 1
          /\ busy' = [busy EXCEPT ![t] = FALSE]
    /\ Go(t, "decide")
    /\ UNCHANGED <<automation, row, proc, seen, outcome, prev, lock, crashes, resets, history>>

\* evaluate_skip: a paused automation is never skipped.
Skip(t) ==
    /\ seen[t].active
    /\ \/ busy[t] \/ lock[proc[t]] # None
       \/ Threshold > 0 /\ seen[t].failures >= Threshold

Decide(t) ==
    /\ pc[t] = "decide"
    /\ Go(t, IF Skip(t) THEN "skip" ELSE "insert")
    /\ UNCHANGED <<automation, row, local, lock, bounds, history>>

\* insert_run_skipped, and the handler returns.
InsertSkipped(t) ==
    /\ pc[t] = "skip"
    /\ row' = [row EXCEPT ![t] = "skipped"]
    /\ Go(t, "done")
    /\ UNCHANGED <<automation, local, lock, bounds, history>>

\* insert_run_start
InsertStart(t) ==
    /\ pc[t] = "insert"
    /\ row' = [row EXCEPT ![t] = "running"]
    /\ Go(t, "point")
    /\ UNCHANGED <<automation, local, lock, bounds, history>>

\* set_current_run_id, and the background task is created.
SetCurrent(t) ==
    /\ pc[t] = "point"
    /\ current' = t
    /\ Go(t, "queued")
    /\ UNCHANGED <<active, failures, row, local, lock, bounds, history>>

----------------------------------------------------------------------------
(* execute_automation *)

\* async with lock: the runs of one process wait for each other.
Acquire(t) ==
    /\ pc[t] = "queued"
    /\ lock[proc[t]] = None
    /\ lock' = [lock EXCEPT ![proc[t]] = t]
    /\ Go(t, "run")
    /\ UNCHANGED <<automation, row, local, bounds, history>>

\* Without an agent, without credits, on an error or a timeout the run fails;
\* with an answer of the assistant and no error it succeeds.  The bill is
\* settled, and an exception there is swallowed.
Run(t) ==
    /\ pc[t] = "run"
    /\ \E o \in {"success", "failed"} : outcome' = [outcome EXCEPT ![t] = o]
    /\ Go(t, "finish")
    /\ UNCHANGED <<automation, row, proc, seen, busy, prev, lock, bounds, history>>

\* Bug to be caught: the row of the run is left as it is.
FinishNothing(t) ==
    /\ pc[t] = "finish"
    /\ Go(t, "record")
    /\ UNCHANGED <<automation, row, local, lock, bounds, history>>

\* The runs whose row is closed and whose end is about to be counted.
Between == {t \in Triggers : pc[t] \in {"record", "bump"}}

\* finish_run: from here on the table says how the run ended, whether or not
\* the automation comes to count it.
FinishRun(t) ==
    /\ pc[t] = "finish"
    /\ row' = [row EXCEPT ![t] = outcome[t]]
    /\ since' = IF outcome[t] = "failed" THEN since \cup {t} ELSE {}
    /\ missed' = IF outcome[t] = "failed" THEN missed ELSE {}
    /\ raced' = (raced \/ \E u \in Between : outcome[u] # outcome[t])
    /\ Go(t, "record")
    /\ UNCHANGED <<automation, local, lock, bounds>>

\* Bug to be caught: the count is incremented from what the run saw at first.
RecordSeen(t) ==
    /\ pc[t] = "record" /\ outcome[t] = "failed"
    /\ prev' = [prev EXCEPT ![t] = seen[t].failures]
    /\ Go(t, "bump")
    /\ UNCHANGED <<automation, row, proc, seen, busy, outcome, lock, bounds, history>>

\* record_automation_after_run of a failed run: read the count.
RecordFailed(t) ==
    /\ pc[t] = "record" /\ outcome[t] = "failed"
    /\ prev' = [prev EXCEPT ![t] = failures]
    /\ Go(t, "bump")
    /\ UNCHANGED <<automation, row, proc, seen, busy, outcome, lock, bounds, history>>

\* Some trigger other than t has read the count and not yet written it.
BetweenReadAndWrite(t) == \E u \in Triggers \ {t} : pc[u] = "bump"

\* ... and write it, one up; current_run_id is cleared, whoever set it.
Bump(t) ==
    /\ pc[t] = "bump"
    /\ failures' = prev[t] + 1
    /\ current' = None
    /\ raced' = (raced \/ BetweenReadAndWrite(t))
    /\ Go(t, "release")
    /\ UNCHANGED <<active, row, local, lock, bounds, since, missed>>

\* record_automation_after_run of a successful run.
RecordSuccess(t) ==
    /\ pc[t] = "record" /\ outcome[t] = "success"
    /\ failures' = 0
    /\ current' = None
    /\ raced' = (raced \/ BetweenReadAndWrite(t))
    /\ Go(t, "release")
    /\ UNCHANGED <<active, row, local, lock, bounds, since, missed>>

Unlocked(t) == [lock EXCEPT ![proc[t]] = IF @ = t THEN None ELSE @]

\* Bug to be caught: the task returns with the lock held.
ReleaseNothing(t) ==
    /\ pc[t] = "release"
    /\ Go(t, "done")
    /\ UNCHANGED <<automation, row, local, lock, bounds, history>>

\* The run times are refreshed and the task returns.
Release(t) ==
    /\ pc[t] = "release"
    /\ lock' = Unlocked(t)
    /\ Go(t, "done")
    /\ UNCHANGED <<automation, row, local, bounds, history>>

\* A call of the database raises (or, before the agent runs, any exception):
\* the handler or the task ends where it is, and the lock is released.
Raise(t) ==
    /\ pc[t] \in {"query", "skip", "insert", "point", "run", "finish", "record", "bump", "release"}
    /\ errors < MaxErrors
    /\ errors' = errors + 1
    /\ lock' = Unlocked(t)
    /\ missed' = missed \cup (Between \cap {t})
    /\ Go(t, "raised")
    /\ UNCHANGED <<automation, row, local, crashes, resets, since, raced>>

----------------------------------------------------------------------------
(* The world around. *)

\* A process dies with its handlers, its tasks and its locks.
Crash(p) ==
    /\ crashes < MaxCrashes
    /\ crashes' = crashes + 1
    /\ pc' = [t \in Triggers |-> IF proc[t] = p /\ pc[t] \notin {"new", "done", "raised"}
                                   THEN "dead" ELSE pc[t]]
    /\ lock' = [lock EXCEPT ![p] = None]
    /\ missed' = missed \cup {t \in Between : proc[t] = p}
    /\ UNCHANGED <<automation, row, local, errors, resets, since, raced>>

\* PATCH with reset_failure_count, and pausing or resuming with it or not.
Patch ==
    /\ resets < MaxResets
    /\ resets' = resets + 1
    /\ active' \in BOOLEAN
    /\ \/ UNCHANGED <<failures, history>>
       \/ /\ failures' = 0 /\ since' = {} /\ missed' = {}
          /\ raced' = (raced \/ Between # {})
    /\ UNCHANGED <<current, row, pc, local, lock, crashes, errors>>

Work(t) ==
    \/ Query(t) \/ Decide(t) \/ InsertSkipped(t) \/ InsertStart(t) \/ SetCurrent(t)
    \/ Acquire(t) \/ Run(t) \/ FinishRun(t) \/ RecordFailed(t) \/ Bump(t)
    \/ RecordSuccess(t) \/ Release(t)

Next ==
    \/ \E t \in Triggers : Get(t) \/ Work(t) \/ Raise(t)
    \/ \E p \in Procs : Crash(p)
    \/ Patch

Spec == Init /\ [][Next]_vars

\* Handlers and tasks that can go on do; the agent's run has a time limit.
FairSpec == Spec /\ \A t \in Triggers : WF_vars(Work(t))

----------------------------------------------------------------------------
(* Properties. *)

\* The type invariant; a lock is held by a task of its own process.
TypeOK ==
    /\ active \in BOOLEAN /\ failures \in Nat /\ current \in Triggers \cup {None}
    /\ row \in [Triggers -> {"none", "running", "skipped", "success", "failed"}]
    /\ pc \in [Triggers -> {"new", "query", "decide", "skip", "insert", "point", "queued",
                            "run", "finish", "record", "bump", "release", "done", "raised",
                            "dead"}]
    /\ proc \in [Triggers -> Procs]
    /\ seen \in [Triggers -> [active : BOOLEAN, failures : Nat]]
    /\ busy \in [Triggers -> BOOLEAN]
    /\ outcome \in [Triggers -> {"success", "failed"}]
    /\ prev \in [Triggers -> Nat]
    /\ lock \in [Procs -> Triggers \cup {None}]
    /\ \A p \in Procs : lock[p] # None => proc[lock[p]] = p
    /\ crashes \in 0..MaxCrashes /\ errors \in 0..MaxErrors /\ resets \in 0..MaxResets
    /\ since \subseteq Triggers /\ missed \subseteq Triggers /\ raced \in BOOLEAN

\* The triggers whose task is under way: it has the lock and has not returned.
Executing == {t \in Triggers : pc[t] \in {"run", "finish", "record", "bump", "release"}}

\* runner.py: "Avoid overlapping runs for the same automation (scheduler +
\* manual)."  The lock is one per process, and between the look for a running
\* row and the row that is inserted another process can look too.
NoOverlap == Cardinality(Executing) <= 1

\* Whatever way a run came to its end -- it returned, a call raised, its process
\* died -- it does not hold the lock of its process.  A row is open, and the
\* automation points at a run, only while that run is under way or when a call
\* of it raised or its process died: such a row stays "running", and has every
\* later run of an active automation skipped.  A run that returned has closed
\* its row.
Broken(t) == pc[t] \in {"raised", "dead"} /\ errors + crashes > 0
Settled ==
    \A t \in Triggers :
        /\ pc[t] \in {"done", "raised", "dead"} => lock[proc[t]] # t
        /\ row[t] = "running" => pc[t] \in {"point", "queued", "run", "finish"} \/ Broken(t)
        /\ current = t => pc[t] \in {"queued", "run", "finish", "record", "bump"} \/ Broken(t)
        /\ pc[t] = "done" => row[t] \in {"skipped", "success", "failed"}

\* consecutive_failures is the number of rows that were closed as failed since
\* the last success or reset, less those not counted yet and those that never
\* will be: between finish_run and record_automation_after_run a call raised
\* or the process died (runner.py:181).  Two cases are left out: the uncounted
\* end was a success, so that the old count stands until the next one; and the
\* ends of two runs that overlap were counted at once (both read the count
\* before either wrote it) or in another order than their rows were closed.
Uncounted == Between \cup missed
FailuresExact ==
    ~raced /\ (\A t \in Uncounted : outcome[t] = "failed")
        => failures = Cardinality(since \ Uncounted)

\* Every run that was started is brought to an end, unless the process or a
\* call of the database failed it: nothing waits for ever behind the lock.
RunsEnd == \A t \in Triggers : row[t] = "running" ~>
                                  row[t] # "running" \/ pc[t] \in {"raised", "dead"}
----------------------------------------------------------------------------
(* The inductive invariant. *)

\* A trigger whose task does not execute does not hold the lock.
LockInv == \A t \in Triggers : t \notin Executing => lock[proc[t]] # t

\* The automation points at a trigger from SetCurrent at the earliest until
\* its run is recorded at the latest.
CurrentInv ==
    \A t \in Triggers :
        pc[t] \in {"new", "query", "decide", "skip", "insert", "point", "release", "done"}
            => current # t

\* A row is written by its run only, closed before the run is recorded, and
\* stays closed.
RowInv ==
    \A t \in Triggers :
        /\ pc[t] \in {"new", "query", "decide", "skip", "insert"} => row[t] = "none"
        /\ pc[t] \in {"record", "bump", "release"} => row[t] \in {"success", "failed"}
        /\ pc[t] = "done" => row[t] \in {"skipped", "success", "failed"}

\* What the two histories hold: runs that closed their row.
HistoryInv ==
    /\ IsFiniteSet(since)
    /\ \A t \in since : pc[t] \in {"record", "bump", "release", "done", "raised", "dead"}
    /\ \A t \in missed : pc[t] \in {"raised", "dead"}

\* As long as no one wrote in between, what a failed run read is still there;
\* the ends about to be counted are all failures that are due, or all successes
\* after which nothing failed.
CountInv ==
    ~raced =>
        /\ \A t \in Triggers : pc[t] = "bump" => prev[t] = failures /\ outcome[t] = "failed"
        /\ \A t, u \in Between : outcome[t] = outcome[u]
        /\ \A t \in Between : IF outcome[t] = "failed" THEN t \in since ELSE since = {}
        /\ (\A t \in Uncounted : outcome[t] = "failed") => failures = Cardinality(since \ Uncounted)

\* A run ends before its time only by an error or a death.
BrokenInv == (\E t \in Triggers : pc[t] \in {"raised", "dead"}) => errors + crashes > 0

IInv == TypeOK /\ LockInv /\ CurrentInv /\ RowInv /\ HistoryInv /\ CountInv /\ BrokenInv
=============================================================================
