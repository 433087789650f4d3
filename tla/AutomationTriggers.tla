------------------------- MODULE AutomationTriggers -------------------------
(* What makes a saved automation run: the jobs of the cron scheduler         *)
(* (automations/scheduler.py), which one process of the machine runs, the    *)
(* requests that change the automation (automations_routes.py and the tools  *)
(* of the agent, agent_tools.py), the trigger Composio keeps for it          *)
(* (composio_triggers.py) and the events that arrive for it                  *)
(* (automation_events_routes.py, composio_trigger_events_routes.py).         *)
(*                                                                           *)
(* There is one automation. How a run that was queued goes on is the matter  *)
(* of AutomationRunner.                                                      *)
EXTENDS Naturals, FiniteSets

CONSTANTS Scenes,        \* bounds: the automations looked at
          None           \* no process

(* A scene says how the automation is triggered (mode "scheduled", "webhook" *)
(* or "composio"), where each handler (home) and each event (to) runs, which *)
(* events are deliveries of the same (key), whether the automation is there  *)
(* at first, and bounds the changes, the calls that fail, the processes that *)
(* die and the claims that expire.                                           *)
VARIABLES scene,
          row,       \* the automation: there, active, cron (a version of the schedule)
          trigger,   \* the instance at Composio: "none", "enabled", "disabled", "gone"
          up,        \* processes that are up
          leader,    \* the process that holds scheduler.leader.lock, or None
          job,       \* the schedule of the job of the leader, 0 when there is none
          ticking,   \* the job was due: "no", "due", "queue"
          pc,        \* [handlers and processes -> where the handler or the resync is]
          doing,     \* [handlers -> the change it makes]
          listed,    \* [handlers and processes -> the schedule its sync has read, or 0]
          event,     \* [events -> where its delivery is]
          claims,    \* [processes -> keys in _seen_idempotency]
          counts,    \* changes made, calls failed, processes died, claims expired
          torn,      \* a call failed, a process died or two changes overlapped
          untold     \* a tool of the agent changed the row of a trigger at Composio

vars == <<scene, row, trigger, up, leader, job, ticking, pc, doing, listed, event, claims, counts, torn, untold>>
history == <<torn, untold>>
schedule == <<up, leader, job, ticking>>
handling == <<pc, doing, listed>>
events == <<event, claims>>

Handlers == DOMAIN scene.home
Events == DOMAIN scene.to
Processes == {scene.home[c] : c \in Handlers} \cup {scene.to[e] : e \in Events}
Home(k) == IF k \in Handlers THEN scene.home[k] ELSE k
Changes == {"pause", "resume", "reschedule", "delete"}

Init ==
    /\ scene \in Scenes
    /\ row = [there |-> scene.there, active |-> TRUE, cron |-> 1]
    /\ trigger = IF scene.there /\ scene.mode = "composio" THEN "enabled" ELSE "none"
    /\ up = {} /\ leader = None /\ job = 0 /\ ticking = "no"
    /\ pc = [k \in Handlers \cup Processes |-> "idle"]
    /\ doing = [c \in Handlers |-> "none"]
    /\ listed = [k \in Handlers \cup Processes |-> 0]
    /\ event = [e \in Events |-> "new"]
    /\ claims = [p \in Processes |-> {}]
    /\ counts = [changes |-> 0, calls |-> 0, deaths |-> 0, expiries |-> 0]
    /\ torn = FALSE /\ untold = FALSE

Go(k, where) == pc' = [pc EXCEPT ![k] = where]
CallFails == /\ counts.calls < scene.calls
             /\ counts' = [counts EXCEPT !.calls = @ + 1]
             /\ torn' = TRUE /\ UNCHANGED untold
Scheduled == scene.mode = "scheduled"
Wanted == IF Scheduled /\ row.there /\ row.active THEN row.cron ELSE 0
----------------------------------------------------------------------------
(* The scheduler.                                                           *)

\* start_automation_scheduler: the first to lock the file is the leader; the
\* others never ask again.
Start(p) ==
    /\ p \notin up
    /\ up' = up \cup {p}
    /\ leader' = IF leader = None THEN p ELSE leader
    /\ pc' = [pc EXCEPT ![p] = IF leader = None THEN "sync" ELSE "idle"]
    /\ UNCHANGED <<scene, row, trigger, job, ticking, doing, listed, events, counts, history>>

\* The process stops or dies: its lock, its jobs and its handlers go with it.
Stop(p) ==
    /\ p \in up /\ counts.deaths < scene.deaths
    /\ counts' = [counts EXCEPT !.deaths = @ + 1]
    /\ torn' = TRUE
    /\ up' = up \ {p}
    /\ IF leader = p THEN leader' = None /\ job' = 0 /\ ticking' = "no"
       ELSE UNCHANGED <<leader, job, ticking>>
    /\ pc' = [k \in DOMAIN pc |-> IF Home(k) # p THEN pc[k] ELSE IF k = p \/ pc[k] = "idle" THEN "idle" ELSE "done"]
    /\ event' = [e \in Events |-> IF scene.to[e] = p /\ event[e] \in {"found", "claimed"} THEN "lost" ELSE event[e]]
    /\ claims' = [claims EXCEPT ![p] = {}]
    /\ UNCHANGED <<scene, row, trigger, doing, listed, untold>>

Resync(p) ==
    /\ leader = p /\ pc[p] = "idle" /\ Scheduled
    /\ Go(p, "sync")
    /\ UNCHANGED <<scene, row, trigger, schedule, doing, listed, events, counts, history>>

\* sync_scheduler_jobs reads the rows that are scheduled and active; in a
\* process without a scheduler, or when the read fails, that is all.
After(k) == IF k \in Handlers THEN "done" ELSE "idle"
List(k) ==
    /\ pc[k] = "sync"
    /\ \/ leader # Home(k) /\ Go(k, After(k)) /\ UNCHANGED <<listed, counts, history>>
       \/ leader = Home(k) /\ Go(k, "apply") /\ listed' = [listed EXCEPT ![k] = Wanted] /\ UNCHANGED <<counts, history>>
       \/ leader = Home(k) /\ CallFails /\ Go(k, After(k)) /\ UNCHANGED listed
    /\ UNCHANGED <<scene, row, trigger, schedule, doing, events>>

\* ... and then adds and removes jobs, other syncs between or not. When the
\* next run of some row cannot be written, what is left is not done.
JobKept(k) == IF listed[k] = 0 THEN job ELSE listed[k]
JobOf(k) == listed[k]
Apply(k) ==
    /\ pc[k] = "apply"
    /\ \/ job' = JobOf(k) /\ UNCHANGED <<counts, history>>
       \/ CallFails /\ UNCHANGED job
    /\ listed' = [listed EXCEPT ![k] = 0]
    /\ Go(k, After(k))
    /\ UNCHANGED <<scene, row, trigger, up, leader, ticking, doing, events>>

\* _scheduled_tick: the row is read, and read again when the run is queued.
Tick ==
    /\ job # 0 /\ ticking = "no"
    /\ ticking' = "due"
    /\ UNCHANGED <<scene, row, trigger, up, leader, job, handling, events, counts, history>>

TickReads ==
    /\ ticking = "due"
    /\ ticking' = IF row.there /\ row.active THEN "queue" ELSE "no"
    /\ UNCHANGED <<scene, row, trigger, up, leader, job, handling, events, counts, history>>

TickQueues ==
    /\ ticking = "queue"
    /\ ticking' = "no"
    /\ UNCHANGED <<scene, row, trigger, up, leader, job, handling, events, counts, history>>
----------------------------------------------------------------------------
(* The changes of the user.                                                 *)

\* A request of the app, or a tool of the agent (which creates scheduled
\* automations only). The row is read; 404 without it. Only a request has
\* Composio told first.
Request(c, change, tool) ==
    /\ pc[c] = "idle" /\ Home(c) \in up /\ counts.changes < scene.changes
    /\ IF row.there THEN change \in Changes ELSE change = "create"
    /\ change = "reschedule" => Scheduled
    /\ tool => scene.tools /\ (Scheduled \/ change # "create")
    /\ counts' = [counts EXCEPT !.changes = @ + 1]
    /\ doing' = [doing EXCEPT ![c] = change]
    /\ Go(c, IF scene.mode = "composio" /\ ~tool THEN "switch" ELSE "write")
    /\ torn' = (torn \/ \E d \in Handlers : pc[d] \notin {"idle", "done"})
    /\ untold' = (untold \/ (scene.mode = "composio" /\ tool))
    /\ UNCHANGED <<scene, row, trigger, schedule, listed, events>>

\* create_trigger_instance, set_trigger_enabled, delete_trigger_instance; the
\* first two raise when they fail, the last one only logs it.
SwitchedOff(c) ==
    CASE doing[c] = "pause" -> "disabled" [] doing[c] = "delete" -> "gone" [] OTHER -> trigger
Switched(c) ==
    CASE doing[c] \in {"create", "resume"} -> "enabled" [] doing[c] = "pause" -> "disabled" [] doing[c] = "delete" -> "gone"
Switch(c) ==
    /\ pc[c] = "switch"
    /\ \/ /\ trigger' = IF trigger = "gone" /\ doing[c] # "create" THEN trigger ELSE Switched(c)
          /\ Go(c, "write")
          /\ UNCHANGED <<counts, history>>
       \/ /\ CallFails
          /\ Go(c, IF doing[c] = "delete" THEN "write" ELSE "done")
          /\ UNCHANGED trigger
    /\ UNCHANGED <<scene, row, schedule, doing, listed, events>>

\* A new automation may be paused.
Written(c) ==
    CASE doing[c] = "create" -> [there : {TRUE}, active : BOOLEAN, cron : {row.cron}]
      [] doing[c] = "pause" -> {[row EXCEPT !.active = FALSE]}
      [] doing[c] = "resume" -> {[row EXCEPT !.active = TRUE]}
      [] doing[c] = "reschedule" -> {[row EXCEPT !.cron = @ + 1]}
      [] doing[c] = "delete" -> {[row EXCEPT !.there = FALSE]}

\* insert, update or delete; a row that is gone by now stays gone. Only an
\* insert that fails takes the trigger back.
Write(c) ==
    /\ pc[c] = "write"
    /\ \/ /\ IF row.there \/ doing[c] = "create" THEN row' \in Written(c) ELSE UNCHANGED row
          /\ Go(c, "sync")
          /\ UNCHANGED <<trigger, counts, history>>
       \/ /\ CallFails
          /\ trigger' = IF doing[c] = "create" /\ trigger = "enabled" THEN "gone" ELSE trigger
          /\ Go(c, "done")
          /\ UNCHANGED row
    /\ UNCHANGED <<scene, schedule, doing, listed, events>>
----------------------------------------------------------------------------
(* Events.                                                                  *)

At(e, where) == event' = [event EXCEPT ![e] = where]
Here(e) == scene.to[e] \in up

\* automation_event_webhook: the automation is read...
Arrives(e) ==
    /\ event[e] = "new" /\ scene.mode = "webhook" /\ Here(e)
    /\ At(e, IF ~row.there THEN "404" ELSE IF row.active THEN "found" ELSE "skipped")
    /\ UNCHANGED <<scene, row, trigger, schedule, handling, claims, counts, history>>

\* ... and the delivery claimed in this process, or refused with 409.
ClaimIdempotency(e) ==
    /\ event[e] = "found" /\ scene.mode = "webhook"
    /\ IF scene.key[e] \in claims[scene.to[e]] THEN At(e, "409") /\ UNCHANGED claims
       ELSE At(e, "claimed") /\ claims' = [claims EXCEPT ![scene.to[e]] = @ \cup {scene.key[e]}]
    /\ UNCHANGED <<scene, row, trigger, schedule, handling, counts, history>>

\* composio_trigger_events: the active automations of the trigger; nothing
\* tells a second delivery from the first.
ArrivesFromComposio(e) ==
    /\ event[e] = "new" /\ scene.mode = "composio" /\ trigger = "enabled" /\ Here(e)
    /\ At(e, IF row.there /\ row.active THEN "claimed" ELSE "skipped")
    /\ UNCHANGED <<scene, row, trigger, schedule, handling, claims, counts, history>>

\* queue_automation_run; a failure is a 500, but for Composio, which is told
\* that all is well. Either way the delivery stays claimed.
Queue(e) ==
    /\ event[e] = "claimed"
    /\ \/ At(e, IF row.there THEN "queued" ELSE "gone") /\ UNCHANGED <<counts, history>>
       \/ CallFails /\ At(e, IF scene.mode = "composio" THEN "lost" ELSE "500")
    /\ UNCHANGED <<scene, row, trigger, schedule, handling, claims>>

\* Five minutes, or 4096 other keys, later.
Expire(p) ==
    /\ claims[p] # {} /\ counts.expiries < scene.expiries
    /\ counts' = [counts EXCEPT !.expiries = @ + 1]
    /\ claims' = [claims EXCEPT ![p] = {}]
    /\ UNCHANGED <<scene, row, trigger, schedule, handling, event, history>>

Next ==
    \/ Tick \/ TickReads \/ TickQueues
    \/ \E p \in Processes : Start(p) \/ Stop(p) \/ Resync(p) \/ Expire(p)
    \/ \E c \in Handlers : Switch(c) \/ Write(c) \/ \E change \in Changes \cup {"create"}, tool \in BOOLEAN : Request(c, change, tool)
    \/ \E k \in DOMAIN pc : List(k) \/ Apply(k)
    \/ \E e \in Events : Arrives(e) \/ ClaimIdempotency(e) \/ ArrivesFromComposio(e) \/ Queue(e)

Spec == Init /\ [][Next]_vars

(* The resync is an interval job of the scheduler, and syncs run to an end.  *)
Resyncs == \E p \in Processes : Resync(p)
Syncs(k) == List(k) \/ Apply(k)
----------------------------------------------------------------------------
\* Whatever syncs overwrote each other with rows that were old by then, failed
\* half-way or died with the leader: while there is a leader its job comes to
\* be that of the row, and stays so (scheduler.py:164).
JobAgrees == Scheduled /\ leader # None => job = Wanted
ScheduleConverges == <>[]JobAgrees

\* Composio fires for an automation that is active and does not know one that
\* was deleted, between changes that neither failed nor overlapped -- as long
\* as they were made in the app: the tools of the agent write the row only
\* (agent_tools.py:184), so that an automation paused in the app and resumed by
\* a tool is active and never fires.
Changing == \E c \in Handlers : pc[c] \notin {"idle", "done"}
ActiveFires ==
    scene.mode = "composio" /\ ~torn /\ ~untold /\ ~Changing
        => IF row.there THEN row.active => trigger = "enabled" ELSE trigger \in {"none", "gone"}

\* An event that is delivered again starts a second run only in another process
\* or when its claim has expired (webhook_guard.py:41).
Runs(p, key) == {e \in Events : event[e] = "queued" /\ scene.to[e] = p /\ scene.key[e] = key}
EventOnce ==
    scene.mode = "webhook" /\ counts.deaths + counts.expiries = 0
        => \A p \in Processes, e \in Events : Cardinality(Runs(p, scene.key[e])) <= 1

\* A delivery is refused only when the same event was claimed before in this
\* process by a delivery that was queued or is about to be -- or that came to
\* nothing after the claim: the automation was deleted, the queueing failed and
\* was answered 500, or the process died. The claim comes before the queueing
\* (automation_events_routes.py:65) and is not taken back, so in these cases
\* the delivery that comes again is refused and the event never runs.
Taken(e) == event[e] \in {"claimed", "queued"}
Fruitless(e) ==
    \/ event[e] = "gone" /\ counts.changes > 0
    \/ event[e] = "500" /\ counts.calls > 0
    \/ event[e] = "lost" /\ counts.deaths > 0
RefusedIsTaken ==
    scene.mode = "webhook" =>
        \A e \in Events : event[e] = "409" =>
            \E f \in Events : /\ scene.to[f] = scene.to[e] /\ scene.key[f] = scene.key[e]
                              /\ Taken(f) \/ Fruitless(f)

\* Composio has the trigger of an active automation switched on; an event is
\* not run twice, and is not refused before one of its deliveries was taken,
\* each with the exceptions named above.
EventsReachOnce == ActiveFires /\ EventOnce /\ RefusedIsTaken
=============================================================================
