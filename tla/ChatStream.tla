----------------------------- MODULE ChatStream -----------------------------
(***************************************************************************)
(* One chat turn (_stream_agent_sse): a task runs the agent and offers the *)
(* events of the turn to a bounded queue; the generator that made the task *)
(* takes them out and sends them, settles the bill from the usage it saw   *)
(* go by, and ends the stream.  POST /stream has a client that may leave   *)
(* and an event that cancels the agent; the worker of a detached run has   *)
(* neither.  An event of the agent is its number.                          *)
(*                                                                         *)
(* The agent's steps are those of _iterate_react_steps from one await to   *)
(* the next: what it emits in between reaches the queue in one piece.      *)
(***************************************************************************)
EXTENDS Integers, Sequences

CONSTANTS
    Modes,          \* the entries considered: a subset of {"stream", "detached"}
    QueueMax,       \* detached_run_subscriber_queue_max
    MaxRounds,      \* limits.max_rounds
    MaxDeltas       \* bound on the chunks of one answer, or the events of its tools

ASSUME StreamAssumption ==
    /\ Modes \subseteq {"stream", "detached"}
    /\ QueueMax \in Nat \ {0}
    /\ MaxRounds \in Nat /\ MaxDeltas \in Nat

Sentinel == 0           \* None: the end of the turn in the queue

VARIABLES
    mode,           \* how the turn was started
    connected,      \* the client is there
    watching,       \* _disconnect_watcher is there
    cancel,         \* eff_cancel is set
    apc,            \* the await the agent's task is at
    rounds,         \* session.step_count
    deltas,         \* chunks of the answer, events of the tools under way
    queue,          \* the events on their way to the generator
    saved,          \* the session is saved
    broken,         \* the task ended on an exception of its finally clause
    cpc,            \* the await the generator is at
    settled,        \* the bill is settled
    emitted,        \* history: number of events the agent emitted
    accepted,       \* history: the events the queue had room for, in order
    sent            \* history: the events sent, in order

client == <<mode, connected, watching>>
agent == <<apc, rounds, deltas, saved, broken>>
events == <<queue, emitted, accepted>>
generator == <<cpc, settled, sent>>
vars == <<client, cancel, agent, events, generator>>

Init ==
    /\ mode \in Modes
    /\ connected = TRUE
    /\ watching = (mode = "stream")
    /\ cancel = FALSE
    /\ apc = "none" /\ rounds = 0 /\ deltas = 0
    /\ queue = <<>>
    /\ saved = FALSE /\ broken = FALSE
    /\ cpc = "boot" /\ settled = FALSE
    /\ emitted = 0 /\ accepted = <<>> /\ sent = <<>>

----------------------------------------------------------------------------
(* The agent's task. *)

\* How many of n events the queue has room for.
Room(n) == IF Len(queue) + n <= QueueMax THEN n ELSE QueueMax - Len(queue)

\* emit, n times in a row: what does not fit is dropped, and the run cancelled
\* if there is an event to cancel it with.
Cancelled(n) == cancel \/ (mode = "stream" /\ Room(n) < n)

Offer(n) ==
    LET taken == [i \in 1..Room(n) |-> emitted + i] IN
    /\ queue' = queue \o taken
    /\ accepted' = accepted \o taken
    /\ emitted' = emitted + n
    /\ cancel' = Cancelled(n)

To(p) == apc' = p

\* The mode and the tools are announced, then the setup is awaited.
Start ==
    /\ apc = "start"
    /\ Offer(2)
    /\ To("step")
    /\ UNCHANGED <<client, rounds, deltas, saved, broken, generator>>

\* Out of rounds or out of time: one last answer without tools, or none.
Exhausted ==
    /\ apc = "step"
    /\ \/ /\ rounds < MaxRounds
          /\ rounds' = rounds + 1
          /\ To("synthesis") /\ UNCHANGED <<events, cancel>>
       \/ /\ rounds = MaxRounds
          /\ UNCHANGED rounds
          /\ \/ To("synthesis") /\ UNCHANGED <<events, cancel>>
             \/ To("final") /\ Offer(1)
    /\ deltas' = 0
    /\ UNCHANGED <<client, saved, broken, generator>>

\* A round begins: nothing is asked of the model once the run is cancelled.
\* The size of the context is announced, and with the cancellation that this
\* may bring the usage and the end are too.
RoundBegin ==
    /\ apc = "step" /\ rounds < MaxRounds
    /\ rounds' = rounds + 1
    /\ deltas' = 0
    /\ \/ cancel /\ Offer(1) /\ To("final")
       \/ ~cancel /\ Cancelled(1) /\ Offer(3) /\ To("final")
       \/ ~Cancelled(1) /\ Offer(1) /\ To("llm")
    /\ UNCHANGED <<client, saved, broken, generator>>

\* The model streams a chunk of its answer.
Delta ==
    /\ apc = "llm" /\ deltas < MaxDeltas
    /\ deltas' = deltas + 1
    /\ \/ Cancelled(1) /\ Offer(3) /\ To("final")
       \/ ~Cancelled(1) /\ Offer(1) /\ UNCHANGED apc
    /\ UNCHANGED <<client, rounds, saved, broken, generator>>

\* The answer is over, or the model took too long: the usage is announced,
\* then the error, or the cancellation, or the tools of the answer are run,
\* or there are none and the checkpoint is marked completed.
Answer ==
    /\ apc = "llm"
    /\ \/ Offer(2) /\ To("final")
       \/ ~Cancelled(1) /\ Offer(1) /\ To("marking")
       \/ ~Cancelled(1) /\ Offer(1) /\ To("tools")
    /\ deltas' = 0
    /\ UNCHANGED <<client, rounds, saved, broken, generator>>

\* The checkpoint is marked completed and the end of the turn announced.
Marked ==
    /\ apc = "marking"
    /\ Offer(1)
    /\ To("final")
    /\ UNCHANGED <<client, rounds, deltas, saved, broken, generator>>

\* A tool, or an agent that a tool runs, announces what it does.  A
\* cancellation that comes now does not end the phase; the agents that tools
\* run look at it for themselves.
ToolEvent ==
    /\ apc = "tools" /\ deltas < MaxDeltas
    /\ deltas' = deltas + 1
    /\ Offer(1)
    /\ UNCHANGED <<client, apc, rounds, saved, broken, generator>>

\* The tools have answered, or their time is up: the results are announced
\* and the checkpoint is saved.
ToolsOver ==
    /\ apc = "tools"
    /\ Offer(1)
    /\ To("step")
    /\ UNCHANGED <<client, rounds, deltas, saved, broken, generator>>

\* The last answer: it looks at no cancellation.
SynthesisDelta ==
    /\ apc = "synthesis" /\ deltas < MaxDeltas
    /\ deltas' = deltas + 1
    /\ Offer(1)
    /\ UNCHANGED <<client, apc, rounds, saved, broken, generator>>

SynthesisOver ==
    /\ apc = "synthesis"
    /\ Offer(2)
    /\ To("final")
    /\ UNCHANGED <<client, rounds, deltas, saved, broken, generator>>

\* An exception leaves the agent: it is announced.
Raise ==
    /\ apc \in {"start", "step", "llm", "tools", "synthesis"}
    /\ Offer(1)
    /\ To("final")
    /\ UNCHANGED <<client, rounds, deltas, saved, broken, generator>>

\* Bug to be caught: the session is saved only when the end mark fits.
WindUpInFull ==
    /\ apc = "final"
    /\ saved' = (Len(queue) < QueueMax)
    /\ queue' = IF Len(queue) < QueueMax THEN Append(queue, Sentinel) ELSE queue
    /\ To("over")
    /\ UNCHANGED <<client, cancel, rounds, deltas, broken, emitted, accepted, generator>>

\* The finally clause: memory is ingested and the session saved, then the end
\* mark is put, if it fits, and the task is over.
WindUp ==
    /\ apc = "final"
    /\ saved' = TRUE
    /\ queue' = IF Len(queue) < QueueMax THEN Append(queue, Sentinel) ELSE queue
    /\ To("over")
    /\ UNCHANGED <<client, cancel, rounds, deltas, broken, emitted, accepted, generator>>

\* ... or one of the two raises: the task is over, with no mark.
WindUpRaises ==
    /\ apc = "final"
    /\ broken' = TRUE
    /\ To("over")
    /\ UNCHANGED <<client, cancel, rounds, deltas, saved, events, generator>>

----------------------------------------------------------------------------
(* The generator. *)

Alive == cpc \in {"boot", "read", "settle", "end"}

\* The preamble is out and the session hydrated: the task is created.
Boot ==
    /\ cpc = "boot"
    /\ cpc' = "read"
    /\ apc' = "start"
    /\ UNCHANGED <<client, cancel, rounds, deltas, saved, broken, events, settled, sent>>

\* event = await queue.get(), and its rows are yielded.
Send ==
    /\ cpc = "read"
    /\ queue # <<>> /\ Head(queue) # Sentinel
    /\ sent' = Append(sent, Head(queue))
    /\ queue' = Tail(queue)
    /\ UNCHANGED <<client, cancel, agent, emitted, accepted, cpc, settled>>

\* The end mark: the watcher is stopped.
EndMark ==
    /\ cpc = "read"
    /\ queue # <<>> /\ Head(queue) = Sentinel
    /\ queue' = Tail(queue)
    /\ watching' = FALSE
    /\ cpc' = "settle"
    /\ UNCHANGED <<mode, connected, cancel, agent, emitted, accepted, settled, sent>>

\* Bug to be caught: silence is taken for the end whatever the agent does.
IdleGivesUp ==
    /\ cpc = "read" /\ queue = <<>>
    /\ watching' = FALSE
    /\ cpc' = "settle"
    /\ UNCHANGED <<mode, connected, cancel, agent, events, settled, sent>>

\* Bug to be caught: silence is answered with a ping whatever the agent does.
IdlePings ==
    /\ cpc = "read" /\ queue = <<>> /\ apc # "over"
    /\ UNCHANGED vars

\* Nothing came for sse_keepalive_seconds: while the agent works a ping is
\* sent, once it is over and another 30 seconds are silent the stream is.
Idle ==
    /\ cpc = "read" /\ queue = <<>> /\ apc = "over"
    /\ watching' = FALSE
    /\ cpc' = "settle"
    /\ UNCHANGED <<mode, connected, cancel, agent, events, settled, sent>>

\* settle_run, from the usage in the events that were sent.
Settle ==
    /\ cpc = "settle"
    /\ settled' = TRUE
    /\ cpc' = "end"
    /\ UNCHANGED <<client, cancel, agent, events, sent>>

\* "event: done"
End ==
    /\ cpc = "end"
    /\ cpc' = "ended"
    /\ UNCHANGED <<client, cancel, agent, events, settled, sent>>

----------------------------------------------------------------------------
(* The client. *)

\* The client leaves.
Leave ==
    /\ mode = "stream" /\ connected /\ Alive
    /\ connected' = FALSE
    /\ UNCHANGED <<mode, watching, cancel, agent, events, generator>>

\* The server cancels the generator where it is; it has no finally clause.
Abandon ==
    /\ ~connected /\ Alive
    /\ cpc' = "gone"
    /\ UNCHANGED <<client, cancel, agent, events, settled, sent>>

\* The watcher, which nobody stops then, sees that the client has left.
Watch ==
    /\ watching /\ ~connected
    /\ cancel' = TRUE
    /\ watching' = FALSE
    /\ UNCHANGED <<mode, connected, agent, events, generator>>

Agent ==
    \/ Start \/ Exhausted \/ RoundBegin \/ Delta \/ Answer \/ Marked \/ ToolEvent \/ ToolsOver
    \/ SynthesisDelta \/ SynthesisOver \/ Raise \/ WindUp \/ WindUpRaises

Generator == Boot \/ Send \/ EndMark \/ Idle \/ Settle \/ End

Next == Agent \/ Generator \/ Leave \/ Abandon \/ Watch

Spec == Init /\ [][Next]_vars

\* The agent goes on: the model and the tools have time limits.  The
\* generator, its cancellation and the watcher are tasks of the event loop.
FairSpec == Spec /\ WF_vars(Agent) /\ WF_vars(Generator) /\ WF_vars(Abandon) /\ WF_vars(Watch)

----------------------------------------------------------------------------
(* Properties. *)

\* The type invariant, with the bound of the queue.
TypeOK ==
    /\ mode \in Modes /\ connected \in BOOLEAN /\ watching \in BOOLEAN /\ cancel \in BOOLEAN
    /\ apc \in {"none", "start", "step", "llm", "marking", "tools", "synthesis", "final", "over"}
    /\ rounds \in 0..MaxRounds /\ deltas \in 0..MaxDeltas
    /\ queue \in Seq(Nat) /\ Len(queue) <= QueueMax
    /\ saved \in BOOLEAN /\ broken \in BOOLEAN
    /\ cpc \in {"boot", "read", "settle", "end", "ended", "gone"}
    /\ settled \in BOOLEAN
    /\ emitted \in Nat /\ accepted \in Seq(Nat) /\ sent \in Seq(Nat)

\* When the bill is made the agent is over, all that got into the queue was
\* sent, so its usage is counted, and nothing failed to get in unless the
\* stream was cancelled for it (a detached run has no way to).
CompleteWhenSettled ==
    settled => /\ apc = "over"
               /\ sent = accepted
               /\ mode = "stream" /\ ~cancel => Len(sent) = emitted

\* Whoever reads the end of the stream finds the turn in the session, unless
\* the memory or the session store failed.
EndedIsSaved == cpc = "ended" => saved \/ broken

\* The stream ends and the agent with it, whether the end mark found room or
\* not, and the agent stops also when nobody reads any more.
TurnEnds == cpc = "read" ~> apc = "over" /\ cpc \in {"ended", "gone"}
=============================================================================
