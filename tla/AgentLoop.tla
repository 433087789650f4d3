----------------------------- MODULE AgentLoop -----------------------------
(* One conversation with the agent: agent/run.py, tool_executor.py,          *)
(* delegation.py and the limits of budget.py.                                *)
(*                                                                           *)
(* Main is the loop of the turn, the other loops are workers: a tool call of *)
(* Main to a delegate runs one worker (ComposioRun, DocumentRun, ...) or     *)
(* several (ParallelRun), each with a session, a window and a budget of its  *)
(* own, inside the permit of the tool semaphore that the call holds.         *)
EXTENDS ContextManager

CONSTANTS Workers,           \* the worker loops
          Permits,           \* tool_concurrency_limit
          WorkerRounds,      \* max_rounds of a worker
          Orgs,              \* whether the caller has an organisation
          Shapes             \* bounds: the conversations looked at

Main == "main"

(* A shape bounds the turns, the rounds of a turn (max_rounds), the calls of *)
(* an answer of Main, the retries of a call (max_retries, 2 in the code), the times  *)
(* a turn is cut off, and names the kinds of tools Main calls; cm is the      *)
(* ContextManager of the agent, whose limits workers get too: with a window  *)
(* of one message the code looks past the end of the list.                   *)
ASSUME LoopAssumption ==
    /\ Main \notin Workers
    /\ {Permits, WorkerRounds} \subseteq Nat \ {0}
    /\ Orgs \subseteq BOOLEAN
    /\ \A s \in Shapes : /\ {s.turns, s.rounds, s.calls, s.retries, s.aborts} \subseteq Nat
                         /\ s.kinds \subseteq {"plain", "malformed", "delegate"}
                         /\ s.cm.max \in Nat \ {0, 1} /\ s.cm.after \in Nat \ {0}

Loops == {Main} \cup Workers
NoCheckpoint == [by |-> "none", msgs |-> <<>>, step |-> 0, pins |-> <<>>, done |-> FALSE]

VARIABLES shape,      \* the bounds of this behaviour
          org,        \* checkpoints of Main are kept under an organisation
          turn,       \* the number of the question being answered
          at,         \* [Loops -> where the loop is]
          msgs,       \* [Loops -> the messages of its session]
          step,       \* [Loops -> step_count]
          pinned,     \* [Loops -> ids of the pinned results]
          calls,      \* [Loops -> [id -> [kind, st, tries]]] of the round
          recorded,   \* [Loops -> tool calls LoopTracker has seen, up to 2]
          serves,     \* [Workers -> the call of Main it runs for]
          cancelled,  \* cancel_event
          checkpoint, \* [{"run", "org:run"} -> the checkpoint under that key]
          aborted,    \* ids of tool calls whose round was cut off by an abort
          aborts

vars == <<shape, org, turn, at, msgs, step, pinned, calls, recorded, serves, cancelled,
          checkpoint, aborted, aborts>>
shared == <<shape, org, turn, cancelled, aborts, aborted>>

CallsOf(l) == IF l = Main THEN shape.calls ELSE 1
RoundsOf(l) == IF l = Main THEN shape.rounds ELSE WorkerRounds
NoCalls == [id \in {} |-> [kind |-> "plain", st |-> "ok", tries |-> 0]]
NoCall == <<>>

Init ==
    /\ shape \in Shapes
    /\ org \in Orgs
    /\ turn = 0
    /\ at = [l \in Loops |-> "idle"]
    /\ msgs = [l \in Loops |-> <<>>]
    /\ step = [l \in Loops |-> 0]
    /\ pinned = [l \in Loops |-> <<>>]
    /\ calls = [l \in Loops |-> NoCalls]
    /\ recorded = [l \in Loops |-> 0]
    /\ serves = [w \in Workers |-> NoCall]
    /\ cancelled = FALSE
    /\ checkpoint = [k \in {"run", "org:run"} |-> NoCheckpoint]
    /\ aborted = {}
    /\ aborts = 0

(* Workers are given the id of the run but not its organisation. *)
KeyShared(l) == IF org THEN "org:run" ELSE "run"
Key(l) == IF l = Main /\ org THEN "org:run" ELSE "run"

Holds(c) == c.st = "run"
Holding == {p \in Loops \X UNION {DOMAIN calls[l] : l \in Loops} :
              p[2] \in DOMAIN calls[p[1]] /\ Holds(calls[p[1]][p[2]])}
Held == Cardinality(Holding)
----------------------------------------------------------------------------
(* The turn.                                                                *)

\* run, _run_agent_turn: a new question.
StartTurn ==
    /\ at[Main] \in {"idle", "ended", "aborted"}
    /\ turn < shape.turns
    /\ turn' = turn + 1
    /\ msgs' = [msgs EXCEPT ![Main] = Append(@, UserText({turn'}))]
    /\ step' = [step EXCEPT ![Main] = 0]
    /\ at' = [at EXCEPT ![Main] = "top"]
    /\ recorded' = [recorded EXCEPT ![Main] = 0]
    /\ checkpoint' = [k \in DOMAIN checkpoint |-> NoCheckpoint]
    /\ cancelled' = FALSE
    /\ UNCHANGED <<shape, org, pinned, calls, serves, aborted, aborts>>

\* The turn again, from its checkpoint (resume_turn): no question is added.
ResumeTurn ==
    LET cp == checkpoint[Key(Main)]
    IN  /\ at[Main] = "aborted"
        /\ cp.by # "none" /\ ~cp.done
        /\ msgs' = [msgs EXCEPT ![Main] = cp.msgs]
        /\ step' = [step EXCEPT ![Main] = cp.step]
        /\ pinned' = [pinned EXCEPT ![Main] = cp.pins]
        /\ at' = [at EXCEPT ![Main] = "top"]
        /\ recorded' = [recorded EXCEPT ![Main] = 0]
        /\ cancelled' = FALSE
        /\ UNCHANGED <<shape, org, turn, calls, serves, checkpoint, aborted, aborts>>

MarkCompleted(l, cps) == [cps EXCEPT ![Key(l)].done = TRUE]

\* A loop ends with extra messages; Main marks its checkpoint completed
\* whatever the end was, a worker only where "completes" holds.
End(l, extra, completes) ==
    /\ msgs' = [msgs EXCEPT ![l] = @ \o extra]
    /\ at' = [at EXCEPT ![l] = "ended"]
    /\ checkpoint' = IF l = Main \/ completes THEN MarkCompleted(l, checkpoint) ELSE checkpoint

\* The budget is gone before a step: one call without tools.
WallExhausted(l) ==
    /\ at[l] = "top" /\ step[l] < RoundsOf(l)
    /\ step' = [step EXCEPT ![l] = @ + 1]
    /\ msgs' = [msgs EXCEPT ![l] = Append(@, UserText({}))]
    /\ at' = [at EXCEPT ![l] = "synth"]
    /\ UNCHANGED <<shared, pinned, calls, recorded, serves, checkpoint>>

RoundsExhausted(l) ==
    /\ at[l] = "top" /\ step[l] >= RoundsOf(l)
    /\ msgs' = [msgs EXCEPT ![l] = Append(@, UserText({}))]
    /\ at' = [at EXCEPT ![l] = "synth"]
    /\ UNCHANGED <<shared, step, pinned, calls, recorded, serves, checkpoint>>

\* _synthesize_final_reply returns.
Synthesized(l) ==
    /\ at[l] = "synth"
    /\ End(l, <<Reply(TRUE, {})>>, FALSE)
    /\ UNCHANGED <<shared, step, pinned, calls, recorded, serves>>

SeesCancel(l) ==
    /\ at[l] = "top" /\ step[l] < RoundsOf(l) /\ cancelled
    /\ step' = [step EXCEPT ![l] = @ + 1]
    /\ End(l, <<>>, FALSE)
    /\ UNCHANGED <<shared, pinned, calls, recorded, serves>>

\* What a loop has sent when it waits for the model: the window, the pinned
\* block and, near the end, a warning; the last call has the window only.
Request(l) ==
    IF at[l] = "synth" THEN ProcessMessages(shape.cm, msgs[l], {})
    ELSE ProcessMessages(shape.cm, msgs[l], ToSet(pinned[l]))
           \o (IF pinned[l] = <<>> THEN <<>> ELSE <<UserText({})>>)
           \o (IF step[l] = RoundsOf(l) THEN <<UserText({})>> ELSE <<>>)
Waits(l) == at[l] \in {"llm", "synth"}

Ask(l) ==
    /\ at[l] = "top" /\ step[l] < RoundsOf(l) /\ ~cancelled
    /\ step' = [step EXCEPT ![l] = @ + 1]
    /\ at' = [at EXCEPT ![l] = "llm"]
    /\ UNCHANGED <<shared, msgs, pinned, calls, recorded, serves, checkpoint>>

\* A stream that times out or is cancelled ends the loop and leaves no trace
\* in the session.
GivesUp(l) ==
    /\ at[l] = "llm"
    /\ End(l, <<>>, FALSE)
    /\ UNCHANGED <<shared, step, pinned, calls, recorded, serves>>

Answers(l) ==
    /\ at[l] = "llm" /\ ~cancelled
    /\ End(l, <<Reply(TRUE, {})>>, TRUE)
    /\ UNCHANGED <<shared, step, pinned, calls, recorded, serves>>

\* Workers have no delegates among their tools.
ToolsOf(l) == IF l = Main THEN shape.kinds ELSE {"plain"}
NewCall(k) == [kind |-> k, st |-> IF k = "malformed" THEN "error" ELSE "wait", tries |-> 0]

CallsTools(l, n) ==
    /\ at[l] = "llm" /\ ~cancelled
    /\ \E kinds \in [1..n -> ToolsOf(l)], narrated \in {FALSE, l = Main} :
           LET ids == {<<turn, step[l], i>> : i \in 1..n}
           IN  /\ calls' = [calls EXCEPT ![l] = [id \in ids |-> NewCall(kinds[id[3]])]]
               /\ msgs' = [msgs EXCEPT ![l] = Append(@, Reply(narrated, ids))]
    /\ at' = [at EXCEPT ![l] = "tools"]
    /\ recorded' = [recorded EXCEPT ![l] = Min({2, @ + n})]
    /\ UNCHANGED <<shared, step, pinned, serves, checkpoint>>
----------------------------------------------------------------------------
(* The calls of a round: each attempt waits for a permit, runs, and is      *)
(* tried again after a failure.                                             *)

Ids(l) == DOMAIN calls[l]
Running(id) == {w \in Workers : serves[w] = id}
SetCall(l, id, c) == calls' = [calls EXCEPT ![l][id] = c]
Retried(c) == [c EXCEPT !.st = IF c.tries < shape.retries THEN "rest" ELSE "error", !.tries = c.tries + 1]

BeginUnlimited(l, id) ==
    /\ at[l] = "tools"
    /\ calls[l][id].st = "wait"
    /\ SetCall(l, id, [calls[l][id] EXCEPT !.st = "run"])
    /\ UNCHANGED <<shared, at, msgs, step, pinned, recorded, serves, checkpoint>>

Begin(l, id) ==
    /\ at[l] = "tools"
    /\ calls[l][id].st = "wait" /\ Held < Permits
    /\ SetCall(l, id, [calls[l][id] EXCEPT !.st = "run"])
    /\ UNCHANGED <<shared, at, msgs, step, pinned, recorded, serves, checkpoint>>

AttemptSucceeds(l, id) ==
    /\ at[l] = "tools" /\ calls[l][id].kind = "plain" /\ calls[l][id].st = "run"
    /\ SetCall(l, id, [calls[l][id] EXCEPT !.st = "ok"])
    /\ UNCHANGED <<shared, at, msgs, step, pinned, recorded, serves, checkpoint>>

AttemptFails(l, id) ==
    /\ at[l] = "tools" /\ calls[l][id].kind = "plain" /\ calls[l][id].st = "run"
    /\ SetCall(l, id, Retried(calls[l][id]))
    /\ UNCHANGED <<shared, at, msgs, step, pinned, recorded, serves, checkpoint>>

\* asyncio.sleep between two attempts, without the permit.
Rested(l, id) ==
    /\ at[l] = "tools" /\ calls[l][id].st = "rest"
    /\ SetCall(l, id, [calls[l][id] EXCEPT !.st = "wait"])
    /\ UNCHANGED <<shared, at, msgs, step, pinned, recorded, serves, checkpoint>>

\* The tasks of a delegate, one worker each: those that start at once and
\* those (the composio tasks of a ParallelRun) that wait for the others.
Alone(free) == {[now |-> {w}, later |-> {}] : w \in free}
InParallel(free) ==
    {t \in [now : SUBSET free, later : SUBSET free] : t.now \cap t.later = {} /\ t.now \cup t.later # {}}

\* A worker begins with a session, a window and a budget of its own, and with
\* its goal as the only message.
Launch(id, tasks) ==
    LET ws == tasks.now \cup tasks.later
        Fresh(f, value) == [l \in Loops |-> IF l \in ws THEN value ELSE f[l]]
    IN  /\ serves' = [w \in Workers |-> IF w \in ws THEN id ELSE serves[w]]
        /\ at' = [l \in Loops |-> IF l \in tasks.now THEN "top" ELSE IF l \in tasks.later THEN "queued" ELSE at[l]]
        /\ msgs' = Fresh(msgs, <<UserText({})>>)
        /\ step' = Fresh(step, 0)
        /\ pinned' = Fresh(pinned, <<>>)
        /\ recorded' = Fresh(recorded, 0)

\* The handler of ComposioRun, DocumentRun, ..., ResearchRun, CodeRun or of
\* ParallelRun.
Delegates(id) ==
    /\ at[Main] = "tools" /\ calls[Main][id].kind = "delegate" /\ calls[Main][id].st = "run"
    /\ Running(id) = {}
    /\ LET free == {w \in Workers : serves[w] = NoCall}
       IN  \E tasks \in Alone(free) \cup InParallel(free) : Launch(id, tasks)
    /\ UNCHANGED <<shared, calls, checkpoint>>

NextWorker(w) ==
    /\ at[w] = "queued"
    /\ \A v \in Running(serves[w]) : at[v] \in {"queued", "ended"}
    /\ at' = [at EXCEPT ![w] = "top"]
    /\ UNCHANGED <<shared, msgs, step, pinned, calls, recorded, serves, checkpoint>>

\* The workers forgotten: their loops are local to the handler.
Drop(ws, f) ==
    /\ serves' = [w \in Workers |-> IF w \in ws THEN NoCall ELSE serves[w]]
    /\ at' = [l \in Loops |-> IF l \in ws THEN "idle" ELSE f[l]]
    /\ step' = [l \in Loops |-> IF l \in ws THEN 0 ELSE step[l]]
    /\ recorded' = [l \in Loops |-> IF l \in ws THEN 0 ELSE recorded[l]]

\* All workers of the call are done: their last words are its result. Output
\* that looks like an error is retried like any other failure.
WorkersReturn(id, good) ==
    /\ at[Main] = "tools" /\ calls[Main][id].st = "run"
    /\ Running(id) # {} /\ \A w \in Running(id) : at[w] = "ended"
    /\ SetCall(Main, id, IF good THEN [calls[Main][id] EXCEPT !.st = "ok"] ELSE Retried(calls[Main][id]))
    /\ Drop(Running(id), at)
    /\ msgs' = [l \in Loops |-> IF l \in Running(id) THEN <<>> ELSE msgs[l]]
    /\ pinned' = [l \in Loops |-> IF l \in Running(id) THEN <<>> ELSE pinned[l]]
    /\ UNCHANGED <<shared, checkpoint>>
----------------------------------------------------------------------------
(* The end of a round of tools.                                             *)

Orphans(l) == IF l = Main THEN {w \in Workers : serves[w] # NoCall} ELSE {}
SizeOf(id) == 2
\* Results worth a pin: failures, what delegates bring, and the telling ones,
\* whose text names a path or an id or begins with PASS or FAIL.
Worth(l, failed, telling) == {id \in Ids(l) : id \in failed \cup telling \/ calls[l][id].kind = "delegate"}
AnsweredDone(l) == {id \in Ids(l) : calls[l][id].st \in {"ok", "error"}}
Answered(l) == Ids(l)
InOrder(ids) == SetToSortSeq(ids, LAMBDA a, b : a[3] < b[3])

\* The results, one for every call, are appended, pinned and saved; a call
\* repeated with the same arguments earns a word of steering. The workers
\* that still run are cancelled with the calls they serve.
CloseRound(l, worth, repeat) ==
    LET res == Results([id \in Answered(l) |-> SizeOf(id)])
        pins == RecordPins(pinned[l], InOrder(worth))
        gone == Orphans(l)
    IN  /\ repeat => recorded[l] = 2
        /\ Drop(gone, [at EXCEPT ![l] = "top"])
        /\ calls' = [k \in Loops |-> IF k \in gone \cup {l} THEN NoCalls ELSE calls[k]]
        /\ pinned' = [k \in Loops |-> IF k = l THEN pins ELSE IF k \in gone THEN <<>> ELSE pinned[k]]
        /\ msgs' = [k \in Loops |-> IF k \in gone THEN <<>>
                                    ELSE IF k # l THEN msgs[k]
                                    ELSE Append(msgs[l], res) \o (IF repeat THEN <<UserText({})>> ELSE <<>>)]
        /\ checkpoint' = [checkpoint EXCEPT ![Key(l)] =
               [by |-> l, msgs |-> Append(msgs[l], res), step |-> step[l], pins |-> pins, done |-> FALSE]]
        /\ UNCHANGED <<shape, org, turn, cancelled, aborts, aborted>>

ToolsDone(l, repeat) ==
    /\ at[l] = "tools"
    /\ \A id \in Ids(l) : calls[l][id].st \in {"ok", "error"}
    /\ LET failed == {id \in Ids(l) : calls[l][id].st = "error"}
       IN  \E telling \in SUBSET (Ids(l) \ failed) : CloseRound(l, Worth(l, failed, telling), repeat)

\* wait_for of the tool phase: every call of the round is answered "Error".
ToolTimeoutPatient(l) ==
    /\ at[l] = "tools"
    /\ \A id \in Ids(l) : calls[l][id].kind # "delegate"
    /\ CloseRound(l, Ids(l), FALSE)

ToolTimeout(l) ==
    /\ at[l] = "tools"
    /\ \E id \in Ids(l) : calls[l][id].st \notin {"ok", "error"}
    /\ CloseRound(l, Ids(l), FALSE)
----------------------------------------------------------------------------
(* From outside: the client leaves, or the task of the turn is cancelled.   *)

Leave ==
    /\ ~cancelled /\ aborts < shape.aborts
    /\ at[Main] \in {"top", "llm", "tools", "synth"}
    /\ cancelled' = TRUE
    /\ aborts' = aborts + 1
    /\ UNCHANGED <<shape, org, turn, at, msgs, step, pinned, calls, recorded, serves, checkpoint, aborted>>

Abort ==
    /\ aborts < shape.aborts
    /\ at[Main] \in {"top", "llm", "tools", "synth"}
    /\ aborts' = aborts + 1
    /\ aborted' = aborted \cup Ids(Main)
    /\ Drop(Orphans(Main), [at EXCEPT ![Main] = "aborted"])
    /\ calls' = [l \in Loops |-> NoCalls]
    /\ msgs' = [l \in Loops |-> IF l = Main THEN msgs[l] ELSE <<>>]
    /\ pinned' = [l \in Loops |-> IF l = Main THEN pinned[l] ELSE <<>>]
    /\ UNCHANGED <<shape, org, turn, cancelled, checkpoint>>

Step(l) ==
    \/ WallExhausted(l) \/ RoundsExhausted(l) \/ Synthesized(l) \/ SeesCancel(l)
    \/ Ask(l) \/ GivesUp(l) \/ Answers(l)
    \/ \E n \in 1..CallsOf(l) : CallsTools(l, n)
    \/ \E repeat \in BOOLEAN : ToolsDone(l, repeat)
    \/ ToolTimeout(l)

Call(l, id) == Begin(l, id) \/ AttemptSucceeds(l, id) \/ AttemptFails(l, id) \/ Rested(l, id)

Next ==
    \/ StartTurn \/ ResumeTurn \/ Leave \/ Abort
    \/ \E l \in Loops : Step(l) \/ \E id \in Ids(l) : Call(l, id)
    \/ \E id \in Ids(Main) : Delegates(id) \/ \E good \in BOOLEAN : WorkersReturn(id, good)
    \/ \E w \in Workers : NextWorker(w)

Spec == Init /\ [][Next]_vars

(* A loop runs on and its timers (the deadline of the stream, the timeout of *)
(* the tool phase) fire. That a tool answers is not assumed.                 *)
FairSpec ==
    /\ Spec
    /\ \A l \in Loops : WF_vars(at[l] # "tools" /\ Step(l)) /\ WF_vars(ToolTimeout(l))
    /\ \A l \in Loops : WF_vars(\E repeat \in BOOLEAN : ToolsDone(l, repeat))
----------------------------------------------------------------------------
CallType == [kind : {"plain", "malformed", "delegate"}, st : {"wait", "run", "rest", "ok", "error"}, tries : 0..(shape.retries + 1)]

\* A worker has a place and a call exactly while it serves one; counters stay
\* in their bounds; only loops that run tools have calls.
TypeOK ==
    /\ turn \in 0..shape.turns /\ aborts \in 0..shape.aborts /\ cancelled \in BOOLEAN /\ org \in BOOLEAN
    /\ at \in [Loops -> {"idle", "queued", "top", "llm", "tools", "synth", "ended", "aborted"}]
    /\ \A l \in Loops : step[l] \in 0..RoundsOf(l) /\ recorded \in [Loops -> 0..2]
    /\ \A w \in Workers : at[w] = "idle" <=> serves[w] = NoCall
    /\ \A l \in Loops : /\ calls[l] # NoCalls => at[l] = "tools"
                        /\ \A id \in Ids(l) : calls[l][id] \in CallType
                        /\ Len(pinned[l]) <= MaxPins

\* What is sent to the model can be read by it (providers reject anything
\* else): results follow the message with their tool_use blocks, and every
\* tool_use is answered by the next message, but where an abort cut its round
\* off. The window, the summary, the dropped rounds and the results of rounds
\* that timed out all have to keep that (context_manager.py:34).
WellFormed(s) ==
    \A i \in DOMAIN s :
        /\ ResultsOnly(s[i]) => i > 1 /\ s[i - 1].uses = DOMAIN s[i].results
        /\ s[i].uses \ aborted # {} => i < Len(s) /\ DOMAIN s[i + 1].results = s[i].uses
RequestWellFormed == \A l \in Loops : Waits(l) => WellFormed(Request(l))

\* The question being answered is in what is sent, in its own message or in
\* the summary, unless the agent has said more in this turn than the summary
\* has lines for, when the window is longer than what the summary leaves
\* (context_manager.py:345 keeps only the first question).
Said(s) == Cardinality({i \in DOMAIN s : s[i].text /\ \E j \in 1..i : turn \in s[j].asks})
QuestionIsSent ==
    org /\ shape.cm.max > KeepRecent + 2 /\ shape.cm.after < shape.cm.max
    /\ Waits(Main) /\ Said(msgs[Main]) <= MaxVisible
    => \E m \in ToSet(Request(Main)) : turn \in m.asks

\* A checkpoint that Main would resume from is a past state of its own session
\* when the caller has an organisation. Without one a worker writes under the
\* key of its parent (delegation.py:221).
CheckpointIsMain ==
    LET cp == checkpoint[Key(Main)]
    IN  org /\ cp.by # "none" => cp.by = Main /\ IsPrefix(cp.msgs, msgs[Main])

\* No attempt is started over the limit, and nothing but a call of a live
\* round holds a permit: a cancelled call gives back its own and those of the
\* workers below it (tool_executor.py:127).
PermitsReturned ==
    /\ Held <= Permits
    /\ \A w \in Workers : \A id \in Ids(w) : Holds(calls[w][id])
           => serves[w] \in Ids(Main) /\ Holds(calls[Main][serves[w]])

\* A turn ends though every tool hangs, also when delegates hold all the
\* permits their workers wait for (run.py:736).
TurnEnds == (at[Main] = "top") ~> (at[Main] \in {"ended", "aborted"})
=============================================================================
