--------------------------- MODULE RedisRunBuffer ---------------------------
(***************************************************************************)
(* The Redis buffer of one detached run (RedisRunBuffer): the worker keeps *)
(* a list of chunks, a counter, a done mark and a record of the run in     *)
(* Redis and publishes each chunk on a channel; a subscriber on any API    *)
(* worker replays the list, then follows the channel and falls back on the *)
(* list whenever the channel gives it nothing.                             *)
(*                                                                         *)
(* Every command to Redis is an await: an action is what one command does  *)
(* and the code up to the next one.  A chunk is its sequence number.       *)
(***************************************************************************)
EXTENDS Integers, Sequences, SequencesExt

CONSTANTS
    Conns,              \* stream connections; each is opened at most once
    Workers,            \* _run_worker tasks that write to this run
    MaxChunksPerRun,    \* _MAX_CHUNKS_PER_RUN
    MaxSeq              \* bound on the chunks the workers append

Nothing == -1           \* channel: the confirmation of SUBSCRIBE, None to the reader
DoneMsg == -2           \* channel: _DONE_CHANNEL_MSG

VARIABLES
    seq,            \* key :seq
    chunks,         \* key :chunks
    doneKey,        \* key :done is set
    meta,           \* key :meta: "none", "running" or "done"
    wpc,            \* worker: the await it is at
    doneCached,     \* worker: _done_cached
    num,            \* worker: the number INCR gave it
    cpc,            \* connection: the await it is at
    cursor,         \* connection: the cursor of its generator
    pending,        \* connection: chunks read from the list, still to yield
    inbox,          \* connection: what its channel has for it
    after,          \* connection: the id it resumes after
    got,            \* history: ids the connection was sent, in order
    late,           \* history: the run was over when the connection replayed
    joined,         \* history: the list was read again once the channel was open
    log,            \* history: the chunks pushed to the list, in order
    over,           \* history: a worker marked the run done
    expired         \* history: the keys of the run are gone

keys == <<seq, chunks, doneKey, meta>>
writer == <<wpc, doneCached, num>>
reader == <<cpc, cursor, pending, after, got, late, joined>>
run == <<log, over, expired>>
vars == <<keys, writer, reader, inbox, run>>

\* register has just written the record of the run.
Init ==
    /\ seq = 0 /\ chunks = <<>> /\ doneKey = FALSE /\ meta = "running"
    /\ wpc = [w \in Workers |-> "idle"]
    /\ doneCached = [w \in Workers |-> FALSE]
    /\ num = [w \in Workers |-> 0]
    /\ cpc = [c \in Conns |-> "new"]
    /\ cursor = [c \in Conns |-> -1]
    /\ pending = [c \in Conns |-> <<>>]
    /\ inbox = [c \in Conns |-> <<>>]
    /\ after = [c \in Conns |-> -1]
    /\ got = [c \in Conns |-> <<>>]
    /\ late = [c \in Conns |-> FALSE]
    /\ joined = [c \in Conns |-> FALSE]
    /\ log = <<>> /\ over = FALSE /\ expired = FALSE

----------------------------------------------------------------------------
(* The worker's side. *)

\* Connections whose client has sent SUBSCRIBE and not UNSUBSCRIBE.
Listening == {c \in Conns : cpc[c] \in {"tail", "polled", "behind", "ending"}}

\* PUBLISH: everyone who listens gets the message, in the order published.
Published(m) == [c \in Conns |-> IF c \in Listening THEN Append(inbox[c], m) ELSE inbox[c]]

\* RPUSH and LTRIM.
Pushed(s) == LET l == Append(chunks, s) IN
             IF Len(l) > MaxChunksPerRun THEN Tail(l) ELSE l

\* append: look at _done_cached, then at the :done key.
AppendCheck(w) ==
    /\ wpc[w] = "idle"
    /\ ~doneCached[w]
    /\ seq < MaxSeq
    /\ IF doneKey THEN /\ doneCached' = [doneCached EXCEPT ![w] = TRUE]
                       /\ UNCHANGED wpc
                  ELSE /\ wpc' = [wpc EXCEPT ![w] = "number"]
                       /\ UNCHANGED doneCached
    /\ UNCHANGED <<keys, num, reader, inbox, run>>

\* append: seq = INCR :seq - 1
AppendNumber(w) ==
    /\ wpc[w] = "number"
    /\ num' = [num EXCEPT ![w] = seq]
    /\ seq' = seq + 1
    /\ wpc' = [wpc EXCEPT ![w] = "push"]
    /\ UNCHANGED <<chunks, doneKey, meta, doneCached, reader, inbox, run>>

\* append: the pipeline, a transaction: retain, trim, refresh the expiry of
\* the keys, publish.
AppendPush(w) ==
    /\ wpc[w] = "push"
    /\ chunks' = Pushed(num[w])
    /\ inbox' = Published(num[w])
    /\ log' = Append(log, num[w])
    /\ wpc' = [wpc EXCEPT ![w] = "idle"]
    /\ UNCHANGED <<seq, doneKey, meta, doneCached, num, reader, over, expired>>

\* finish: set _done_cached and the :done key.
FinishMark(w) ==
    /\ wpc[w] = "idle"
    /\ doneCached' = [doneCached EXCEPT ![w] = TRUE]
    /\ doneKey' = TRUE
    /\ over' = TRUE
    /\ wpc' = [wpc EXCEPT ![w] = "load"]
    /\ UNCHANGED <<seq, chunks, meta, num, reader, inbox, log, expired>>

\* finish: meta = await self._load_meta()
FinishLoad(w) ==
    /\ wpc[w] = "load"
    /\ wpc' = [wpc EXCEPT ![w] = IF meta = "none" THEN "publish" ELSE "save"]
    /\ UNCHANGED <<keys, doneCached, num, reader, inbox, run>>

\* finish: SET :meta with done
FinishSave(w) ==
    /\ wpc[w] = "save"
    /\ meta' = "done"
    /\ wpc' = [wpc EXCEPT ![w] = "publish"]
    /\ UNCHANGED <<seq, chunks, doneKey, doneCached, num, reader, inbox, run>>

\* finish: PUBLISH _DONE_CHANNEL_MSG
FinishPublish(w) ==
    /\ wpc[w] = "publish"
    /\ inbox' = Published(DoneMsg)
    /\ wpc' = [wpc EXCEPT ![w] = "finished"]
    /\ UNCHANGED <<keys, doneCached, num, reader, run>>

\* The process of the worker dies: no finally clause runs.
Crash(w) ==
    /\ wpc[w] # "finished"
    /\ wpc' = [wpc EXCEPT ![w] = "dead"]
    /\ UNCHANGED <<keys, doneCached, num, reader, inbox, run>>

\* The keys expire _DETACHED_GC_SEC after the last write, or the GC task drops
\* them.  A worker that streams writes a ping at least every
\* sse_keepalive_seconds, so the keys of a run with a worker stay.  Assumed:
\* ten minutes are enough for a generator to get from its first replay to its
\* first look at the channel.
Expire ==
    /\ \A w \in Workers : wpc[w] \in {"finished", "dead"}
    /\ \A c \in Conns : cpc[c] \in {"replayed", "attach", "tail", "polled", "behind"} => joined[c]
    /\ ~expired
    /\ expired' = TRUE
    /\ seq' = 0 /\ chunks' = <<>> /\ doneKey' = FALSE /\ meta' = "none"
    /\ UNCHANGED <<writer, reader, inbox, log, over>>

----------------------------------------------------------------------------
(* The subscriber generator of one connection. *)

\* The k-th of a set of positions.
Nth(kept, k) == CHOOSE i \in kept : Cardinality({j \in kept : j <= i}) = k

\* _replay_after: the retained chunks with a greater id, in their order.
ReplayAfter(a) ==
    LET kept == {i \in DOMAIN chunks : chunks[i] > a}
    IN  [k \in 1..Cardinality(kept) |-> chunks[Nth(kept, k)]]

\* Bug to be caught: the cursor is not moved by what is replayed.
CursorKept(c, s) == cursor[c]

\* The greatest id in what was read, or else the cursor as it was.
CursorAfter(c, s) == Max({cursor[c]} \cup ToSet(s))

\* The generator goes on to await p with the list read from the cursor on.
Replay(c, p) ==
    LET s == ReplayAfter(cursor[c]) IN
    /\ pending' = [pending EXCEPT ![c] = s]
    /\ cursor' = [cursor EXCEPT ![c] = CursorAfter(c, s)]
    /\ cpc' = [cpc EXCEPT ![c] = p]

\* stream_detached_run: the store knows the run; the client says where it was.
Open(c) ==
    /\ cpc[c] = "new"
    /\ meta # "none"
    /\ \E a \in {-1} \cup ToSet(log) :
       /\ after' = [after EXCEPT ![c] = a]
       /\ cursor' = [cursor EXCEPT ![c] = a]
    /\ cpc' = [cpc EXCEPT ![c] = "open"]
    /\ UNCHANGED <<keys, writer, pending, got, late, joined, inbox, run>>

\* chunks, cursor = await self._replay_after(after)
FirstReplay(c) ==
    /\ cpc[c] = "open"
    /\ Replay(c, "replayed")
    /\ late' = [late EXCEPT ![c] = (meta = "done")]
    /\ UNCHANGED <<keys, writer, after, got, joined, inbox, run>>

\* for wrapped in chunks (or in tail): yield wrapped
Send(c) ==
    /\ pending[c] # <<>>
    /\ got' = [got EXCEPT ![c] = Append(@, Head(pending[c]))]
    /\ pending' = [pending EXCEPT ![c] = Tail(@)]
    /\ UNCHANGED <<keys, writer, cpc, cursor, after, late, joined, inbox, run>>

\* The chunks of the first replay are out: return if the run is over (or
\* gone), else go on to the channel.
FirstMeta(c) ==
    /\ cpc[c] = "replayed" /\ pending[c] = <<>>
    /\ cpc' = [cpc EXCEPT ![c] =
                  IF meta = "running" THEN "attach"
                  ELSE IF late[c] THEN "closed" ELSE "cut"]
    /\ UNCHANGED <<keys, writer, cursor, pending, after, got, late, joined, inbox, run>>

\* await pubsub.subscribe: the first thing the channel holds is Redis' own
\* confirmation.
Attach(c) ==
    /\ cpc[c] = "attach"
    /\ cpc' = [cpc EXCEPT ![c] = "tail"]
    /\ inbox' = [inbox EXCEPT ![c] = <<Nothing>>]
    /\ UNCHANGED <<keys, writer, cursor, pending, after, got, late, joined, run>>

\* _cursor_from_chunk
CursorFromChunk(c, s) == Max({cursor[c], s})

\* What pubsub.get_message gives: the next message, or None when it times out
\* or when what it read was the confirmation, which ignore_subscribe_messages
\* turns into None.
Message(c) == IF inbox[c] = <<>> THEN Nothing ELSE Head(inbox[c])

\* get_message gives a chunk: yield it, with no look at the cursor.
ReceiveChunk(c) ==
    /\ cpc[c] = "tail" /\ pending[c] = <<>>
    /\ Message(c) \notin {Nothing, DoneMsg}
    /\ got' = [got EXCEPT ![c] = Append(@, Message(c))]
    /\ cursor' = [cursor EXCEPT ![c] = CursorFromChunk(c, Message(c))]
    /\ inbox' = [inbox EXCEPT ![c] = Tail(@)]
    /\ UNCHANGED <<keys, writer, cpc, pending, after, late, joined, run>>

\* get_message gives the end of the run.
ReceiveDone(c) ==
    /\ cpc[c] = "tail" /\ pending[c] = <<>>
    /\ Message(c) = DoneMsg
    /\ inbox' = [inbox EXCEPT ![c] = Tail(@)]
    /\ cpc' = [cpc EXCEPT ![c] = "ending"]
    /\ UNCHANGED <<keys, writer, cursor, pending, after, got, late, joined, run>>

\* get_message gives None.
ReceiveNothing(c) ==
    /\ cpc[c] = "tail" /\ pending[c] = <<>>
    /\ Message(c) = Nothing
    /\ inbox' = [inbox EXCEPT ![c] = IF @ = <<>> THEN @ ELSE Tail(@)]
    /\ cpc' = [cpc EXCEPT ![c] = "polled"]
    /\ UNCHANGED <<keys, writer, cursor, pending, after, got, late, joined, run>>

\* Nothing came: is the run over, or gone?
Poll(c) ==
    /\ cpc[c] = "polled"
    /\ cpc' = [cpc EXCEPT ![c] = IF meta = "running" THEN "behind" ELSE "ending"]
    /\ UNCHANGED <<keys, writer, cursor, pending, after, got, late, joined, inbox, run>>

\* Bug to be caught: an idle poll goes back to the channel without the list.
NoCatchUp(c) ==
    /\ cpc[c] = "behind"
    /\ cpc' = [cpc EXCEPT ![c] = "tail"]
    /\ UNCHANGED <<keys, writer, cursor, pending, after, got, late, joined, inbox, run>>

\* tail, cursor = await self._replay_after(cursor), then back to the channel.
CatchUp(c) ==
    /\ cpc[c] = "behind"
    /\ Replay(c, "tail")
    /\ joined' = [joined EXCEPT ![c] = TRUE]
    /\ UNCHANGED <<keys, writer, after, got, late, inbox, run>>

\* tail, _ = await self._replay_after(cursor), and the stream ends after it.
LastReplay(c) ==
    /\ cpc[c] = "ending"
    /\ Replay(c, IF expired THEN "lost" ELSE "last")
    /\ UNCHANGED <<keys, writer, after, got, late, joined, inbox, run>>

\* The generator returns and the finally clause unsubscribes.
End(c) ==
    /\ cpc[c] \in {"last", "lost"} /\ pending[c] = <<>>
    /\ cpc' = [cpc EXCEPT ![c] = IF @ = "last" THEN "closed" ELSE "cut"]
    /\ inbox' = [inbox EXCEPT ![c] = <<>>]
    /\ UNCHANGED <<keys, writer, cursor, pending, after, got, late, joined, run>>

Over(c) == cpc[c] \in {"closed", "cut", "gone"}

\* The client goes away; the finally clause unsubscribes.
Disconnect(c) ==
    /\ cpc[c] # "new" /\ ~Over(c)
    /\ cpc' = [cpc EXCEPT ![c] = "gone"]
    /\ pending' = [pending EXCEPT ![c] = <<>>]
    /\ inbox' = [inbox EXCEPT ![c] = <<>>]
    /\ UNCHANGED <<keys, writer, cursor, after, got, late, joined, run>>

Work(w) ==
    \/ AppendCheck(w) \/ AppendNumber(w) \/ AppendPush(w)
    \/ FinishMark(w) \/ FinishLoad(w) \/ FinishSave(w) \/ FinishPublish(w)

Serve(c) ==
    \/ FirstReplay(c) \/ Send(c) \/ FirstMeta(c) \/ Attach(c)
    \/ ReceiveChunk(c) \/ ReceiveDone(c) \/ ReceiveNothing(c)
    \/ Poll(c) \/ CatchUp(c) \/ LastReplay(c) \/ End(c)

Next ==
    \/ \E w \in Workers : Work(w) \/ Crash(w)
    \/ Expire
    \/ \E c \in Conns : Open(c) \/ Serve(c) \/ Disconnect(c)

Spec == Init /\ [][Next]_vars

\* The event loops run every task that can go on, a worker that lives ends its
\* run, connected clients read, and keys nobody refreshes expire.
FairSpec ==
    /\ Spec
    /\ \A w \in Workers : WF_vars(Work(w))
    /\ \A c \in Conns : WF_vars(Serve(c))
    /\ WF_vars(Expire)
----------------------------------------------------------------------------
(* Properties. *)

\* The type invariant; a cursor is at the start or at a chunk of the run.
TypeOK ==
    /\ seq \in Nat
    /\ chunks \in Seq(Nat) /\ Len(chunks) <= MaxChunksPerRun
    /\ doneKey \in BOOLEAN /\ over \in BOOLEAN /\ expired \in BOOLEAN
    /\ meta \in {"none", "running", "done"}
    /\ wpc \in [Workers -> {"idle", "number", "push", "load", "save", "publish",
                           "finished", "dead"}]
    /\ doneCached \in [Workers -> BOOLEAN]
    /\ num \in [Workers -> Nat]
    /\ cpc \in [Conns -> {"new", "open", "replayed", "attach", "tail", "polled", "behind",
                         "ending", "last", "lost", "closed", "cut", "gone"}]
    /\ cursor \in [Conns -> Int] /\ after \in [Conns -> Int]
    /\ \A c \in Conns : after[c] \in -1..cursor[c] /\ cursor[c] \in {-1} \cup ToSet(log)
    /\ pending \in [Conns -> Seq(Nat)]
    /\ inbox \in [Conns -> Seq(Nat \cup {Nothing, DoneMsg})]
    /\ got \in [Conns -> Seq(Nat)]
    /\ late \in [Conns -> BOOLEAN] /\ joined \in [Conns -> BOOLEAN]
    /\ log \in Seq(Nat)

\* What the replays and the channel overlap in is sent twice, and no chunk
\* is sent more often, however long the reader polls.
SentAtMostTwice ==
    \A c \in Conns : \A s \in ToSet(got[c]) :
        Cardinality({i \in DOMAIN got[c] : got[c][i] = s}) <= 2

\* What a reader of the Redis buffer can rely on wherever it was when the
\* worker, the channel and its own polling met (detached_run_store.py:323).
RedisSound == TypeOK /\ SentAtMostTwice

\* Every stream comes to its end, also when the worker's process dies: then
\* the record of the run expires and the readers that poll find it gone.
AllStreamsEnd == \A c \in Conns : cpc[c] = "open" ~> Over(c)

\* stream_detached_run: "SSE replay + live tail for a detached run".  A stream
\* the server ends while the buffer is there has carried the run to its end.
\* It has not when the run ends while the first replay is being sent: what
\* was appended after that replay was read is never sent.
EndedIsComplete ==
    \A c \in Conns :
        cpc[c] \in {"closed", "cut"} /\ ~expired =>
            over /\ (after[c] + 1)..(Len(log) - 1) \subseteq ToSet(got[c])

\* Where c was sent a chunk and had not been sent the one before it.
Jumps(c) == {i \in DOMAIN got[c] :
                got[c][i] > Max({after[c]} \cup ToSet(SubSeq(got[c], 1, i - 1))) + 1}

\* What c was sent up to the first jump.
Unbroken(c) == IF Jumps(c) = {} THEN got[c] ELSE SubSeq(got[c], 1, Min(Jumps(c)) - 1)

\* ... with the repeats left out.
Fresh(c) == FoldLeft(LAMBDA new, s : IF s > after[c] + Len(new) THEN Append(new, s) ELSE new,
                     <<>>, Unbroken(c))

\* c was sent a jump, over a chunk that is no longer retained.
Gapped(c) == Jumps(c) # {} /\ after[c] + Len(Fresh(c)) + 1 \notin ToSet(chunks)

\* The buffer keeps the promise of RunStream for a reader that ignores the
\* chunks it already has: but for a stream that lost chunks which were
\* trimmed, that ended because the keys of the run expired, or that ended
\* because the run ended during the first replay (see EndedIsComplete).  To
\* the promise such a reader is one that left.
StateOf(c) == CASE cpc[c] = "new" -> "new"
                [] Gapped(c) -> "left"
                [] cpc[c] = "closed" -> "ended"
                [] cpc[c] \in {"cut", "gone"} -> "left"
                [] OTHER -> "attached"

Stream == INSTANCE RunStream WITH
    produced <- Len(log),
    closed <- over,
    state <- [c \in Conns |-> StateOf(c)],
    first <- [c \in Conns |-> after[c] + 1],
    heard <- [c \in Conns |-> Fresh(c)]

RunStreamImplemented == Stream!Spec
=============================================================================
