-------------------------- MODULE MemoryRunBuffer --------------------------
(***************************************************************************)
(* The in-process buffer of one detached run (MemoryRunBuffer): workers    *)
(* append SSE chunks and finish; subscribers replay what is retained and   *)
(* then tail a bounded queue of their own.                                 *)
(*                                                                         *)
(* The buffer's asyncio.Lock is never held across a suspension, so append, *)
(* the locked part of finish and the locked part of subscribe are atomic;  *)
(* what interleaves is the finish loop (await q.put on a full queue), the  *)
(* yields of the subscriber generators and the disconnects of clients.     *)
(* A chunk is its sequence number: the payload plays no part.              *)
(***************************************************************************)
EXTENDS Integers, Sequences, FiniteSets

CONSTANTS
    Conns,              \* stream connections; each is opened at most once
    Workers,            \* _run_worker tasks that write to this buffer
    MaxChunksPerRun,    \* _MAX_CHUNKS_PER_RUN
    SubscriberQueueMax, \* _SUBSCRIBER_QUEUE_MAX
    MaxSeq,             \* bound on the chunks the workers append
    None                \* no connection

ASSUME BufferAssumption ==
    /\ MaxChunksPerRun \in Nat \ {0}
    /\ SubscriberQueueMax \in Nat \ {0}
    /\ MaxSeq \in Nat
    /\ None \notin Conns

Sentinel == -1          \* _SENTINEL: the end-of-stream mark in a queue

VARIABLES
    chunks,         \* the retained chunks, oldest first
    nextSeq,        \* next_seq
    done,           \* done
    subscribers,    \* connections whose queue is in self.subscribers
    wpc,            \* worker: "streaming", "finishing", "finished"
    toEnd,          \* worker: queues its finish has still to put a sentinel in
    awaiting,       \* worker: the connection whose queue.put it awaits
    cpc,            \* connection: "new", "replay", "tail", "closed", "gone"
    isDone,         \* connection: is_done, read when it subscribed
    after,          \* connection: the id it resumes after
    replay,         \* connection: retained chunks it has still to be sent
    queue,          \* connection: its asyncio.Queue
    start,          \* history: first id the connection is owed
    got             \* history: ids the connection was sent, in order

buffer == <<chunks, nextSeq, done>>
writer == <<wpc, toEnd, awaiting>>
reader == <<cpc, isDone, after, replay, start, got>>
vars == <<buffer, subscribers, writer, reader, queue>>

Init ==
    /\ chunks = <<>>
    /\ nextSeq = 0
    /\ done = FALSE
    /\ subscribers = {}
    /\ wpc = [w \in Workers |-> "streaming"]
    /\ toEnd = [w \in Workers |-> {}]
    /\ awaiting = [w \in Workers |-> None]
    /\ cpc = [c \in Conns |-> "new"]
    /\ isDone = [c \in Conns |-> FALSE]
    /\ after = [c \in Conns |-> -1]
    /\ replay = [c \in Conns |-> <<>>]
    /\ queue = [c \in Conns |-> <<>>]
    /\ start = [c \in Conns |-> 0]
    /\ got = [c \in Conns |-> <<>>]

----------------------------------------------------------------------------
(* The worker's side. *)

\* q.full(): put_nowait raises, put waits.
Full(c) == Len(queue[c]) >= SubscriberQueueMax

\* Keep the newest MaxChunksPerRun chunks.
Trim(s) == IF Len(s) > MaxChunksPerRun THEN Tail(s) ELSE s

\* Bug to be caught: append does not look at done.
AcceptsAlways == TRUE

\* if self.done: return
Accepts == ~done

\* append: number the chunk, retain it, offer it to every subscriber without
\* waiting.  A subscriber whose queue is full is dropped from the list; the
\* sentinel it is meant to get does not fit in the queue that is full, and
\* the QueueFull is swallowed.  An append after finish returns at once.
AppendChunk(w) ==
    /\ wpc[w] = "streaming"
    /\ Accepts
    /\ nextSeq < MaxSeq
    /\ nextSeq' = nextSeq + 1
    /\ chunks' = Trim(Append(chunks, nextSeq))
    /\ queue' = [c \in Conns |-> IF c \in subscribers /\ ~Full(c)
                                   THEN Append(queue[c], nextSeq)
                                   ELSE queue[c]]
    /\ subscribers' = {c \in subscribers : ~Full(c)}
    /\ UNCHANGED <<done, writer, reader>>

\* The loop of finish moves on to one of the queues left, or returns.  The
\* code follows the order of the list; any order stands for it here.
PutNext(w, left) ==
    \/ /\ left = {}
       /\ wpc' = [wpc EXCEPT ![w] = "finished"]
       /\ toEnd' = [toEnd EXCEPT ![w] = {}]
       /\ awaiting' = [awaiting EXCEPT ![w] = None]
    \/ \E c \in left :
       /\ wpc' = [wpc EXCEPT ![w] = "finishing"]
       /\ toEnd' = [toEnd EXCEPT ![w] = left \ {c}]
       /\ awaiting' = [awaiting EXCEPT ![w] = c]

\* Bug to be caught: the sentinels are put, but done is not set.
FinishUnmarked(w) ==
    /\ wpc[w] = "streaming"
    /\ subscribers' = {}
    /\ PutNext(w, subscribers)
    /\ UNCHANGED <<buffer, reader, queue>>

\* Bug to be caught: the list is cleared before it is copied.
FinishForgetful(w) ==
    /\ wpc[w] = "streaming"
    /\ done' = TRUE
    /\ subscribers' = {}
    /\ PutNext(w, {})
    /\ UNCHANGED <<chunks, nextSeq, reader, queue>>

\* finish, under the lock: mark the run done, take the subscriber list.
FinishBegin(w) ==
    /\ wpc[w] = "streaming"
    /\ done' = TRUE
    /\ subscribers' = {}
    /\ PutNext(w, subscribers)
    /\ UNCHANGED <<chunks, nextSeq, reader, queue>>

\* finish: await q.put(_SENTINEL) goes through once the queue has room.  The
\* queues are served one after the other: a full one holds up the rest.
FinishPut(w) ==
    /\ wpc[w] = "finishing"
    /\ ~Full(awaiting[w])
    /\ queue' = [queue EXCEPT ![awaiting[w]] = Append(@, Sentinel)]
    /\ PutNext(w, toEnd[w])
    /\ UNCHANGED <<buffer, subscribers, reader>>

----------------------------------------------------------------------------
(* The subscriber generator of one connection. *)

\* Bug to be caught: s >= after.
RetainedFrom(a) == SelectSeq(chunks, LAMBDA s : s >= a)

\* The retained chunks with an id greater than a, in order: the ids in the
\* list are consecutive (NewestRetained), so the filter takes a suffix.
RetainedAfter(a) ==
    IF chunks = <<>> \/ a >= nextSeq - 1 THEN <<>>
    ELSE IF a < chunks[1] THEN chunks
    ELSE SubSeq(chunks, a - chunks[1] + 2, Len(chunks))

\* subscribe, under the lock: read done, register the queue unless the run
\* is done, take the chunks to replay.  The client names the last id it saw
\* (-1: none) in ?after= or Last-Event-ID.
Subscribe(c) ==
    /\ cpc[c] = "new"
    /\ \E a \in -1..(nextSeq - 1) :
       /\ after' = [after EXCEPT ![c] = a]
       /\ replay' = [replay EXCEPT ![c] = RetainedAfter(a)]
       /\ start' = [start EXCEPT ![c] =
                       IF RetainedAfter(a) = <<>> THEN nextSeq
                       ELSE RetainedAfter(a)[1]]
    /\ isDone' = [isDone EXCEPT ![c] = done]
    /\ subscribers' = IF done THEN subscribers ELSE subscribers \cup {c}
    /\ cpc' = [cpc EXCEPT ![c] = "replay"]
    /\ UNCHANGED <<buffer, writer, queue, got>>

\* for _, w in replay: yield w
SendReplay(c) ==
    /\ cpc[c] = "replay"
    /\ replay[c] # <<>>
    /\ got' = [got EXCEPT ![c] = Append(@, Head(replay[c]))]
    /\ replay' = [replay EXCEPT ![c] = Tail(@)]
    /\ UNCHANGED <<buffer, subscribers, writer, cpc, isDone, after, queue, start>>

\* The replay is over: return if the run was done at subscription, else tail.
\* The finally clause takes the queue off the list.
ReplayOver(c) ==
    /\ cpc[c] = "replay"
    /\ replay[c] = <<>>
    /\ cpc' = [cpc EXCEPT ![c] = IF isDone[c] THEN "closed" ELSE "tail"]
    /\ subscribers' = IF isDone[c] THEN subscribers \ {c} ELSE subscribers
    /\ UNCHANGED <<buffer, writer, queue, isDone, after, replay, start, got>>

\* item = await q.get(); yield item
SendLive(c) ==
    /\ cpc[c] = "tail"
    /\ queue[c] # <<>>
    /\ Head(queue[c]) # Sentinel
    /\ got' = [got EXCEPT ![c] = Append(@, Head(queue[c]))]
    /\ queue' = [queue EXCEPT ![c] = Tail(@)]
    /\ UNCHANGED <<buffer, subscribers, writer, cpc, isDone, after, replay, start>>

\* item is _SENTINEL: the stream ends.
EndLive(c) ==
    /\ cpc[c] = "tail"
    /\ queue[c] # <<>>
    /\ Head(queue[c]) = Sentinel
    /\ queue' = [queue EXCEPT ![c] = Tail(@)]
    /\ cpc' = [cpc EXCEPT ![c] = "closed"]
    /\ subscribers' = subscribers \ {c}
    /\ UNCHANGED <<buffer, writer, isDone, after, replay, start, got>>

\* The client goes away: the generator is cancelled at its yield or its get,
\* and only the finally clause runs.
Disconnect(c) ==
    /\ cpc[c] \in {"replay", "tail"}
    /\ cpc' = [cpc EXCEPT ![c] = "gone"]
    /\ subscribers' = subscribers \ {c}
    /\ UNCHANGED <<buffer, writer, queue, isDone, after, replay, start, got>>

Work(w) == AppendChunk(w) \/ FinishBegin(w) \/ FinishPut(w)
Serve(c) == SendReplay(c) \/ ReplayOver(c) \/ SendLive(c) \/ EndLive(c)

Next ==
    \/ \E w \in Workers : Work(w)
    \/ \E c \in Conns : Subscribe(c) \/ Serve(c) \/ Disconnect(c)

Spec == Init /\ [][Next]_vars

\* The event loop runs every task that can go on, and a connected client
\* reads what it is sent.  Nothing makes a client connect or disconnect.
FairSpec ==
    /\ Spec
    /\ \A w \in Workers : WF_vars(Work(w))
    /\ \A c \in Conns : WF_vars(Serve(c))

----------------------------------------------------------------------------
(* Properties. *)

\* The type invariant, with the bounds of the retained list and of a queue.
TypeOK ==
    /\ chunks \in Seq(Nat) /\ Len(chunks) <= MaxChunksPerRun
    /\ nextSeq \in Nat
    /\ done \in BOOLEAN
    /\ subscribers \subseteq Conns
    /\ wpc \in [Workers -> {"streaming", "finishing", "finished"}]
    /\ toEnd \in [Workers -> SUBSET Conns]
    /\ awaiting \in [Workers -> Conns \cup {None}]
    /\ cpc \in [Conns -> {"new", "replay", "tail", "closed", "gone"}]
    /\ isDone \in [Conns -> BOOLEAN]
    /\ after \in [Conns -> Int]
    /\ replay \in [Conns -> Seq(Nat)]
    /\ queue \in [Conns -> Seq(Nat \cup {Sentinel})]
    /\ \A c \in Conns : Len(queue[c]) <= SubscriberQueueMax
    /\ start \in [Conns -> Nat]
    /\ got \in [Conns -> Seq(Nat)]

\* What is retained is the newest part of the run, with no hole in it: a
\* reader that is at most MaxChunksPerRun chunks behind can catch up.
NewestRetained ==
    /\ \A i \in 1..Len(chunks) : chunks[i] = nextSeq - Len(chunks) + i - 1
    /\ Len(chunks) = IF nextSeq < MaxChunksPerRun THEN nextSeq ELSE MaxChunksPerRun

\* A reader is sent consecutive ids, whatever the moment it subscribed, and
\* they carry on right after the id it named: the chunks it misses, if any,
\* are chunks the buffer had already let go of.
NoGapNoRepeat ==
    \A c \in Conns :
        /\ \A i \in 1..(Len(got[c]) - 1) : got[c][i + 1] = got[c][i] + 1
        /\ got[c] # <<>> =>
              \/ got[c][1] = after[c] + 1
              \/ after[c] + 1 < got[c][1] /\ after[c] + 1 < chunks[1]

\* The last id a reader knows of: the last it was sent, or else the one it
\* resumed after.
LastSeen(c) == IF got[c] = <<>> THEN after[c] ELSE got[c][Len(got[c])]

\* The server ends a stream only when the run is done and the reader has had
\* its last chunk, also for a reader that was slow, came late, or came back.
ClosedComplete ==
    \A c \in Conns : cpc[c] = "closed" => done /\ LastSeen(c) = nextSeq - 1

\* A connected reader that append dropped for being slow: nothing will be put
\* in its queue any more, a sentinel included.
Orphaned(c) ==
    /\ cpc[c] \in {"replay", "tail"}
    /\ ~isDone[c]
    /\ c \notin subscribers
    /\ \A w \in Workers : c \notin toEnd[w] /\ awaiting[w] # c
    /\ \A i \in 1..Len(queue[c]) : queue[c][i] # Sentinel

\* append has dropped c, and the run goes on.
Dropped(c) == Orphaned(c) /\ ~done

\* Streams come to their end, for every reader when none of the readers is
\* dropped or walks away, and in any case for a reader that attached to a
\* run that was done.  (One reader that leaves with its queue full while
\* finish waits for room in it holds back finish and all who come after it.)
AllStreamsEnd ==
    /\ [](\A c \in Conns : cpc[c] # "gone" /\ ~Dropped(c)) =>
          \A c \in Conns : cpc[c] \in {"replay", "tail"} ~> cpc[c] = "closed"
    /\ \A c \in Conns :
          cpc[c] = "replay" /\ isDone[c] ~> cpc[c] \in {"closed", "gone"}

\* test_run_buffer_disconnects_slow_subscriber: a subscriber that cannot keep
\* up is disconnected.  It is not: it is dropped from the list, and its
\* generator waits on its queue for ever (see Orphaned).
SlowSubscriberDisconnected ==
    \A c \in Conns : Orphaned(c) ~> cpc[c] \in {"closed", "gone"}

\* The buffer keeps the promise of RunStream.
StateOf(c) == CASE cpc[c] = "new" -> "new"
                [] cpc[c] \in {"replay", "tail"} -> "attached"
                [] cpc[c] = "closed" -> "ended"
                [] OTHER -> "left"

Stream == INSTANCE RunStream WITH
    produced <- nextSeq,
    closed <- done,
    state <- [c \in Conns |-> StateOf(c)],
    first <- start,
    heard <- got

RunStreamImplemented == Stream!Spec
----------------------------------------------------------------------------
(* The inductive invariant: where every chunk of the run is on its way to   *)
(* a connection.  Flow(c) is the id that follows what the connection was    *)
(* sent and what is waiting for it.                                         *)

NoSentinel(c) == \A i \in 1..Len(queue[c]) : queue[c][i] # Sentinel

\* The id that follows what c was sent and has yet to be replayed.
Ahead(c) == start[c] + Len(got[c]) + Len(replay[c])

Flow(c) == Ahead(c) + Len(queue[c])

WriterInv ==
    \A w \in Workers :
        /\ wpc[w] = "finishing" => awaiting[w] \in Conns
        /\ wpc[w] # "finishing" => awaiting[w] = None /\ toEnd[w] = {}
        /\ wpc[w] # "streaming" => done
        /\ awaiting[w] \notin toEnd[w]
        /\ \A v \in Workers \ {w} :
              (toEnd[w] \cup {awaiting[w]}) \cap (toEnd[v] \cup {awaiting[v]}) \subseteq {None}

\* The sentinel is still to be put in c's queue by worker w.
Owed(w, c) == c \in toEnd[w] \/ awaiting[w] = c

StartInv(c) ==
    \/ start[c] = after[c] + 1
    \/ /\ after[c] + 1 < start[c]
       /\ after[c] + 1 < nextSeq - Len(chunks)
       /\ got[c] # <<>> \/ replay[c] # <<>>

ContentInv(c) ==
    /\ \A i \in 1..Len(got[c]) : got[c][i] = start[c] + i - 1
    /\ \A i \in 1..Len(replay[c]) : replay[c][i] = start[c] + Len(got[c]) + i - 1
    /\ \A i \in 1..Len(queue[c]) :
          queue[c][i] # Sentinel =>
             /\ queue[c][i] = Ahead(c) + i - 1
             /\ queue[c][i] < nextSeq
    /\ Ahead(c) <= nextSeq

EndInv(c) ==
    /\ \A i \in 1..Len(queue[c]) :
          queue[c][i] = Sentinel => i = Len(queue[c]) /\ done /\ Flow(c) = nextSeq + 1
    /\ c \in subscribers => ~done /\ NoSentinel(c) /\ Flow(c) = nextSeq
    /\ \A w \in Workers : Owed(w, c) => done /\ NoSentinel(c) /\ Flow(c) = nextSeq

PhaseInv(c) ==
    /\ after[c] >= -1
    /\ cpc[c] = "new" => /\ got[c] = <<>> /\ replay[c] = <<>> /\ queue[c] = <<>>
                         /\ c \notin subscribers
                         /\ ~isDone[c]
                         /\ \A w \in Workers : ~Owed(w, c)
    /\ isDone[c] => /\ done /\ queue[c] = <<>> /\ Flow(c) = nextSeq
                    /\ cpc[c] # "tail"
                    /\ \A w \in Workers : ~Owed(w, c)
    /\ cpc[c] \in {"tail", "closed"} => replay[c] = <<>>
    /\ cpc[c] = "closed" => done /\ start[c] + Len(got[c]) = nextSeq

ConnInv(c) == StartInv(c) /\ ContentInv(c) /\ EndInv(c) /\ PhaseInv(c)

IInv == TypeOK /\ NewestRetained /\ WriterInv /\ (\A c \in Conns : ConnInv(c))
=============================================================================
