------------------------------ MODULE WebClient ------------------------------
(***************************************************************************)
(* The chat page of a signed-in user (useKorakuChat): the threads of the   *)
(* sidebar, the messages that wait for a stream, the turns that stream or  *)
(* are resumed, what it shows of them, and how it keeps the transcript of  *)
(* a thread at the server, which deletes the rows of the thread and        *)
(* inserts those it is sent.                                               *)
(*                                                                         *)
(* JavaScript runs to completion: an action is what one handler, timer or  *)
(* answer does up to the next await. The page is one record, and what a    *)
(* handler calls is an operator from page to page. A turn is a number, its *)
(* user message and its answer one entry; the events of its run are        *)
(* 1..events, and the stream of a run keeps the promise of RunStream.      *)
(***************************************************************************)
EXTENDS Integers, FiniteSets, Sequences, SequencesExt

CONSTANT Scenes         \* the situations considered
(* A scene has old threads, each with a stored turn (thread x has turn -x):  *)
(* those in running have a run that goes on, those in pinned are pinned. It  *)
(* bounds the threads, the streams at a time (MAX_CONCURRENT_CHAT_STREAMS),  *)
(* the events of a run, the messages sent (sends), what else the user does   *)
(* (moves, of the kinds in does), the reloads of the page, the faults and    *)
(* the POSTs under way for a thread (posts; with 0 none gets through).       *)

VARIABLES scene,    \* the bounds of this behaviour
          page,     \* what the page keeps, and what became of its messages
          known,    \* chat_thread: the threads the server has
          rows,     \* chat_message: [Threads -> the entries of a thread]
          posts,    \* POSTs of messages under way
          runs,     \* [Turns -> its detached run]
          used      \* the bounds, as far as they are used up

server == <<known, rows, posts>>
vars == <<scene, page, server, runs, used>>

Threads == 1..scene.threads
Turns == (-scene.old)..scene.sends
Listed(p) == ToSet(p.sessions)

\* An entry whose answer has just begun: initialRunState with "streaming".
Entry(j) == [turn |-> j, shown |-> <<>>, status |-> "streaming", error |-> FALSE]
Stored(x) == IF x \in scene.running THEN Entry(-x)
             ELSE [Entry(-x) EXCEPT !.shown = [n \in 1..scene.events |-> n], !.status = "completed"]
TurnsOf(l) == {l[i].turn : i \in DOMAIN l}

NoStream == [turn |-> 0, kind |-> "none", pc |-> "none", n |-> 0]
NotAsked == [pc |-> "none", rows |-> <<>>]

\* A page that has just been opened; p is the one before it. Its queues are gone.
Opened(p) ==
    [up |-> FALSE, sessions |-> <<>>, active |-> 0, last |-> p.last,
     list |-> [x \in Threads |-> <<>>], loaded |-> {}, get |-> [x \in Threads |-> NotAsked],
     drafts |-> {}, creating |-> {}, waits |-> {}, deleting |-> {},
     stream |-> [x \in Threads |-> NoStream], queue |-> [x \in Threads |-> <<>>],
     due |-> {}, drain |-> FALSE, resume |-> FALSE,
     fate |-> [j \in Turns |-> IF p.fate[j] = "queued" THEN "removed" ELSE p.fate[j]],
     over |-> p.over, torn |-> p.torn, rough |-> p.rough, ever |-> p.ever]

Init ==
    /\ scene \in Scenes
    /\ known = 1..scene.old
    /\ rows = [x \in Threads |-> IF x \in known THEN <<Stored(x)>> ELSE <<>>]
    /\ posts = {}
    /\ runs = [j \in Turns |->
                  IF -j \in scene.running THEN [made |-> 0, state |-> "going"]
                  ELSE [made |-> 0, state |-> "none"]]
    /\ used = [threads |-> scene.old, sends |-> 0, moves |-> 0, reloads |-> 0, faults |-> 0]
    /\ page = Opened([last |-> 0, fate |-> [j \in Turns |-> "none"], over |-> FALSE,
                      torn |-> {}, rough |-> {}, ever |-> [x \in Threads |-> TurnsOf(rows[x])]])

Fault == used.faults < scene.faults /\ used' = [used EXCEPT !.faults = @ + 1]
Move(kind) ==
    /\ page.up /\ kind \in scene.does /\ used.moves < scene.moves
    /\ used' = [used EXCEPT !.moves = @ + 1]
\* A move that makes a new draft of its own.
Fresh == used.threads + 1
MoveFresh(kind) ==
    /\ page.up /\ kind \in scene.does /\ used.moves < scene.moves /\ Fresh \in Threads
    /\ used' = [used EXCEPT !.moves = @ + 1, !.threads = Fresh]
----------------------------------------------------------------------------
(* What handlers call: each takes the page to the page after it. *)

\* streamingSidsRef
Streaming(p) == {x \in Threads : p.stream[x] # NoStream}

\* sortChatSessions: pinned threads first.
Sorted(s) ==
    LET Pinned(x) == x \in scene.pinned
        Other(x) == x \notin scene.pinned
    IN SelectSeq(s, Pinned) \o SelectSeq(s, Other)

\* updateAssistantRun: change the answer of turn j in thread x, if the list
\* still has it.
Update(p, x, j, Change(_)) ==
    [p EXCEPT !.list[x] = [i \in DOMAIN @ |-> IF @[i].turn = j THEN Change(@[i]) ELSE @[i]]]

Fails(e) == [e EXCEPT !.error = TRUE]
Lost(e) == [e EXCEPT !.error = TRUE, !.status = "failed"]
\* finalizeTurnStreamStatus
Final(e) == [e EXCEPT !.status = IF e.error THEN "failed" ELSE "completed"]

\* ensureDraftThreadSaved, one request at a time for a draft.
SaveDraft(p, x) == IF x \in p.drafts THEN [p EXCEPT !.creating = @ \cup {x}]
                   ELSE [p EXCEPT !.last = x]

\* runOutboundJob up to its first await. It does nothing in a thread that
\* streams, or when there are as many streams as there may be.
Run(p, x, j) ==
    IF x \in Streaming(p) \/ Cardinality(Streaming(p)) >= scene.cap
    THEN [p EXCEPT !.fate[j] = "lost"]
    ELSE SaveDraft([p EXCEPT !.list[x] = Append(@, Entry(j)),
                             !.stream[x] = [turn |-> j, kind |-> "job", pc |-> "start", n |-> 0],
                             !.due = @ \cup {x},
                             !.fate[j] = "started",
                             !.rough = IF x \in p.loaded THEN @ ELSE @ \cup {x}], x)

\* The head of the queue of x goes out.
RunNext(p, x) == Run([p EXCEPT !.queue[x] = Tail(@)], x, Head(p.queue[x]))

\* tryDrainGlobalQueue: the listed threads that do not stream, in their order.
Drained(p) ==
    LET RunHead(q, x) == IF /\ x \notin Streaming(q) /\ q.queue[x] # <<>>
                            /\ Cardinality(Streaming(q)) < scene.cap
                         THEN RunNext(q, x) ELSE q
    IN FoldLeft(RunHead, [p EXCEPT !.drain = FALSE], p.sessions)

\* The stream of x is no more: a persist is due at once.
Freed(p, x) == [p EXCEPT !.stream[x] = NoStream, !.due = @ \cup {x}]

\* Bug to be caught: the other queues are not looked at.
EndJobAlone(p, x) ==
    LET q == Freed(p, x) IN
    IF q.queue[x] # <<>> THEN RunNext(q, x) ELSE q

\* The finally clause of runOutboundJob: the thread's own queue comes first.
EndJob(p, x) ==
    LET q == Freed(p, x) IN
    IF q.queue[x] # <<>> THEN RunNext(q, x) ELSE [q EXCEPT !.drain = TRUE]

\* The finally clause of resumeStreamingTurns, and of a job that was aborted.
EndOther(p, x) == [Freed(p, x) EXCEPT !.drain = TRUE]
End(p, x) == IF p.stream[x].kind = "job" THEN EndJob(p, x) ELSE EndOther(p, x)

\* collectStreamingTurns and the loop of resumeStreamingTurns: of every listed
\* thread that does not stream, the first turn marked as streaming. Nothing
\* looks at the number of streams here.
Pending(p, x) == {i \in DOMAIN p.list[x] : p.list[x][i].status = "streaming"}
Resumed(p) ==
    LET Resume(q, x) ==
            IF x \in Streaming(q) \/ Pending(q, x) = {} THEN q
            ELSE LET j == q.list[x][CHOOSE i \in Pending(q, x) : \A k \in Pending(q, x) : i <= k].turn
                 IN [q EXCEPT !.stream[x] = [turn |-> j, kind |-> "resume", pc |-> "start", n |-> 0]]
        q == FoldLeft(Resume, [p EXCEPT !.resume = FALSE], p.sessions)
    IN [q EXCEPT !.over = @ \/ Cardinality(Streaming(q)) > scene.cap]

\* fetchThreadMessages: only one request at a time for a thread.
Asked(p, x) ==
    IF p.get[x].pc # "none" THEN p
    ELSE [p EXCEPT !.get[x].pc = "asked",
                   !.rough = IF \E m \in posts : m.x = x THEN @ \cup {x} ELSE @]

\* isEmptyUnusedSession; a thread the server has got its title with its first
\* message.
Unused(p, x) == x \in p.drafts /\ p.list[x] = <<>> /\ x \notin Streaming(p)

\* The messages that wait in the queue of x go with it.
Dropped(p, x) ==
    [p EXCEPT !.queue[x] = <<>>,
              !.fate = [j \in Turns |-> IF j \in ToSet(p.queue[x]) THEN "removed" ELSE @[j]]]

\* discardEmptySession, of a draft: if it is active the first one left is
\* shown, and nobody asks for its messages.
Discarded(p, x) ==
    IF ~Unused(p, x) THEN p
    ELSE LET s == Sorted(Remove(p.sessions, x)) IN
         [Dropped(p, x) EXCEPT !.drafts = @ \ {x}, !.loaded = @ \ {x}, !.sessions = s,
                               !.active = IF @ = x /\ s # <<>> THEN Head(s) ELSE @]

\* A new draft is shown.
Drafted(p, x) ==
    [p EXCEPT !.drafts = @ \cup {x}, !.loaded = @ \cup {x}, !.active = x,
              !.sessions = Sorted(<<x>> \o @)]

\* persistThreadToServer once the thread is saved: the whole transcript.
Sent(p, x) == IF p.list[x] = <<>> THEN {} ELSE {[x |-> x, rows |-> p.list[x], cleared |-> FALSE]}
Underway(x) == {m \in posts : m.x = x}
Overlaps(p, x) == p.list[x] # <<>> /\ (Underway(x) # {} \/ p.get[x].pc # "none")

\* The page may go on to q; what the server has stays as it is.
Becomes(q) == page' = q /\ UNCHANGED <<scene, server, runs>>
----------------------------------------------------------------------------
(* The page opens and closes. *)

\* The threads the server has, as GET /api/chat/threads lists them.
ThreadList == Sorted(SetToSortSeq(known, LAMBDA x, y : x > y))

\* Bug to be caught: the listed threads count as loaded.
LoadAll ==
    /\ ~page.up /\ Fresh \in Threads
    /\ used' = [used EXCEPT !.threads = Fresh]
    /\ LET p == Drafted([page EXCEPT !.up = TRUE, !.sessions = ThreadList, !.loaded = known], Fresh)
       IN Becomes(IF page.last \in known THEN [p EXCEPT !.active = page.last] ELSE p)

\* The page has the list: it shows a new draft, or the thread that was active
\* last and asks for its messages.
Load ==
    /\ ~page.up /\ Fresh \in Threads
    /\ used' = [used EXCEPT !.threads = Fresh]
    /\ LET p == Drafted([page EXCEPT !.up = TRUE, !.sessions = ThreadList], Fresh)
       IN Becomes(IF page.last \in known THEN Asked([p EXCEPT !.active = page.last], page.last) ELSE p)

\* The list cannot be had: only a new draft is shown.
LoadFails ==
    /\ ~page.up /\ Fresh \in Threads /\ used.faults < scene.faults
    /\ used' = [used EXCEPT !.threads = Fresh, !.faults = @ + 1]
    /\ Becomes(Drafted([page EXCEPT !.up = TRUE], Fresh))

\* The page is closed, and opened again: of the requests it had made some reach
\* the server and some do not.
Reload ==
    /\ page.up /\ used.reloads < scene.reloads /\ Fresh \in Threads
    /\ used' = [used EXCEPT !.reloads = @ + 1]
    /\ page' = Opened(page)
    /\ \E made \in SUBSET page.creating, gone \in SUBSET page.deleting :
         /\ known' = (known \cup made) \ gone
         /\ rows' = [x \in Threads |-> IF x \in gone THEN <<>> ELSE rows[x]]
    /\ \E m \in SUBSET {q \in posts : ~q.cleared} : posts' = posts \ m
    /\ \E begun \in SUBSET {page.stream[x].turn : x \in {y \in Streaming(page) :
                               page.stream[y].kind = "job" /\ page.stream[y].pc = "start"}} :
         runs' = [j \in Turns |-> IF j \in begun THEN [made |-> 0, state |-> "going"] ELSE runs[j]]
    /\ UNCHANGED scene
----------------------------------------------------------------------------
(* What the user does. *)

\* send: the composer is there unless the messages of the thread are awaited.
Send ==
    /\ page.up /\ page.active # 0 /\ page.get[page.active].pc = "none"
    /\ used.sends < scene.sends
    /\ used' = [used EXCEPT !.sends = @ + 1]
    /\ LET x == page.active  j == used.sends + 1 IN
       Becomes(IF x \in Streaming(page) \/ Cardinality(Streaming(page)) >= scene.cap
               THEN [page EXCEPT !.queue[x] = Append(@, j), !.fate[j] = "queued"]
               ELSE Run(page, x, j))

\* newChat: not while the one that is shown is unused.
NewChat ==
    /\ MoveFresh("new")
    /\ ~Unused(page, page.active)
    /\ Becomes(Drafted(page, Fresh))

\* selectSession: the thread left is discarded if it is unused; the messages of
\* x are asked for, or its turns resumed if they are there. Discarding shows
\* the first thread left in an updater of the list (useKorakuChat.ts:385), and
\* that comes before x is shown, or after it if React runs the updater when it
\* renders.
Select(x) ==
    /\ Move("select")
    /\ x \in Listed(page)
    /\ LET p == IF page.active = x THEN page ELSE Discarded(page, page.active)
           q == [p EXCEPT !.active = x, !.last = IF x \in p.drafts THEN @ ELSE x]
           s == IF x \in q.loaded THEN [q EXCEPT !.resume = TRUE] ELSE Asked(q, x)
       IN \/ Becomes(s)
          \/ p # page /\ Becomes([s EXCEPT !.active = p.active])

\* discardEmptyActiveSession: the user goes to another part of the app.
Leave ==
    /\ Move("leave")
    /\ Unused(page, page.active)
    /\ Becomes(Discarded(page, page.active))

\* removeQueuedMessage
RemoveQueued(j) ==
    /\ Move("unqueue")
    /\ j \in ToSet(page.queue[page.active])
    /\ Becomes([page EXCEPT !.queue[page.active] = Remove(@, j), !.fate[j] = "removed"])

\* deleteSession after its await: the thread leaves the page. What was queued
\* in it meanwhile stays, and follows a stream that began meanwhile.
Closed(p, x) ==
    LET s == Sorted(Remove(p.sessions, x))
        q == [p EXCEPT !.list[x] = <<>>, !.deleting = @ \ {x}, !.sessions = s, !.drain = TRUE]
    IN IF s = <<>> THEN Drafted([q EXCEPT !.loaded = {}, !.list = [y \in Threads |-> <<>>]], Fresh)
       ELSE [q EXCEPT !.active = IF p.active = x THEN Head(s) ELSE @]

\* deleteSession up to its await. Its stream is aborted; the run goes on.
Aborted(p, x) ==
    [Dropped(IF x \in Streaming(p) THEN EndOther(p, x) ELSE p, x)
        EXCEPT !.drafts = @ \ {x}, !.loaded = @ \ {x}]
Only(x) == Listed(page) = {x}
Delete(x) ==
    /\ x \in Listed(page) \ (scene.pinned \cup page.deleting)
    /\ IF x \in page.drafts
       THEN /\ IF Only(x) THEN MoveFresh("delete") ELSE Move("delete")
            /\ Becomes(Closed(Aborted(page, x), x))
       ELSE /\ Move("delete")
            /\ Becomes([Aborted(page, x) EXCEPT !.deleting = @ \cup {x}])

\* refreshSession of a pinned thread: the list of threads as the server has it,
\* then the messages again, whatever the page holds of them.
Refresh(x) ==
    /\ Move("refresh")
    /\ x \in Listed(page) \cap scene.pinned
    /\ Becomes(Asked([page EXCEPT !.sessions = ThreadList, !.loaded = @ \ {x}], x))
----------------------------------------------------------------------------
(* Answers and timers. *)

\* The DELETE is through; or it failed, which makes no difference to the page.
DeleteReturns(x) ==
    /\ x \in page.deleting
    /\ Only(x) => Fresh \in Threads
    /\ LET u == IF Only(x) THEN [used EXCEPT !.threads = Fresh] ELSE used IN
       \/ /\ known' = known \ {x} /\ rows' = [rows EXCEPT ![x] = <<>>]
          /\ used' = u
       \/ /\ used.faults < scene.faults
          /\ used' = [u EXCEPT !.faults = @ + 1]
          /\ UNCHANGED <<known, rows>>
    /\ page' = Closed(page, x)
    /\ UNCHANGED <<scene, posts, runs>>

\* GET /messages at the server.
GetReads(x) ==
    /\ page.get[x].pc = "asked"
    /\ Becomes([page EXCEPT !.get[x] = [pc |-> "answered", rows |-> rows[x]]])
    /\ UNCHANGED used

\* fetchThreadMessages after its await.
GetReturns(x) ==
    /\ page.get[x].pc = "answered"
    /\ Becomes([page EXCEPT !.get[x] = NotAsked, !.list[x] = page.get[x].rows,
                            !.loaded = @ \cup {x}, !.resume = @ \/ page.active = x,
                            !.torn = @ \cup ({page.stream[x].turn} \ {0})])
    /\ UNCHANGED used

GetFails(x) ==
    /\ page.get[x].pc # "none"
    /\ Fault
    /\ Becomes([page EXCEPT !.get[x] = NotAsked])

\* Timers: tryDrainGlobalQueue and resumeStreamingTurns.
Drain == page.drain /\ Becomes(Drained(page)) /\ UNCHANGED used
Resume == page.resume /\ Becomes(Resumed(page)) /\ UNCHANGED used

\* A persist that is due: a draft is saved first; then the transcript goes out.
Persist(x) ==
    /\ x \in page.due
    /\ Cardinality(Underway(x)) < scene.posts
    /\ LET p == [page EXCEPT !.due = @ \ {x}] IN
       IF x \in p.drafts
       THEN /\ page' = [p EXCEPT !.creating = @ \cup {x}, !.waits = @ \cup {x}]
            /\ UNCHANGED posts
       ELSE /\ page' = [p EXCEPT !.rough = IF Overlaps(p, x) THEN @ \cup {x} ELSE @]
            /\ posts' = posts \cup Sent(p, x)
    /\ UNCHANGED <<scene, known, rows, runs, used>>

\* POST /api/chat/threads is through; then what waited for it.
CreateReturns(x) ==
    /\ x \in page.creating
    /\ x \in page.waits => Cardinality(Underway(x)) < scene.posts
    /\ known' = known \cup {x}
    /\ page' = [page EXCEPT !.creating = @ \ {x}, !.drafts = @ \ {x}, !.waits = @ \ {x}, !.last = x,
                            !.rough = IF x \in page.waits /\ Overlaps(page, x) THEN @ \cup {x} ELSE @]
    /\ posts' = IF x \in page.waits THEN posts \cup Sent(page, x) ELSE posts
    /\ UNCHANGED <<scene, rows, runs, used>>

\* It failed: the draft stays one, and what waited gives up.
CreateFails(x) ==
    /\ x \in page.creating
    /\ Fault
    /\ Becomes([page EXCEPT !.creating = @ \ {x}, !.waits = @ \ {x}])

\* POST /messages at the server: the thread is looked up, its rows deleted.
PostClears(m) ==
    /\ ~m.cleared
    /\ IF m.x \in known
       THEN /\ rows' = [rows EXCEPT ![m.x] = <<>>]
            /\ posts' = (posts \ {m}) \cup {[m EXCEPT !.cleared = TRUE]}
       ELSE posts' = posts \ {m} /\ UNCHANGED rows
    /\ UNCHANGED <<scene, page, known, runs, used>>

\* ... and the new ones inserted: not if the thread is gone or another POST has
\* put a row with the same id there since.
PostInserts(m) ==
    /\ m.cleared
    /\ posts' = posts \ {m}
    /\ IF m.x \in known /\ TurnsOf(m.rows) \cap TurnsOf(rows[m.x]) = {}
       THEN /\ rows' = [rows EXCEPT ![m.x] = @ \o m.rows]
            /\ page' = [page EXCEPT !.ever[m.x] = @ \cup TurnsOf(m.rows)]
       ELSE UNCHANGED <<rows, page>>
    /\ UNCHANGED <<scene, known, runs, used>>

\* The insert fails, and the rows deleted before it are gone.
PostFails(m) ==
    /\ m.cleared
    /\ Fault
    /\ posts' = posts \ {m}
    /\ page' = [page EXCEPT !.rough = @ \cup {m.x}]
    /\ UNCHANGED <<scene, known, rows, runs>>
----------------------------------------------------------------------------
(* The stream of a thread, its turn j. *)

At(x, pc) == page.stream[x].pc = pc
TurnOf(x) == page.stream[x].turn
OfKind(x, kind) == page.stream[x].kind = kind

\* POST /runs: the run begins.
JobStarts(x) ==
    /\ OfKind(x, "job") /\ At(x, "start")
    /\ runs' = [runs EXCEPT ![TurnOf(x)] = [made |-> 0, state |-> "going"]]
    /\ page' = [page EXCEPT !.stream[x].pc = "attach"]
    /\ UNCHANGED <<scene, server, used>>

\* POST /runs fails, before the run has begun or after.
JobFails(x) ==
    /\ OfKind(x, "job") /\ At(x, "start")
    /\ Fault
    /\ \/ UNCHANGED runs
       \/ runs' = [runs EXCEPT ![TurnOf(x)] = [made |-> 0, state |-> "going"]]
    /\ page' = End(Update(page, x, TurnOf(x), Fails), x)
    /\ UNCHANGED <<scene, server>>

\* Bug to be caught: what is shown stays while the run is replayed.
ResumeAppends(x) ==
    /\ OfKind(x, "resume") /\ At(x, "start")
    /\ Becomes([page EXCEPT !.stream[x].pc = "attach"])
    /\ UNCHANGED used

\* runStateForStreamReplay: the answer starts anew, the run is replayed.
ResumeStarts(x) ==
    /\ OfKind(x, "resume") /\ At(x, "start")
    /\ LET Anew(e) == Entry(e.turn) IN
       Becomes([Update(page, x, TurnOf(x), Anew) EXCEPT !.stream[x].pc = "attach"])
    /\ UNCHANGED used

Gone(x) == runs[TurnOf(x)].state \in {"none", "gone"}

\* GET /runs/{id}/stream?after=-1
Attach(x) ==
    /\ At(x, "attach") /\ ~Gone(x)
    /\ Becomes([page EXCEPT !.stream[x].pc = "read"])
    /\ UNCHANGED used

\* After an error a job leaves its turn marked as streaming, a resumption does
\* not.
Broken(x) == IF OfKind(x, "job") THEN Update(page, x, TurnOf(x), Fails)
             ELSE Update(page, x, TurnOf(x), Lost)

\* ... of a run that is not there, or that cannot be reached.
AttachFails(x) ==
    /\ At(x, "attach")
    /\ IF Gone(x) THEN UNCHANGED used ELSE Fault
    /\ Becomes(End(Broken(x), x))

\* ingestKorakuSseFromReader: an event is applied, and a persist comes due.
Read(x) ==
    /\ At(x, "read") /\ ~Gone(x)
    /\ page.stream[x].n < runs[TurnOf(x)].made
    /\ LET n == page.stream[x].n + 1
           Show(e) == [e EXCEPT !.shown = Append(@, n)]
       IN Becomes([Update(page, x, TurnOf(x), Show) EXCEPT !.stream[x].n = n, !.due = @ \cup {x}])
    /\ UNCHANGED used

\* ... event: done
ReadDone(x) ==
    /\ At(x, "read")
    /\ runs[TurnOf(x)].state = "done" /\ page.stream[x].n = runs[TurnOf(x)].made
    /\ Becomes(End(Update(page, x, TurnOf(x), Final), x))
    /\ UNCHANGED used

\* stream_detached_run is interrupted: an error and event: done, with or without
\* the run being over.
ReadInterrupted(x) ==
    /\ At(x, "read")
    /\ Fault
    /\ Becomes(End(Update(page, x, TurnOf(x), Lost), x))

\* The connection ends and done was not seen: the run is gone, or the network.
ReadCut(x) ==
    /\ At(x, "read")
    /\ IF Gone(x) THEN UNCHANGED used ELSE Fault
    /\ \/ Becomes(End(page, x))
       \/ ~Gone(x) /\ Becomes(End(Broken(x), x))

\* The run at the server (DetachedRuns) goes on whoever reads it. Its last event
\* and the end of it come together.
RunGoesOn(j) ==
    /\ runs[j].state = "going"
    /\ runs' = [runs EXCEPT ![j] = [made |-> @.made + 1,
                                    state |-> IF @.made + 1 < scene.events THEN "going" ELSE "done"]]
    /\ UNCHANGED <<scene, page, server, used>>

\* Its process dies; or it is forgotten when it has been over for ten minutes,
\* long after its readers have read it.
RunIsGone(j) ==
    /\ Fault
    /\ \/ runs[j].state = "going"
       \/ /\ runs[j].state = "done"
          /\ \A x \in Streaming(page) : TurnOf(x) = j => ~At(x, "read")
    /\ runs' = [runs EXCEPT ![j].state = "gone"]
    /\ UNCHANGED <<scene, page, server>>

Tasks ==
    \/ Load \/ Drain \/ Resume
    \/ \E x \in Threads :
         \/ DeleteReturns(x) \/ GetReads(x) \/ GetReturns(x) \/ Persist(x) \/ CreateReturns(x)
         \/ JobStarts(x) \/ ResumeStarts(x) \/ Attach(x) \/ AttachFails(x) \/ Read(x) \/ ReadDone(x)
         \/ ReadCut(x)
    \/ \E m \in posts : PostClears(m) \/ PostInserts(m)
    \/ \E j \in Turns : RunGoesOn(j)

Faulty ==
    \/ LoadFails
    \/ \E x \in Threads : GetFails(x) \/ CreateFails(x) \/ JobFails(x) \/ ReadInterrupted(x)
    \/ \E m \in posts : PostFails(m)
    \/ \E j \in Turns : RunIsGone(j)

User ==
    \/ Reload \/ Send \/ NewChat \/ Leave
    \/ \E x \in Threads : Select(x) \/ Delete(x) \/ Refresh(x)
    \/ \E j \in Turns : RemoveQueued(j)

Next == Tasks \/ Faulty \/ User

Spec == Init /\ [][Next]_vars

\* The timers of the page fire, its requests are answered, runs go on.
FairSpec == Spec /\ WF_vars(Tasks)
----------------------------------------------------------------------------
(* Properties. *)

\* What an entry shows of a run is its events from the first one on, in order
\* and once, and an answer marked completed shows them all.
Exact(e) == /\ \A i \in DOMAIN e.shown : e.shown[i] = i
            /\ e.status = "completed" => Len(e.shown) = scene.events
TranscriptExact ==
    \A x \in Threads : \A e \in ToSet(page.list[x]) \cup ToSet(rows[x]) :
        e.turn \notin page.torn => Exact(e)

\* A turn that was stored in a thread is in it whenever no POST is under way.
Keeps(x) == x \in known /\ Underway(x) = {} => page.ever[x] \subseteq TurnsOf(rows[x])

HistoryKept == \A x \in Threads \ page.rough : Keeps(x)

\* The chat history of the threads in the sidebar is in chat_message, as
\* docs/DATA_LIFECYCLE.md has it: no turn that was stored is lost. It is when a
\* thread is shown whose messages were not asked for, and a message sent in it.
StoredTurnsStay == \A x \in Threads : Keeps(x)

\* Message j waits, in a thread of the sidebar.
Waits(j) == page.fate[j] = "queued" /\ \E x \in Listed(page) : j \in ToSet(page.queue[x])
Settled(j) == page.over \/ (page.fate[j] # "lost" /\ ~Waits(j))
=============================================================================
