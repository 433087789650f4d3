--------------------------- MODULE MCDetachedRuns ---------------------------
(* Model checking of DetachedRuns and, as a separate part, of the page that  *)
(* starts such runs and reads them, WebClient. A behaviour is one of one     *)
(* part; the variables of the other stay as they are.                        *)
EXTENDS DetachedRuns

CONSTANT Parts           \* the parts considered

VARIABLES part, scene, page, known, rows, posts, runs, used

client == <<scene, page, known, rows, posts, runs, used>>
all == <<part, vars, client>>

\* Scenes with no fault and one stream at a time but where stated otherwise.
Scene(old, threads, sends, does, moves) ==
    [old |-> old, running |-> {}, pinned |-> {}, threads |-> threads, cap |-> 1, events |-> 1,
     sends |-> sends, does |-> does, moves |-> moves, reloads |-> 0, faults |-> 0, posts |-> 0]
Client == INSTANCE WebClient WITH
    Scenes <- {Scene(1, 2, 3, {"select", "delete"}, 2),
               [Scene(0, 3, 3, {"new", "unqueue", "leave"}, 3) EXCEPT !.cap = 2],
               [Scene(1, 2, 1, {"select"}, 1) EXCEPT !.running = {1}, !.events = 2, !.faults = 1],
               [Scene(1, 2, 2, {"select"}, 2) EXCEPT !.running = {1}],
               [Scene(1, 3, 1, {"select"}, 1) EXCEPT !.reloads = 1, !.posts = 1],
               [Scene(1, 2, 1, {"select"}, 1) EXCEPT !.faults = 1, !.posts = 2],
               [Scene(1, 3, 1, {"delete"}, 2) EXCEPT !.faults = 1, !.posts = 1],
               [Scene(1, 2, 1, {"select", "refresh"}, 2) EXCEPT !.pinned = {1}, !.posts = 1]}

NoClient ==
    scene = 0 /\ page = 0 /\ known = 0 /\ rows = 0 /\ posts = 0 /\ runs = 0 /\ used = 0

MCInit ==
    /\ part \in Parts
    /\ Init
    /\ IF part = "page" THEN Client!Init ELSE NoClient
    /\ part = "page" => backend = CHOOSE b \in Backends : TRUE

MCNext ==
    /\ UNCHANGED part
    /\ \/ part = "runs" /\ Next /\ UNCHANGED client
       \/ part = "page" /\ Client!Next /\ UNCHANGED vars

\* The fairness of DetachedRuns; what the page and the server have to do is
\* done.
MCSpec ==
    /\ MCInit /\ [][MCNext]_all
    /\ \A r \in Requests : WF_vars(part = "runs" /\ Work(r)) /\ WF_vars(part = "runs" /\ Drop(r))
    /\ WF_vars(part = "runs" /\ Expire)
    /\ WF_client(part = "page" /\ Client!Tasks)
----------------------------------------------------------------------------
\* What the page shows of a run, and what is stored of it, is its events in
\* order and once, and an answer marked completed is whole, but for the turns
\* whose thread was fetched anew while they streamed.
TranscriptExact == part = "page" => Client!TranscriptExact

\* A turn that was stored stays in its thread, but for the threads where a
\* message was sent before the stored ones were there, where a request to read
\* or write the transcript overlapped one to write it, or where the insert
\* failed.
HistoryKept == part = "page" => Client!HistoryKept

\* A message that waits for a stream is sent, or removed from the sidebar or
\* the queue by the user, unless resumed turns had more streams than there may
\* be: then it may be lost.
Waiting(j) == part = "page" /\ j \in Client!Turns /\ Client!Waits(j)
Done(j) == part = "page" /\ j \in Client!Turns => Client!Settled(j)
WaitingIsSent == \A j \in 1..3 : Waiting(j) ~> Done(j)
=============================================================================
