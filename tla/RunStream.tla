----------------------------- MODULE RunStream -----------------------------
(***************************************************************************)
(* What the buffer of a detached run promises to the clients that attach   *)
(* to GET /runs/{run_id}/stream: the run produces chunks 0, 1, 2, ... until *)
(* it is closed; a reader that attaches is owed every chunk from some      *)
(* first one on, in order, each once; its stream is ended only when the    *)
(* run is closed and the reader has heard the whole of it.  A reader may   *)
(* leave at any time, and nothing a reader does holds the run back.        *)
(***************************************************************************)
EXTENDS Integers, Sequences

CONSTANT Conns      \* the connections readers may open

VARIABLES
    produced,       \* number of chunks produced: their ids are 0..produced-1
    closed,         \* the run has said it is over
    state,          \* per connection: "new", "attached", "ended", "left"
    first,          \* id of the first chunk the connection is owed
    heard           \* ids handed to the connection, in order

vars == <<produced, closed, state, first, heard>>

Init ==
    /\ produced = 0
    /\ closed = FALSE
    /\ state = [c \in Conns |-> "new"]
    /\ first = [c \in Conns |-> 0]
    /\ heard = [c \in Conns |-> <<>>]

\* The run emits its next chunk.
Produce ==
    /\ ~closed
    /\ produced' = produced + 1
    /\ UNCHANGED <<closed, state, first, heard>>

\* The run is over: no chunk is produced afterwards.
Close ==
    /\ ~closed
    /\ closed' = TRUE
    /\ UNCHANGED <<produced, state, first, heard>>

\* A reader attaches and is owed the stream from chunk f on.
Attach(c) ==
    /\ state[c] = "new"
    /\ \E f \in 0..produced : first' = [first EXCEPT ![c] = f]
    /\ state' = [state EXCEPT ![c] = "attached"]
    /\ UNCHANGED <<produced, closed, heard>>

\* The reader is handed the next chunk it is owed, and no other.
Deliver(c) ==
    /\ state[c] = "attached"
    /\ first[c] + Len(heard[c]) < produced
    /\ heard' = [heard EXCEPT ![c] = Append(@, first[c] + Len(heard[c]))]
    /\ UNCHANGED <<produced, closed, state, first>>

\* The stream is ended by the server: the reader has heard all there is.
End(c) ==
    /\ state[c] = "attached"
    /\ closed
    /\ first[c] + Len(heard[c]) = produced
    /\ state' = [state EXCEPT ![c] = "ended"]
    /\ UNCHANGED <<produced, closed, first, heard>>

\* The reader goes away.
Leave(c) ==
    /\ state[c] = "attached"
    /\ state' = [state EXCEPT ![c] = "left"]
    /\ UNCHANGED <<produced, closed, first, heard>>

Next ==
    \/ Produce
    \/ Close
    \/ \E c \in Conns : Attach(c) \/ Deliver(c) \/ End(c) \/ Leave(c)

Spec == Init /\ [][Next]_vars
=============================================================================
