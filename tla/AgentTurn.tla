------------------------------ MODULE AgentTurn ------------------------------
(* The turn of an agent in three parts: its loop (AgentLoop), what the       *)
(* client is shown of it (TurnStream) and the files its tools work on        *)
(* (Workspace). The parts share no state: a behaviour is one of one part,    *)
(* and the variables of the others stay as they are.                         *)
EXTENDS AgentLoop

CONSTANTS StreamWorkers,     \* [streams of workers -> "composio" or "workhorse"]
          StreamScenes,      \* the streams TurnStream looks at
          Attachments,       \* MAX_ATTACHMENTS_PER_TURN
          FileScenes         \* the turns Workspace looks at

VARIABLES part, scene, stream, sse, torn, given, texted, billed,
          setting, round, doing, tries, told, bound, got, vm, cached, lock, disk, queued, last, mishaps

shows == <<scene, stream, sse, torn, given, texted, billed>>
files == <<setting, round, doing, tries, told, bound, got, vm, cached, lock, disk, queued, last, mishaps>>
all == <<part, vars, shows, files>>

Shown == INSTANCE TurnStream WITH Worker <- StreamWorkers, Scenes <- StreamScenes
File == INSTANCE Workspace WITH
    scene <- setting, pc <- doing, outcome <- told, Limit <- Attachments, Scenes <- FileScenes

\* There are finitely many streams of a turn; the calls of a turn that works
\* on files are numbered, have rounds, and have tools that Workspace knows.
ASSUME TurnAssumption ==
    /\ \A s \in StreamScenes : IsFiniteSet(s.streams)
    /\ Attachments \in Nat
    /\ \A s \in FileScenes :
          /\ s.retries \in Nat /\ s.faults \in Nat /\ s.captures \in BOOLEAN
          /\ Len(s.plan) \in Nat /\ DOMAIN s.plan = 1..Len(s.plan)
          /\ \A c \in DOMAIN s.plan : /\ s.plan[c].op \in File!Writing \cup {"read", "find"}
                                      /\ s.plan[c].round \in Nat

NotShown == scene = 0 /\ stream = 0 /\ sse = 0 /\ torn = 0 /\ given = 0 /\ texted = 0 /\ billed = 0
NoFiles ==
    /\ setting = 0 /\ round = 0 /\ doing = 0 /\ tries = 0 /\ told = 0 /\ bound = 0 /\ got = 0 /\ vm = 0
    /\ cached = 0 /\ lock = 0 /\ disk = 0 /\ queued = 0 /\ last = 0 /\ mishaps = 0

PartInit ==
    /\ part \in {"loop", "stream", "files"}
    /\ Init
    /\ IF part = "stream" THEN Shown!Init ELSE NotShown
    /\ IF part = "files" THEN File!Init ELSE NoFiles
    /\ part # "loop" => org /\ shape = CHOOSE s \in Shapes : s.aborts = 0

PartNext ==
    /\ UNCHANGED part
    /\ \/ part = "loop" /\ Next /\ UNCHANGED <<shows, files>>
       \/ part = "stream" /\ Shown!Next /\ UNCHANGED <<vars, files>>
       \/ part = "files" /\ File!Next /\ UNCHANGED <<vars, shows>>

PartSpec == PartInit /\ [][PartNext]_all
----------------------------------------------------------------------------
\* The type invariants of all, with the one block a client has open at a time.
TypesOK == TypeOK /\ (part = "stream" => Shown!TypeOK) /\ (part = "files" => File!TypeOK)

\* The text a client is shown piece by piece is the prose of the answer, in
\* blocks that are closed when it is over.
ShownIsProse == part = "stream" => Shown!ShownIsProse

\* Every tool that was announced to the client gets its result.
ToolsPaired == part = "stream" => Shown!ToolsPaired

\* No call of the model is free and none is billed more than twice.
RoundsBilled == part = "stream" => Shown!RoundsBilled

\* The text of a call that succeeded stays in its file until a later call
\* replaces it.
NothingLost == part = "files" => File!NothingLost

\* The last version of every file that an iMessage turn wrote is sent.
LatestSent == part = "files" => File!LatestSent
=============================================================================
