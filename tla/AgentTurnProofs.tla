--------------------------- MODULE AgentTurnProofs ---------------------------
(***************************************************************************)
(* Proofs about AgentTurn. Of AgentLoop for any number of workers, any     *)
(* limits and any conversations: permits of the tool semaphore are given   *)
(* back and never oversubscribed, and what Main would resume from is its   *)
(* own past. Of TurnStream: tools are paired with their results and rounds *)
(* are billed. Of Workspace: what was written is kept and sent.            *)
(***************************************************************************)
EXTENDS AgentTurn, ContextManagerProofs, WellFoundedInduction

(***************************************************************************)
(* The inductive invariant.                                                *)
(***************************************************************************)

Places == {"idle", "queued", "top", "llm", "tools", "synth", "ended", "aborted"}
CallIds == Nat \X Nat \X Nat
CallRec == [kind : {"plain", "malformed", "delegate"}, st : {"wait", "run", "rest", "ok", "error"}, tries : Nat]
Message == Messages(CallIds)
Keys == {"run", "org:run"}

\* The types that the steps need of one another. The bounds of TypeOK are not
\* among them: without an organisation a turn resumes with the step of a worker.
LoopTypes ==
    /\ shape \in Shapes /\ org \in BOOLEAN /\ turn \in Nat
    /\ at \in [Loops -> Places]
    /\ msgs \in [Loops -> Seq(Message)]
    /\ step \in [Loops -> Nat]
    /\ DOMAIN serves = Workers
    /\ DOMAIN checkpoint = Keys
    /\ \A k \in Keys : /\ DOMAIN checkpoint[k] = {"by", "msgs", "step", "pins", "done"}
                       /\ checkpoint[k].msgs \in Seq(Message) /\ checkpoint[k].step \in Nat

CallTypes ==
    /\ DOMAIN calls = Loops
    /\ \A l \in Loops : /\ Ids(l) \subseteq CallIds
                        /\ \A id \in Ids(l) : calls[l][id] \in CallRec

\* Calls belong to a loop that runs tools, a worker to a call that holds its
\* permit for as long as the worker lives.
PlaceInv ==
    /\ \A l \in Loops : at[l] # "tools" => Ids(l) = {}
    /\ \A w \in Workers :
           /\ at[w] = "idle" <=> serves[w] = NoCall
           /\ serves[w] # NoCall =>
                /\ serves[w] \in Ids(Main)
                /\ calls[Main][serves[w]].kind = "delegate"
                /\ Holds(calls[Main][serves[w]])

PermitInv == IsFiniteSet(Holding) /\ Cardinality(Holding) <= Permits

CheckpointInv ==
    LET cp == checkpoint["org:run"]
    IN  org /\ cp.by # "none" => cp.by = Main /\ IsPrefix(cp.msgs, msgs[Main])

IInv == LoopTypes /\ CallTypes /\ PlaceInv /\ PermitInv /\ CheckpointInv
----------------------------------------------------------------------------
(* Sequences and records.                                                   *)

(* A sequence is a prefix of itself. *)
LEMMA PrefixRefl ==
    ASSUME NEW S, NEW s \in Seq(S)
    PROVE  IsPrefix(s, s)
BY DEF IsPrefix

(* ... and stays a prefix of what the other one grows to. *)
LEMMA PrefixGrows ==
    ASSUME NEW S, NEW s \in Seq(S), NEW t \in Seq(S), NEW u \in Seq(S), IsPrefix(s, t)
    PROVE  IsPrefix(s, t \o u)
<1>1. Len(s) <= Len(t) /\ SubSeq(s, 1, Len(s)) = SubSeq(t, 1, Len(s))
  BY DEF IsPrefix
<1>2. t \o u \in Seq(S) /\ Len(t \o u) = Len(t) + Len(u)
  OBVIOUS
<1>3. \A i \in 1..Len(s) : (t \o u)[i] = t[i]
  BY <1>1
<1>4. SubSeq(t \o u, 1, Len(s)) = SubSeq(t, 1, Len(s))
  BY <1>1, <1>2, <1>3
<1> QED
  BY <1>1, <1>2, <1>4 DEF IsPrefix

(* Messages that the loop writes are messages. *)
LEMMA MessagesTyped ==
    /\ \A asks \in SUBSET Nat : UserText(asks) \in Message
    /\ \A text \in BOOLEAN, uses \in SUBSET CallIds : Reply(text, uses) \in Message
    /\ \A D \in SUBSET CallIds : Results([id \in D |-> SizeOf(id)]) \in Message
<1>1. NoResults \in ResultsOf(CallIds) /\ DOMAIN NoResults = {}
  <2>1. NoResults \in [{} -> Nat] /\ DOMAIN NoResults = {}
    BY DEF NoResults
  <2>2. {} \in SUBSET CallIds
    OBVIOUS
  <2> QED
    BY <2>1, <2>2 DEF ResultsOf
<1>2. ASSUME NEW D \in SUBSET CallIds PROVE [id \in D |-> SizeOf(id)] \in ResultsOf(CallIds)
  <2>1. [id \in D |-> SizeOf(id)] \in [D -> Nat]
    BY DEF SizeOf
  <2> QED
    BY <2>1 DEF ResultsOf
<1>3. ASSUME NEW asks \in SUBSET Nat PROVE UserText(asks) \in Message
  BY TextTyped DEF Message
<1>4. ASSUME NEW text \in BOOLEAN, NEW uses \in SUBSET CallIds PROVE Reply(text, uses) \in Message
  BY <1>1 DEF Reply, Message, Messages
<1>5. ASSUME NEW D \in SUBSET CallIds PROVE Results([id \in D |-> SizeOf(id)]) \in Message
  BY <1>2 DEF Results, Message, Messages
<1> QED
  BY <1>3, <1>4, <1>5

(* A worker without a call serves nothing that could be a call. *)
LEMMA NoCallIsNone == NoCall \notin CallIds
BY DEF NoCall, CallIds
----------------------------------------------------------------------------
(* What the steps of a kind have in common.                                 *)

(* Permits are not oversubscribed by a step that starts no attempt. *)
LEMMA NothingBegun ==
    ASSUME PermitInv, CallTypes, Permits \in Nat, DOMAIN calls' = Loops,
           \A l \in Loops : \A id \in Ids(l)' :
               Holds(calls'[l][id]) => id \in Ids(l) /\ Holds(calls[l][id])
    PROVE  PermitInv'
<1>1. Holding' \in SUBSET Holding
  BY DEF Holding, Ids
<1>2. IsFiniteSet(Holding') /\ Cardinality(Holding') <= Cardinality(Holding)
  BY <1>1, FS_Subset DEF PermitInv
<1>3. Cardinality(Holding') \in Nat /\ Cardinality(Holding) \in Nat
  BY <1>2, FS_CardinalityType DEF PermitInv
<1> QED
  BY <1>2, <1>3 DEF PermitInv

(* A step that moves loops on without touching calls or workers keeps places *)
(* and permits.                                                             *)
LEMMA Moves ==
    ASSUME IInv, UNCHANGED <<calls, serves>>,
           \A l \in Loops : at[l] = "tools" => at'[l] = "tools",
           \A w \in Workers : at[w] = "idle" <=> at'[w] = "idle"
    PROVE  CallTypes' /\ PlaceInv' /\ PermitInv'
<1>1. CallTypes' /\ PermitInv'
  BY DEF IInv, CallTypes, PermitInv, Holding, Ids
<1>2. PlaceInv'
  BY DEF IInv, PlaceInv, Ids
<1> QED
  BY <1>1, <1>2

(* Where the checkpoint under the key of Main is not written, it stays a past *)
(* state of Main if the session of Main only grows.                          *)
LEMMA Grows ==
    ASSUME IInv, UNCHANGED org,
           checkpoint'["org:run"].by = checkpoint["org:run"].by,
           checkpoint'["org:run"].msgs = checkpoint["org:run"].msgs,
           NEW extra \in Seq(Message), msgs'[Main] = msgs[Main] \o extra
    PROVE  CheckpointInv'
<1>1. checkpoint["org:run"].msgs \in Seq(Message) /\ msgs[Main] \in Seq(Message)
  BY DEF IInv, LoopTypes, Keys, Loops
<1>2. IsPrefix(checkpoint["org:run"].msgs, msgs[Main])
         => IsPrefix(checkpoint["org:run"].msgs, msgs[Main] \o extra)
  BY <1>1, PrefixGrows
<1> QED
  BY <1>2 DEF IInv, CheckpointInv

LEMMA Stays ==
    ASSUME IInv, UNCHANGED <<org, checkpoint>>, msgs'[Main] = msgs[Main]
    PROVE  CheckpointInv'
BY DEF IInv, CheckpointInv

(* The mark "completed" leaves the rest of the checkpoints alone. *)
LEMMA Marked ==
    ASSUME IInv, NEW l \in Loops, checkpoint' \in {checkpoint, MarkCompleted(l, checkpoint)}
    PROVE  /\ DOMAIN checkpoint' = Keys
           /\ \A k \in Keys : /\ DOMAIN checkpoint'[k] = {"by", "msgs", "step", "pins", "done"}
                              /\ checkpoint'[k].by = checkpoint[k].by
                              /\ checkpoint'[k].msgs = checkpoint[k].msgs
                              /\ checkpoint'[k].step = checkpoint[k].step
<1>1. DOMAIN checkpoint = Keys /\ \A k \in Keys : DOMAIN checkpoint[k] = {"by", "msgs", "step", "pins", "done"}
  BY DEF IInv, LoopTypes
<1> QED
  BY <1>1 DEF MarkCompleted

(* A loop that ends. *)
LEMMA Ends ==
    ASSUME IInv, UNCHANGED <<shape, org, turn, calls, serves>>, step' \in [Loops -> Nat],
           NEW l \in Loops, at[l] # "tools", at[l] # "idle",
           NEW extra \in Seq(Message), NEW completes, End(l, extra, completes)
    PROVE  IInv'
<1>1. at \in [Loops -> Places] /\ msgs \in [Loops -> Seq(Message)] /\ Main \in Loops
  BY DEF IInv, LoopTypes, Loops
<1>2. at' \in [Loops -> Places] /\ msgs' \in [Loops -> Seq(Message)]
  BY <1>1 DEF End, Places
<1>3. checkpoint' \in {checkpoint, MarkCompleted(l, checkpoint)}
  BY DEF End
<1>4. LoopTypes'
  BY <1>2, <1>3, Marked DEF IInv, LoopTypes
<1>5. CallTypes' /\ PlaceInv' /\ PermitInv'
  <2>1. \A k \in Loops : at[k] = "tools" => at'[k] = "tools"
    BY <1>1 DEF End
  <2>2. \A w \in Workers : at[w] = "idle" <=> at'[w] = "idle"
    BY <1>1 DEF End, Loops
  <2> QED
    BY <2>1, <2>2, Moves
<1>6. CheckpointInv'
  <2>1. PICK more \in Seq(Message) : msgs'[Main] = msgs[Main] \o more
    <3>1. CASE l = Main
      BY <1>1, <3>1 DEF End
    <3>2. CASE l # Main
      <4>1. msgs'[Main] = msgs[Main] /\ msgs[Main] \in Seq(Message)
        BY <1>1, <3>2 DEF End
      <4>2. <<>> \in Seq(Message) /\ msgs[Main] = msgs[Main] \o <<>>
        BY <4>1
      <4> QED
        BY <4>1, <4>2
    <3> QED
      BY <3>1, <3>2
  <2>2. /\ checkpoint'["org:run"].by = checkpoint["org:run"].by
        /\ checkpoint'["org:run"].msgs = checkpoint["org:run"].msgs
    BY <1>3, Marked DEF Keys
  <2> QED
    BY <2>1, <2>2, Grows
<1> QED
  BY <1>4, <1>5, <1>6 DEF IInv

(* A loop that says something, or nothing, and goes on without its tools. *)
LEMMA Continues ==
    ASSUME IInv, UNCHANGED <<shape, org, turn, calls, serves, checkpoint>>, step' \in [Loops -> Nat],
           NEW l \in Loops, at[l] # "tools", at[l] # "idle",
           NEW place \in Places, place # "idle", at' = [at EXCEPT ![l] = place],
           NEW extra \in Seq(Message), msgs' = [msgs EXCEPT ![l] = @ \o extra]
    PROVE  IInv'
<1>1. at \in [Loops -> Places] /\ msgs \in [Loops -> Seq(Message)] /\ Main \in Loops
  BY DEF IInv, LoopTypes, Loops
<1>2. at' \in [Loops -> Places] /\ msgs' \in [Loops -> Seq(Message)]
  BY <1>1
<1>3. LoopTypes'
  BY <1>2 DEF IInv, LoopTypes
<1>4. CallTypes' /\ PlaceInv' /\ PermitInv'
  <2>1. \A k \in Loops : at[k] = "tools" => at'[k] = "tools"
    BY <1>1
  <2>2. \A w \in Workers : at[w] = "idle" <=> at'[w] = "idle"
    BY <1>1 DEF Loops
  <2> QED
    BY <2>1, <2>2, Moves
<1>5. CheckpointInv'
  <2>1. CASE l = Main
    BY <1>1, <2>1, Grows
  <2>2. CASE l # Main
    BY <1>1, <2>2, Stays
  <2> QED
    BY <2>1, <2>2
<1> QED
  BY <1>3, <1>4, <1>5 DEF IInv
----------------------------------------------------------------------------
(* The turn.                                                                *)

LEMMA InitIInv == Init => IInv
<1> SUFFICES ASSUME Init PROVE IInv
  OBVIOUS
<1> USE LoopAssumption
<1>1. LoopTypes
  <2>1. shape \in Shapes /\ org \in BOOLEAN /\ turn \in Nat /\ DOMAIN serves = Workers
    BY DEF Init
  <2>2. at \in [Loops -> Places] /\ msgs \in [Loops -> Seq(Message)] /\ step \in [Loops -> Nat]
    BY DEF Init, Places
  <2>3. DOMAIN checkpoint = Keys /\ \A k \in Keys : checkpoint[k] = NoCheckpoint
    BY DEF Init, Keys
  <2>4. /\ DOMAIN NoCheckpoint = {"by", "msgs", "step", "pins", "done"}
        /\ NoCheckpoint.msgs \in Seq(Message) /\ NoCheckpoint.step \in Nat
    BY DEF NoCheckpoint
  <2> QED
    BY <2>1, <2>2, <2>3, <2>4 DEF LoopTypes
<1>2. DOMAIN calls = Loops /\ \A l \in Loops : Ids(l) = {}
  BY DEF Init, Ids, NoCalls
<1>3. CallTypes
  BY <1>2 DEF CallTypes
<1>4. PlaceInv
  BY <1>2 DEF Init, PlaceInv, Loops
<1>5. PermitInv
  <2>1. Holding = {}
    BY <1>2 DEF Holding, Ids
  <2> QED
    BY <2>1, FS_EmptySet DEF PermitInv
<1>6. CheckpointInv
  BY DEF Init, CheckpointInv, NoCheckpoint
<1> QED
  BY <1>1, <1>3, <1>4, <1>5, <1>6 DEF IInv

LEMMA StartTurnStep ==
    ASSUME IInv, StartTurn
    PROVE  IInv'
<1>1. at \in [Loops -> Places] /\ msgs \in [Loops -> Seq(Message)] /\ step \in [Loops -> Nat]
      /\ turn \in Nat /\ Main \in Loops
  BY DEF IInv, LoopTypes, Loops
<1>2. turn' \in Nat /\ UserText({turn'}) \in Message
  BY <1>1, MessagesTyped DEF StartTurn
<1>3. LoopTypes'
  <2>1. at' \in [Loops -> Places] /\ step' \in [Loops -> Nat]
    BY <1>1 DEF StartTurn, Places
  <2>2. msgs' \in [Loops -> Seq(Message)]
    BY <1>1, <1>2 DEF StartTurn
  <2>3. DOMAIN checkpoint' = Keys /\ \A k \in Keys : checkpoint'[k] = NoCheckpoint
    BY DEF StartTurn, IInv, LoopTypes
  <2>4. /\ DOMAIN NoCheckpoint = {"by", "msgs", "step", "pins", "done"}
        /\ NoCheckpoint.msgs \in Seq(Message) /\ NoCheckpoint.step \in Nat
    BY DEF NoCheckpoint
  <2> QED
    BY <1>2, <2>1, <2>2, <2>3, <2>4 DEF StartTurn, IInv, LoopTypes
<1>4. CallTypes' /\ PlaceInv' /\ PermitInv'
  <2>1. \A k \in Loops : at[k] = "tools" => at'[k] = "tools"
    BY <1>1 DEF StartTurn
  <2>2. \A w \in Workers : at[w] = "idle" <=> at'[w] = "idle"
    BY <1>1, LoopAssumption DEF StartTurn, Loops
  <2> QED
    BY <2>1, <2>2, Moves DEF StartTurn
<1>5. CheckpointInv'
  BY DEF StartTurn, IInv, LoopTypes, CheckpointInv, NoCheckpoint, Keys
<1> QED
  BY <1>3, <1>4, <1>5 DEF IInv

LEMMA ResumeTurnStep ==
    ASSUME IInv, ResumeTurn
    PROVE  IInv'
<1> DEFINE cp == checkpoint[Key(Main)]
<1>1. at \in [Loops -> Places] /\ msgs \in [Loops -> Seq(Message)] /\ step \in [Loops -> Nat]
      /\ Main \in Loops
  BY DEF IInv, LoopTypes, Loops
<1>2. cp.msgs \in Seq(Message) /\ cp.step \in Nat
  BY DEF IInv, LoopTypes, Key, Keys
<1>3. LoopTypes'
  <2>1. at' \in [Loops -> Places] /\ step' \in [Loops -> Nat] /\ msgs' \in [Loops -> Seq(Message)]
    BY <1>1, <1>2 DEF ResumeTurn, Places
  <2> QED
    BY <2>1 DEF ResumeTurn, IInv, LoopTypes
<1>4. CallTypes' /\ PlaceInv' /\ PermitInv'
  <2>1. \A k \in Loops : at[k] = "tools" => at'[k] = "tools"
    BY <1>1 DEF ResumeTurn
  <2>2. \A w \in Workers : at[w] = "idle" <=> at'[w] = "idle"
    BY <1>1, LoopAssumption DEF ResumeTurn, Loops
  <2> QED
    BY <2>1, <2>2, Moves DEF ResumeTurn
<1>5. CheckpointInv'
  <2>1. CASE org
    <3>1. msgs'[Main] = checkpoint["org:run"].msgs
      BY <1>1, <2>1 DEF ResumeTurn, Key
    <3>2. IsPrefix(checkpoint["org:run"].msgs, msgs'[Main])
      BY <3>1, <1>2, <2>1, PrefixRefl DEF Key
    <3> QED
      BY <3>2 DEF ResumeTurn, IInv, CheckpointInv
  <2>2. CASE ~org
    BY <2>2 DEF ResumeTurn, CheckpointInv
  <2> QED
    BY <2>1, <2>2
<1> QED
  BY <1>3, <1>4, <1>5 DEF IInv

LEMMA SpeaksStep ==
    ASSUME IInv, NEW l \in Loops, WallExhausted(l) \/ RoundsExhausted(l) \/ Ask(l)
    PROVE  IInv'
<1>1. msgs \in [Loops -> Seq(Message)] /\ step \in [Loops -> Nat]
  BY DEF IInv, LoopTypes
<1>2. <<UserText({})>> \in Seq(Message) /\ <<>> \in Seq(Message)
  BY MessagesTyped
<1>3. step' \in [Loops -> Nat]
  BY <1>1 DEF WallExhausted, RoundsExhausted, Ask
<1>4. CASE WallExhausted(l) \/ RoundsExhausted(l)
  <2>1. msgs' = [msgs EXCEPT ![l] = @ \o <<UserText({})>>]
    <3>1. Append(msgs[l], UserText({})) = msgs[l] \o <<UserText({})>>
      BY <1>1, <1>2
    <3> QED
      BY <1>4, <3>1 DEF WallExhausted, RoundsExhausted
  <2>2. /\ at' = [at EXCEPT ![l] = "synth"] /\ at[l] = "top"
        /\ UNCHANGED <<shape, org, turn, calls, serves, checkpoint>>
    BY <1>4 DEF WallExhausted, RoundsExhausted, shared
  <2>3. "synth" \in Places /\ "synth" # "idle" /\ at[l] # "tools" /\ at[l] # "idle"
    BY <2>2 DEF Places
  <2> QED
    BY <1>2, <1>3, <2>1, <2>2, <2>3, Continues
<1>5. CASE Ask(l)
  <2>1. msgs' = [msgs EXCEPT ![l] = @ \o <<>>]
    <3>1. msgs[l] \o <<>> = msgs[l]
      BY <1>1
    <3> QED
      BY <1>1, <1>5, <3>1 DEF Ask
  <2>2. /\ at' = [at EXCEPT ![l] = "llm"] /\ at[l] = "top"
        /\ UNCHANGED <<shape, org, turn, calls, serves, checkpoint>>
    BY <1>5 DEF Ask, shared
  <2>3. "llm" \in Places /\ "llm" # "idle" /\ at[l] # "tools" /\ at[l] # "idle"
    BY <2>2 DEF Places
  <2> QED
    BY <1>2, <1>3, <2>1, <2>2, <2>3, Continues
<1> QED
  BY <1>4, <1>5

LEMMA EndsStep ==
    ASSUME IInv, NEW l \in Loops, Synthesized(l) \/ SeesCancel(l) \/ GivesUp(l) \/ Answers(l)
    PROVE  IInv'
<1>1. step \in [Loops -> Nat]
  BY DEF IInv, LoopTypes
<1>2. <<Reply(TRUE, {})>> \in Seq(Message) /\ <<>> \in Seq(Message)
  <2>1. TRUE \in BOOLEAN /\ {} \in SUBSET CallIds
    OBVIOUS
  <2>2. Reply(TRUE, {}) \in Message
    BY <2>1, MessagesTyped
  <2>3. <<>> \in Seq(Message) /\ \A m \in Message : <<m>> \in Seq(Message)
    OBVIOUS
  <2> QED
    BY Zenon, <2>2, <2>3
<1>3. /\ step' \in [Loops -> Nat]
      /\ UNCHANGED <<shape, org, turn, calls, serves>>
      /\ at[l] # "tools" /\ at[l] # "idle"
  <2>1. CASE Synthesized(l)
    BY <1>1, <2>1 DEF Synthesized, shared
  <2>2. CASE SeesCancel(l)
    BY <1>1, <2>2 DEF SeesCancel, shared
  <2>3. CASE GivesUp(l)
    BY <1>1, <2>3 DEF GivesUp, shared
  <2>4. CASE Answers(l)
    BY <1>1, <2>4 DEF Answers, shared
  <2> QED
    BY <2>1, <2>2, <2>3, <2>4
<1>4. CASE Synthesized(l)
  BY <1>2, <1>3, <1>4, Ends DEF Synthesized
<1>5. CASE SeesCancel(l)
  BY <1>2, <1>3, <1>5, Ends DEF SeesCancel
<1>6. CASE GivesUp(l)
  BY <1>2, <1>3, <1>6, Ends DEF GivesUp
<1>7. CASE Answers(l)
  BY <1>2, <1>3, <1>7, Ends DEF Answers
<1> QED
  BY <1>4, <1>5, <1>6, <1>7

LEMMA LeaveStep ==
    ASSUME IInv, Leave
    PROVE  IInv'
BY DEF Leave, IInv, LoopTypes, CallTypes, PlaceInv, PermitInv, Holding, CheckpointInv, Ids

LEMMA NextWorkerStep ==
    ASSUME IInv, NEW w \in Workers, NextWorker(w)
    PROVE  IInv'
<1>1. at \in [Loops -> Places] /\ w \in Loops
  BY DEF IInv, LoopTypes, Loops
<1>2. LoopTypes'
  <2>1. at' \in [Loops -> Places]
    BY <1>1 DEF NextWorker, Places
  <2> QED
    BY <2>1 DEF NextWorker, shared, IInv, LoopTypes
<1>3. CallTypes' /\ PlaceInv' /\ PermitInv'
  <2>1. \A k \in Loops : at[k] = "tools" => at'[k] = "tools"
    BY <1>1 DEF NextWorker
  <2>2. \A v \in Workers : at[v] = "idle" <=> at'[v] = "idle"
    BY <1>1 DEF NextWorker, Loops
  <2> QED
    BY <2>1, <2>2, Moves DEF NextWorker
<1>4. CheckpointInv'
  BY Stays DEF NextWorker, shared
<1> QED
  BY <1>2, <1>3, <1>4 DEF IInv
----------------------------------------------------------------------------
(* The calls of a round.                                                    *)

(* What an answer with n tool calls makes of the calls of the loop. *)
LEMMA NewCalls ==
    ASSUME IInv, NEW l \in Loops, NEW n \in 1..CallsOf(l), NEW kinds \in [1..n -> ToolsOf(l)],
           NEW ids, ids = {<<turn, step[l], i>> : i \in 1..n}
    PROVE  /\ ids \subseteq CallIds
           /\ \A id \in ids : NewCall(kinds[id[3]]) \in CallRec /\ ~Holds(NewCall(kinds[id[3]]))
<1>1. turn \in Nat /\ step[l] \in Nat /\ shape \in Shapes
  BY DEF IInv, LoopTypes
<1>2. CallsOf(l) \in Nat
  <2>1. shape.calls \in Nat
    BY <1>1, LoopAssumption
  <2> QED
    BY <2>1 DEF CallsOf
<1>3. ToolsOf(l) \subseteq {"plain", "malformed", "delegate"}
  <2>1. shape.kinds \subseteq {"plain", "malformed", "delegate"}
    BY <1>1, LoopAssumption
  <2> QED
    BY <2>1 DEF ToolsOf
<1>4. ids \subseteq CallIds
  <2>1. \A i \in 1..n : i \in Nat
    BY <1>2
  <2> QED
    BY <1>1, <2>1 DEF CallIds
<1>5. ASSUME NEW id \in ids PROVE NewCall(kinds[id[3]]) \in CallRec /\ ~Holds(NewCall(kinds[id[3]]))
  <2>1. id[3] \in 1..n
    BY <1>5
  <2>2. kinds[id[3]] \in {"plain", "malformed", "delegate"}
    BY <2>1, <1>3
  <2> QED
    BY <2>2 DEF NewCall, CallRec, Holds
<1> QED
  BY <1>4, <1>5

LEMMA CallsToolsStep ==
    ASSUME IInv, NEW l \in Loops, NEW n \in 1..CallsOf(l), CallsTools(l, n)
    PROVE  IInv'
<1>1. /\ at \in [Loops -> Places] /\ msgs \in [Loops -> Seq(Message)] /\ Main \in Loops
      /\ DOMAIN calls = Loops
  BY DEF IInv, LoopTypes, CallTypes, Loops
<1>2. PICK kinds \in [1..n -> ToolsOf(l)], narrated \in {FALSE, l = Main} :
          LET ids == {<<turn, step[l], i>> : i \in 1..n}
          IN  /\ calls' = [calls EXCEPT ![l] = [id \in ids |-> NewCall(kinds[id[3]])]]
              /\ msgs' = [msgs EXCEPT ![l] = Append(@, Reply(narrated, ids))]
  BY DEF CallsTools
<1> DEFINE ids == {<<turn, step[l], i>> : i \in 1..n}
<1>3. /\ ids \subseteq CallIds
      /\ \A id \in ids : NewCall(kinds[id[3]]) \in CallRec /\ ~Holds(NewCall(kinds[id[3]]))
  BY NewCalls
<1>4. /\ calls' = [calls EXCEPT ![l] = [id \in ids |-> NewCall(kinds[id[3]])]]
      /\ msgs' = [msgs EXCEPT ![l] = Append(@, Reply(narrated, ids))]
      /\ at' = [at EXCEPT ![l] = "tools"] /\ at[l] = "llm"
      /\ UNCHANGED <<shape, org, turn, step, serves, checkpoint>>
  BY <1>2 DEF CallsTools, shared
<1> HIDE DEF ids
<1>5. Reply(narrated, ids) \in Message
  <2>1. narrated \in BOOLEAN
    BY <1>2
  <2> QED
    BY <2>1, <1>3, MessagesTyped
<1>6. /\ DOMAIN calls' = Loops
      /\ Ids(l)' = ids /\ \A id \in ids : calls'[l][id] = NewCall(kinds[id[3]])
      /\ \A k \in Loops : k # l => calls'[k] = calls[k]
  BY <1>1, <1>4 DEF Ids
<1>7. LoopTypes'
  <2>1. at' \in [Loops -> Places]
    BY <1>1, <1>4 DEF Places
  <2>2. msgs' \in [Loops -> Seq(Message)]
    BY <1>1, <1>4, <1>5
  <2> QED
    BY <1>4, <2>1, <2>2 DEF IInv, LoopTypes
<1>8. CallTypes'
  <2> SUFFICES ASSUME NEW k \in Loops
               PROVE  Ids(k)' \subseteq CallIds /\ \A id \in Ids(k)' : calls'[k][id] \in CallRec
    BY <1>6 DEF CallTypes, Ids
  <2>1. CASE k = l
    BY <1>3, <1>6, <2>1
  <2>2. CASE k # l
    BY <1>6, <2>2 DEF IInv, CallTypes, Ids
  <2> QED
    BY <2>1, <2>2
<1>9. PlaceInv'
  <2>1. ASSUME NEW k \in Loops, at'[k] # "tools" PROVE Ids(k)' = {}
    BY <1>1, <1>4, <1>6, <2>1 DEF IInv, PlaceInv, Ids
  <2>2. ASSUME NEW w \in Workers
        PROVE  /\ at'[w] = "idle" <=> serves'[w] = NoCall
               /\ serves'[w] # NoCall => /\ serves'[w] \in Ids(Main)'
                                         /\ calls'[Main][serves'[w]].kind = "delegate"
                                         /\ Holds(calls'[Main][serves'[w]])
    <3>1. at'[w] = "idle" <=> at[w] = "idle"
      BY <1>1, <1>4 DEF Loops
    <3>2. l = Main => serves[w] = NoCall
      BY <1>4 DEF IInv, PlaceInv
    <3>3. l # Main => calls'[Main] = calls[Main]
      BY <1>1, <1>6
    <3> QED
      BY <1>4, <3>1, <3>2, <3>3 DEF IInv, PlaceInv, Ids
  <2> QED
    BY <2>1, <2>2 DEF PlaceInv
<1>10. PermitInv'
  <2>1. \A k \in Loops : \A id \in Ids(k)' :
            Holds(calls'[k][id]) => id \in Ids(k) /\ Holds(calls[k][id])
    BY <1>3, <1>6 DEF Ids
  <2> QED
    BY <1>6, <2>1, NothingBegun, LoopAssumption DEF IInv
<1>11. CheckpointInv'
  <2>1. CASE l = Main
    <3>1. msgs'[Main] = msgs[Main] \o <<Reply(narrated, ids)>>
      BY <1>1, <1>4, <1>5, <2>1
    <3>2. <<Reply(narrated, ids)>> \in Seq(Message)
      <4>1. \A m \in Message : <<m>> \in Seq(Message)
        OBVIOUS
      <4> QED
        BY Zenon, <1>5, <4>1
    <3> QED
      BY <1>4, <3>1, <3>2, Grows
  <2>2. CASE l # Main
    BY <1>1, <1>4, <2>2, Stays
  <2> QED
    BY <2>1, <2>2
<1> QED
  BY <1>7, <1>8, <1>9, <1>10, <1>11 DEF IInv

(* A call moves to another state: all but the count of the permits stays, if *)
(* the call of a live worker keeps its permit.                               *)
LEMMA CallMoves ==
    ASSUME IInv, NEW l \in Loops, NEW id \in Ids(l), NEW c \in CallRec, SetCall(l, id, c),
           UNCHANGED <<shape, org, turn, at, msgs, step, serves, checkpoint>>,
           c.kind = calls[l][id].kind,
           \A w \in Workers : l = Main /\ serves[w] = id => Holds(c)
    PROVE  /\ LoopTypes' /\ CallTypes' /\ PlaceInv' /\ CheckpointInv'
           /\ DOMAIN calls' = Loops
           /\ \A k \in Loops : Ids(k)' = Ids(k)
           /\ calls'[l][id] = c
           /\ \A k \in Loops : \A j \in Ids(k) : <<k, j>> # <<l, id>> => calls'[k][j] = calls[k][j]
<1>1. LoopTypes' /\ CheckpointInv'
  BY DEF IInv, LoopTypes, CheckpointInv
<1>2. DOMAIN calls = Loops /\ Main \in Loops
  BY DEF IInv, CallTypes, Loops
<1>3. /\ DOMAIN calls' = Loops
      /\ \A k \in Loops : Ids(k)' = Ids(k)
      /\ calls'[l][id] = c
      /\ \A k \in Loops : \A j \in Ids(k) : <<k, j>> # <<l, id>> => calls'[k][j] = calls[k][j]
  BY <1>2 DEF SetCall, Ids
<1>4. CallTypes'
  <2>1. ASSUME NEW k \in Loops, NEW j \in Ids(k) PROVE calls'[k][j] \in CallRec
    <3>1. CASE k = l /\ j = id
      BY <1>3, <3>1
    <3>2. CASE ~(k = l /\ j = id)
      BY <1>3, <2>1, <3>2 DEF IInv, CallTypes
    <3> QED
      BY <3>1, <3>2
  <2> QED
    BY <1>3, <2>1 DEF IInv, CallTypes, Ids
<1>5. PlaceInv'
  <2>1. ASSUME NEW w \in Workers, serves[w] # NoCall
        PROVE  /\ serves[w] \in Ids(Main)
               /\ calls'[Main][serves[w]].kind = "delegate"
               /\ Holds(calls'[Main][serves[w]])
    <3>1. /\ serves[w] \in Ids(Main) /\ calls[Main][serves[w]].kind = "delegate"
          /\ Holds(calls[Main][serves[w]])
      BY <2>1 DEF IInv, PlaceInv
    <3>2. CASE l = Main /\ serves[w] = id
      BY <1>3, <3>1, <3>2
    <3>3. CASE ~(l = Main /\ serves[w] = id)
      BY <1>2, <1>3, <3>1, <3>3
    <3> QED
      BY <3>1, <3>2, <3>3
  <2> QED
    BY <1>2, <1>3, <2>1 DEF IInv, PlaceInv, Ids
<1> QED
  BY <1>1, <1>3, <1>4, <1>5

(* An attempt that starts holds one permit more: there was one left. *)
LEMMA BeginStep ==
    ASSUME IInv, NEW l \in Loops, NEW id \in Ids(l), Begin(l, id)
    PROVE  IInv'
<1> DEFINE c == [calls[l][id] EXCEPT !.st = "run"]
<1>1. calls[l][id] \in CallRec
  BY DEF IInv, CallTypes
<1>2. c \in CallRec /\ c.kind = calls[l][id].kind /\ Holds(c)
  BY <1>1 DEF CallRec, Holds
<1>3. SetCall(l, id, c) /\ UNCHANGED <<shape, org, turn, at, msgs, step, serves, checkpoint>>
  BY DEF Begin, shared
<1> HIDE DEF c
<1>4. /\ LoopTypes' /\ CallTypes' /\ PlaceInv' /\ CheckpointInv'
      /\ DOMAIN calls' = Loops
      /\ \A k \in Loops : Ids(k)' = Ids(k)
      /\ \A k \in Loops : \A j \in Ids(k) : <<k, j>> # <<l, id>> => calls'[k][j] = calls[k][j]
  BY <1>2, <1>3, CallMoves
<1>5. PermitInv'
  <2>1. Holding' \in SUBSET (Holding \cup {<<l, id>>})
    <3> SUFFICES ASSUME NEW p \in Holding', p # <<l, id>> PROVE p \in Holding
      OBVIOUS
    <3>1. p \in Loops \X UNION {Ids(k) : k \in Loops}
      BY <1>4 DEF Holding, Ids
    <3>2. p[1] \in Loops /\ p[2] \in Ids(p[1]) /\ Holds(calls'[p[1]][p[2]])
      BY <1>4, <3>1 DEF Holding, Ids
    <3>3. calls'[p[1]][p[2]] = calls[p[1]][p[2]]
      BY <1>4, <3>1, <3>2
    <3> QED
      BY <3>1, <3>2, <3>3 DEF Holding, Ids
  <2>2. /\ IsFiniteSet(Holding) /\ Cardinality(Holding) \in Nat
        /\ Cardinality(Holding) < Permits /\ Permits \in Nat
    BY FS_CardinalityType, LoopAssumption DEF IInv, PermitInv, Begin, Held
  <2>3. /\ IsFiniteSet(Holding \cup {<<l, id>>})
        /\ Cardinality(Holding \cup {<<l, id>>}) <= Cardinality(Holding) + 1
        /\ Cardinality(Holding \cup {<<l, id>>}) \in Nat
    <3>1. /\ IsFiniteSet(Holding \cup {<<l, id>>})
          /\ Cardinality(Holding \cup {<<l, id>>}) =
               IF <<l, id>> \in Holding THEN Cardinality(Holding) ELSE Cardinality(Holding) + 1
      BY Zenon, <2>2, FS_AddElement
    <3> QED
      BY <2>2, <3>1
  <2>4. IsFiniteSet(Holding') /\ Cardinality(Holding') <= Cardinality(Holding \cup {<<l, id>>})
        /\ Cardinality(Holding') \in Nat
    BY <2>1, <2>3, FS_Subset, FS_CardinalityType
  <2> QED
    BY <2>2, <2>3, <2>4 DEF PermitInv
<1> QED
  BY <1>4, <1>5 DEF IInv

(* A call that failed is the same call, without the permit. *)
LEMMA RetriedTyped ==
    ASSUME NEW c \in CallRec
    PROVE  Retried(c) \in CallRec /\ ~Holds(Retried(c)) /\ Retried(c).kind = c.kind
<1> DEFINE next == IF c.tries < shape.retries THEN "rest" ELSE "error"
<1>1. next \in {"rest", "error"}
  OBVIOUS
<1>2. Retried(c) = [c EXCEPT !.st = next, !.tries = c.tries + 1]
  BY DEF Retried
<1> HIDE DEF next
<1>3. c.tries + 1 \in Nat
  BY DEF CallRec
<1> DEFINE d == [c EXCEPT !.st = next]
<1>4. d \in CallRec /\ d.st = next /\ d.kind = c.kind
  BY <1>1 DEF CallRec
<1>5. Retried(c) = [d EXCEPT !.tries = c.tries + 1]
  BY <1>2
<1> HIDE DEF d
<1>6. /\ [d EXCEPT !.tries = c.tries + 1] \in CallRec
      /\ [d EXCEPT !.tries = c.tries + 1].st = d.st
      /\ [d EXCEPT !.tries = c.tries + 1].kind = d.kind
  BY <1>3, <1>4 DEF CallRec
<1> QED
  BY <1>1, <1>4, <1>5, <1>6 DEF Holds

(* An attempt that ends, or the pause after it, takes no permit. *)
LEMMA CallStep ==
    ASSUME IInv, NEW l \in Loops, NEW id \in Ids(l),
           AttemptSucceeds(l, id) \/ AttemptFails(l, id) \/ Rested(l, id)
    PROVE  IInv'
<1>1. calls[l][id] \in CallRec
  BY DEF IInv, CallTypes
<1>2. PICK c \in CallRec : /\ SetCall(l, id, c) /\ ~Holds(c)
                           /\ c.kind = calls[l][id].kind
  <2>1. CASE AttemptSucceeds(l, id)
    <3>1. [calls[l][id] EXCEPT !.st = "ok"] \in CallRec
      BY <1>1 DEF CallRec
    <3> QED
      BY <1>1, <2>1, <3>1 DEF AttemptSucceeds, Holds, CallRec
  <2>2. CASE AttemptFails(l, id)
    <3>1. Retried(calls[l][id]) \in CallRec /\ ~Holds(Retried(calls[l][id]))
          /\ Retried(calls[l][id]).kind = calls[l][id].kind
      BY <1>1, RetriedTyped
    <3> QED
      BY <2>2, <3>1 DEF AttemptFails
  <2>3. CASE Rested(l, id)
    <3>1. [calls[l][id] EXCEPT !.st = "wait"] \in CallRec
      BY <1>1 DEF CallRec
    <3> QED
      BY <1>1, <2>3, <3>1 DEF Rested, Holds, CallRec
  <2> QED
    BY <2>1, <2>2, <2>3
<1>3. UNCHANGED <<shape, org, turn, at, msgs, step, serves, checkpoint>>
  BY DEF AttemptSucceeds, AttemptFails, Rested, shared
<1>4. ASSUME NEW w \in Workers, l = Main, serves[w] = id PROVE FALSE
  <2>1. serves[w] # NoCall
    BY <1>4, NoCallIsNone DEF IInv, CallTypes
  <2>2. calls[Main][id].kind = "delegate" /\ calls[Main][id].st = "run"
    BY <1>4, <2>1 DEF IInv, PlaceInv, Holds
  <2> QED
    BY <1>4, <2>2 DEF AttemptSucceeds, AttemptFails, Rested
<1>5. /\ LoopTypes' /\ CallTypes' /\ PlaceInv' /\ CheckpointInv'
      /\ DOMAIN calls' = Loops
      /\ \A k \in Loops : Ids(k)' = Ids(k)
      /\ calls'[l][id] = c
      /\ \A k \in Loops : \A j \in Ids(k) : <<k, j>> # <<l, id>> => calls'[k][j] = calls[k][j]
  BY <1>2, <1>3, <1>4, CallMoves
<1>6. PermitInv'
  <2>1. ASSUME NEW k \in Loops, NEW j \in Ids(k)', Holds(calls'[k][j])
        PROVE  j \in Ids(k) /\ Holds(calls[k][j])
    <3>1. <<k, j>> # <<l, id>>
      BY <1>2, <1>5, <2>1
    <3> QED
      BY <1>5, <2>1, <3>1
  <2> QED
    BY <1>5, <2>1, NothingBegun, LoopAssumption DEF IInv
<1> QED
  BY <1>5, <1>6 DEF IInv

(* A delegate launches workers that served nothing, inside its permit. *)
LEMMA DelegatesStep ==
    ASSUME IInv, NEW id \in Ids(Main), Delegates(id)
    PROVE  IInv'
<1> DEFINE free == {w \in Workers : serves[w] = NoCall}
<1>1. PICK tasks \in Alone(free) \cup InParallel(free) : Launch(id, tasks)
  BY DEF Delegates
<1>2. tasks.now \subseteq free /\ tasks.later \subseteq free
  BY DEF Alone, InParallel
<1> DEFINE ws == tasks.now \cup tasks.later
<1>3. /\ ws \subseteq free /\ ws \subseteq Workers /\ Main \notin ws /\ Main \in Loops
      /\ id # NoCall
  BY <1>2, LoopAssumption, NoCallIsNone DEF IInv, CallTypes, Loops
<1>4. /\ serves' = [w \in Workers |-> IF w \in ws THEN id ELSE serves[w]]
      /\ at' = [l \in Loops |-> IF l \in tasks.now THEN "top" ELSE IF l \in tasks.later THEN "queued" ELSE at[l]]
      /\ msgs' = [l \in Loops |-> IF l \in ws THEN <<UserText({})>> ELSE msgs[l]]
      /\ step' = [l \in Loops |-> IF l \in ws THEN 0 ELSE step[l]]
  BY <1>1 DEF Launch
<1>5. UNCHANGED <<shape, org, turn, calls, checkpoint>>
  BY DEF Delegates, shared
<1>6. LoopTypes'
  <2>1. <<UserText({})>> \in Seq(Message)
    BY MessagesTyped
  <2>2. msgs' \in [Loops -> Seq(Message)]
    BY <1>4, <2>1 DEF IInv, LoopTypes
  <2>3. at' \in [Loops -> Places] /\ step' \in [Loops -> Nat] /\ DOMAIN serves' = Workers
    BY <1>4 DEF IInv, LoopTypes, Places
  <2> QED
    BY <1>5, <2>2, <2>3 DEF IInv, LoopTypes
<1>7. CallTypes' /\ PermitInv'
  BY <1>5 DEF IInv, CallTypes, PermitInv, Holding, Ids
<1>8. PlaceInv'
  <2>1. ASSUME NEW l \in Loops, at'[l] # "tools" PROVE Ids(l)' = {}
    <3>1. at[l] # "tools"
      <4>1. CASE l \in ws
        BY <1>3, <4>1 DEF IInv, PlaceInv
      <4>2. CASE l \notin ws
        BY <1>4, <2>1, <4>2
      <4> QED
        BY <4>1, <4>2
    <3> QED
      BY <1>5, <3>1 DEF IInv, PlaceInv, Ids
  <2>2. ASSUME NEW w \in Workers
        PROVE  /\ at'[w] = "idle" <=> serves'[w] = NoCall
               /\ serves'[w] # NoCall => /\ serves'[w] \in Ids(Main)'
                                         /\ calls'[Main][serves'[w]].kind = "delegate"
                                         /\ Holds(calls'[Main][serves'[w]])
    <3>1. CASE w \in ws
      <4>1. at'[w] # "idle" /\ serves'[w] = id
        BY <1>4, <3>1 DEF Loops
      <4> QED
        BY <1>3, <1>5, <4>1 DEF Delegates, Holds, Ids
    <3>2. CASE w \notin ws
      <4>1. at'[w] = at[w] /\ serves'[w] = serves[w]
        BY <1>4, <3>2 DEF Loops
      <4> QED
        BY <1>5, <4>1 DEF IInv, PlaceInv, Ids
    <3> QED
      BY <3>1, <3>2
  <2> QED
    BY <2>1, <2>2 DEF PlaceInv
<1>9. CheckpointInv'
  <2>1. msgs'[Main] = msgs[Main]
    BY <1>3, <1>4
  <2> QED
    BY <1>5, <2>1, Stays
<1> QED
  BY <1>6, <1>7, <1>8, <1>9 DEF IInv
----------------------------------------------------------------------------
(* Workers are forgotten and rounds are closed.                             *)

LEMMA DropTypes ==
    ASSUME IInv, NEW ws \in SUBSET Workers, NEW f \in [Loops -> Places], Drop(ws, f)
    PROVE  at' \in [Loops -> Places] /\ step' \in [Loops -> Nat] /\ DOMAIN serves' = Workers
BY DEF IInv, LoopTypes, Drop, Places

LEMMA WorkersReturnStep ==
    ASSUME IInv, NEW id \in Ids(Main), NEW good \in BOOLEAN, WorkersReturn(id, good)
    PROVE  IInv'
<1> DEFINE c == IF good THEN [calls[Main][id] EXCEPT !.st = "ok"] ELSE Retried(calls[Main][id])
           ws == Running(id)
<1>1. /\ Main \in Loops /\ Main \notin ws /\ ws \subseteq Workers /\ DOMAIN calls = Loops
      /\ calls[Main][id] \in CallRec /\ id # NoCall
      /\ at \in [Loops -> Places] /\ msgs \in [Loops -> Seq(Message)]
  BY LoopAssumption, NoCallIsNone DEF IInv, LoopTypes, CallTypes, Loops, Running
<1>2. c \in CallRec /\ ~Holds(c)
  <2>1. [calls[Main][id] EXCEPT !.st = "ok"] \in CallRec /\ ~Holds([calls[Main][id] EXCEPT !.st = "ok"])
    BY <1>1 DEF CallRec, Holds
  <2> QED
    BY <1>1, <2>1, RetriedTyped
<1>3. /\ calls' = [calls EXCEPT ![Main][id] = c]
      /\ msgs' = [l \in Loops |-> IF l \in ws THEN <<>> ELSE msgs[l]]
      /\ Drop(ws, at)
      /\ UNCHANGED <<shape, org, turn, checkpoint>>
      /\ \A w \in ws : at[w] = "ended"
  BY DEF WorkersReturn, SetCall, shared
<1> HIDE DEF c
<1>4. /\ DOMAIN calls' = Loops
      /\ \A k \in Loops : Ids(k)' = Ids(k)
      /\ calls'[Main][id] = c
      /\ \A k \in Loops : \A j \in Ids(k) : <<k, j>> # <<Main, id>> => calls'[k][j] = calls[k][j]
  BY <1>1, <1>3 DEF Ids
<1>5. LoopTypes'
  <2>1. at' \in [Loops -> Places] /\ step' \in [Loops -> Nat] /\ DOMAIN serves' = Workers
    BY <1>1, <1>3, DropTypes
  <2>2. msgs' \in [Loops -> Seq(Message)]
    BY <1>1, <1>3
  <2> QED
    BY <1>3, <2>1, <2>2 DEF IInv, LoopTypes
<1>6. CallTypes'
  <2>1. ASSUME NEW k \in Loops, NEW j \in Ids(k) PROVE calls'[k][j] \in CallRec
    <3>1. CASE <<k, j>> = <<Main, id>>
      BY <1>2, <1>4, <3>1
    <3>2. CASE <<k, j>> # <<Main, id>>
      BY <1>4, <2>1, <3>2 DEF IInv, CallTypes
    <3> QED
      BY <3>1, <3>2
  <2> QED
    BY <1>4, <2>1 DEF IInv, CallTypes, Ids
<1>7. PlaceInv'
  <2>1. ASSUME NEW l \in Loops, at'[l] # "tools" PROVE Ids(l)' = {}
    <3>1. at[l] # "tools"
      <4>1. CASE l \in ws
        BY <1>3, <4>1
      <4>2. CASE l \notin ws
        BY <1>3, <2>1, <4>2 DEF Drop
      <4> QED
        BY <4>1, <4>2
    <3> QED
      BY <1>4, <3>1 DEF IInv, PlaceInv
  <2>2. ASSUME NEW w \in Workers
        PROVE  /\ at'[w] = "idle" <=> serves'[w] = NoCall
               /\ serves'[w] # NoCall => /\ serves'[w] \in Ids(Main)'
                                         /\ calls'[Main][serves'[w]].kind = "delegate"
                                         /\ Holds(calls'[Main][serves'[w]])
    <3>1. CASE w \in ws
      BY <1>3, <3>1 DEF Drop, Loops
    <3>2. CASE w \notin ws
      <4>1. at'[w] = at[w] /\ serves'[w] = serves[w] /\ serves[w] # id
        BY <1>3, <3>2 DEF Drop, Loops, Running
      <4>2. serves[w] # NoCall => serves[w] \in Ids(Main) /\ calls'[Main][serves[w]] = calls[Main][serves[w]]
        BY <1>1, <1>4, <4>1 DEF IInv, PlaceInv
      <4> QED
        BY <1>1, <1>4, <4>1, <4>2 DEF IInv, PlaceInv
    <3> QED
      BY <3>1, <3>2
  <2> QED
    BY <2>1, <2>2 DEF PlaceInv
<1>8. PermitInv'
  <2>1. ASSUME NEW k \in Loops, NEW j \in Ids(k)', Holds(calls'[k][j])
        PROVE  j \in Ids(k) /\ Holds(calls[k][j])
    <3>1. <<k, j>> # <<Main, id>>
      BY <1>2, <1>4, <2>1
    <3> QED
      BY <1>4, <2>1, <3>1
  <2> QED
    BY <1>4, <2>1, NothingBegun, LoopAssumption DEF IInv
<1>9. CheckpointInv'
  <2>1. msgs'[Main] = msgs[Main]
    BY <1>1, <1>3
  <2> QED
    BY <1>3, <2>1, Stays
<1> QED
  BY <1>5, <1>6, <1>7, <1>8, <1>9 DEF IInv

(* A round is closed: its calls and those of the workers below it are gone. *)
LEMMA CloseRoundStep ==
    ASSUME IInv, NEW l \in Loops, at[l] = "tools", NEW worth, NEW repeat \in BOOLEAN,
           CloseRound(l, worth, repeat)
    PROVE  IInv'
<1> DEFINE gone == Orphans(l)
           res == Results([id \in Answered(l) |-> SizeOf(id)])
           more == IF repeat THEN <<UserText({})>> ELSE <<>>
           after == [at EXCEPT ![l] = "top"]
<1>1. /\ Main \in Loops /\ Main \notin gone /\ gone \subseteq Workers /\ l \notin gone
      /\ DOMAIN calls = Loops /\ after \in [Loops -> Places]
      /\ msgs \in [Loops -> Seq(Message)] /\ step \in [Loops -> Nat] /\ DOMAIN checkpoint = Keys
  BY LoopAssumption DEF IInv, LoopTypes, CallTypes, Loops, Orphans, Places
<1>2. res \in Message
  <2>1. Answered(l) \in SUBSET CallIds
    BY DEF IInv, CallTypes, Answered
  <2> QED
    BY <2>1, MessagesTyped
<1>3. more \in Seq(Message) /\ Append(msgs[l], res) \in Seq(Message)
  <2>1. UserText({}) \in Message
    BY MessagesTyped
  <2>2. <<>> \in Seq(Message) /\ <<UserText({})>> \in Seq(Message)
    BY <2>1
  <2> QED
    BY <1>1, <1>2, <2>2
<1>4. PICK pins : checkpoint' = [checkpoint EXCEPT ![Key(l)] =
                    [by |-> l, msgs |-> Append(msgs[l], res), step |-> step[l], pins |-> pins, done |-> FALSE]]
  BY DEF CloseRound
<1>5. /\ Drop(gone, after)
      /\ calls' = [k \in Loops |-> IF k \in gone \cup {l} THEN NoCalls ELSE calls[k]]
      /\ msgs' = [k \in Loops |-> IF k \in gone THEN <<>>
                                  ELSE IF k # l THEN msgs[k] ELSE Append(msgs[l], res) \o more]
      /\ UNCHANGED <<shape, org, turn>>
  BY DEF CloseRound
<1> HIDE DEF res, more, gone, after
<1>6. LoopTypes'
  <2>1. at' \in [Loops -> Places] /\ step' \in [Loops -> Nat] /\ DOMAIN serves' = Workers
    BY <1>1, <1>5, DropTypes
  <2>2. msgs' \in [Loops -> Seq(Message)]
    <3>1. Append(msgs[l], res) \o more \in Seq(Message)
      BY <1>3
    <3> QED
      BY <1>1, <1>5, <3>1
  <2>3. DOMAIN checkpoint' = Keys
    BY <1>1, <1>4
  <2>4. ASSUME NEW k \in Keys
        PROVE  /\ DOMAIN checkpoint'[k] = {"by", "msgs", "step", "pins", "done"}
               /\ checkpoint'[k].msgs \in Seq(Message) /\ checkpoint'[k].step \in Nat
    <3>1. CASE k = Key(l)
      <4>1. checkpoint'[k] = [by |-> l, msgs |-> Append(msgs[l], res), step |-> step[l], pins |-> pins, done |-> FALSE]
        BY <1>1, <1>4, <3>1
      <4> QED
        BY <1>1, <1>3, <4>1
    <3>2. CASE k # Key(l)
      <4>1. checkpoint'[k] = checkpoint[k]
        BY <1>1, <1>4, <3>2
      <4> QED
        BY <4>1 DEF IInv, LoopTypes
    <3> QED
      BY <3>1, <3>2
  <2> QED
    BY <1>5, <2>1, <2>2, <2>3, <2>4 DEF IInv, LoopTypes
<1>7. /\ DOMAIN calls' = Loops
      /\ \A k \in gone \cup {l} : Ids(k)' = {}
      /\ \A k \in Loops : k \notin gone \cup {l} => calls'[k] = calls[k] /\ Ids(k)' = Ids(k)
  BY <1>1, <1>5 DEF Ids, NoCalls, Loops
<1>8. CallTypes'
  BY <1>7 DEF IInv, CallTypes, Ids
<1>9. PlaceInv'
  <2>1. ASSUME NEW k \in Loops, at'[k] # "tools" PROVE Ids(k)' = {}
    <3>1. CASE k \in gone \cup {l}
      BY <1>7, <3>1
    <3>2. CASE k \notin gone \cup {l}
      <4>1. at'[k] = at[k]
        BY <1>5, <3>2 DEF Drop, after, IInv, LoopTypes
      <4> QED
        BY <1>7, <2>1, <3>2, <4>1 DEF IInv, PlaceInv
    <3> QED
      BY <3>1, <3>2
  <2>2. ASSUME NEW w \in Workers
        PROVE  /\ at'[w] = "idle" <=> serves'[w] = NoCall
               /\ serves'[w] # NoCall => /\ serves'[w] \in Ids(Main)'
                                         /\ calls'[Main][serves'[w]].kind = "delegate"
                                         /\ Holds(calls'[Main][serves'[w]])
    <3>1. CASE w \in gone
      BY <1>5, <3>1 DEF Drop, Loops
    <3>2. CASE w \notin gone
      <4>1. serves'[w] = serves[w]
        BY <1>5, <3>2 DEF Drop
      <4>2. at'[w] = "idle" <=> at[w] = "idle"
        BY <1>5, <3>2 DEF Drop, after, IInv, LoopTypes, Loops
      <4>3. CASE l = Main
        <5>1. serves[w] = NoCall
          BY <3>2, <4>3 DEF gone, Orphans
        <5> QED
          BY <4>1, <4>2, <5>1 DEF IInv, PlaceInv
      <4>4. CASE l # Main
        <5>1. calls'[Main] = calls[Main] /\ Ids(Main)' = Ids(Main)
          BY <1>1, <1>7, <4>4
        <5> QED
          BY <4>1, <4>2, <5>1 DEF IInv, PlaceInv
      <4> QED
        BY <4>3, <4>4
    <3> QED
      BY <3>1, <3>2
  <2> QED
    BY <2>1, <2>2 DEF PlaceInv
<1>10. PermitInv'
  <2>1. \A k \in Loops : \A j \in Ids(k)' :
            Holds(calls'[k][j]) => j \in Ids(k) /\ Holds(calls[k][j])
    BY <1>7
  <2> QED
    BY <1>7, <2>1, NothingBegun, LoopAssumption DEF IInv
<1>11. CheckpointInv'
  <2>1. CASE l # Main
    <3>1. Key(l) # "org:run"
      BY <2>1 DEF Key
    <3>2. checkpoint'["org:run"] = checkpoint["org:run"]
      BY <1>1, <1>4, <3>1 DEF Keys
    <3>3. msgs'[Main] = msgs[Main]
      BY <1>1, <1>5, <2>1
    <3> QED
      BY <1>5, <3>2, <3>3 DEF IInv, CheckpointInv
  <2>2. CASE l = Main /\ org
    <3>1. checkpoint'["org:run"] =
            [by |-> Main, msgs |-> Append(msgs[Main], res), step |-> step[Main], pins |-> pins, done |-> FALSE]
      BY <1>1, <1>4, <2>2 DEF Key, Keys
    <3>2. msgs'[Main] = Append(msgs[Main], res) \o more
      BY <1>1, <1>5, <2>2
    <3>3. IsPrefix(Append(msgs[Main], res), Append(msgs[Main], res))
      BY <1>3, <2>2, PrefixRefl
    <3>4. IsPrefix(Append(msgs[Main], res), msgs'[Main])
      BY <1>3, <2>2, <3>2, <3>3, PrefixGrows
    <3> QED
      BY <3>1, <3>4 DEF CheckpointInv
  <2>3. CASE ~org
    BY <1>5, <2>3 DEF CheckpointInv
  <2> QED
    BY <2>1, <2>2, <2>3 DEF IInv, LoopTypes
<1> QED
  BY <1>6, <1>8, <1>9, <1>10, <1>11 DEF IInv

LEMMA AbortStep ==
    ASSUME IInv, Abort
    PROVE  IInv'
<1> DEFINE gone == Orphans(Main)
           after == [at EXCEPT ![Main] = "aborted"]
<1>1. /\ Main \in Loops /\ Main \notin gone /\ gone = {w \in Workers : serves[w] # NoCall}
      /\ after \in [Loops -> Places] /\ msgs \in [Loops -> Seq(Message)]
  BY LoopAssumption DEF IInv, LoopTypes, Loops, Orphans, Places
<1>2. /\ Drop(gone, after)
      /\ calls' = [l \in Loops |-> NoCalls]
      /\ msgs' = [l \in Loops |-> IF l = Main THEN msgs[l] ELSE <<>>]
      /\ UNCHANGED <<shape, org, turn, checkpoint>>
  BY DEF Abort
<1>3. LoopTypes'
  <2>1. at' \in [Loops -> Places] /\ step' \in [Loops -> Nat] /\ DOMAIN serves' = Workers
    BY <1>1, <1>2, DropTypes
  <2>2. msgs' \in [Loops -> Seq(Message)]
    BY <1>1, <1>2
  <2> QED
    BY <1>2, <2>1, <2>2 DEF IInv, LoopTypes
<1>4. DOMAIN calls' = Loops /\ \A l \in Loops : Ids(l)' = {}
  BY <1>2 DEF Ids, NoCalls
<1>5. CallTypes'
  BY <1>4 DEF CallTypes, Ids
<1>6. PlaceInv'
  <2>1. ASSUME NEW w \in Workers PROVE at'[w] = "idle" /\ serves'[w] = NoCall
    <3>1. CASE w \in gone
      BY <1>2, <3>1 DEF Drop, Loops
    <3>2. CASE w \notin gone
      <4>1. serves[w] = NoCall /\ at[w] = "idle" /\ w # Main
        BY <1>1, <3>2, LoopAssumption DEF IInv, PlaceInv
      <4> QED
        BY <1>2, <3>2, <4>1 DEF Drop, Loops, IInv, LoopTypes
    <3> QED
      BY <3>1, <3>2
  <2> QED
    BY <1>4, <2>1 DEF PlaceInv
<1>7. PermitInv'
  BY <1>4, NothingBegun, LoopAssumption DEF IInv
<1>8. CheckpointInv'
  <2>1. msgs'[Main] = msgs[Main]
    BY <1>1, <1>2
  <2> QED
    BY <1>2, <2>1, Stays
<1> QED
  BY <1>3, <1>5, <1>6, <1>7, <1>8 DEF IInv
----------------------------------------------------------------------------
(* The theorems.                                                            *)

(* Every step of the agent loop keeps the invariant. *)
LEMMA NextIInv == IInv /\ [Next]_vars => IInv'
<1> SUFFICES ASSUME IInv, [Next]_vars PROVE IInv'
  OBVIOUS
<1>1. CASE StartTurn
  BY <1>1, StartTurnStep
<1>2. CASE ResumeTurn
  BY <1>2, ResumeTurnStep
<1>3. CASE Leave
  BY <1>3, LeaveStep
<1>4. CASE Abort
  BY <1>4, AbortStep
<1>5. ASSUME NEW l \in Loops, Step(l) PROVE IInv'
  <2>1. CASE WallExhausted(l) \/ RoundsExhausted(l) \/ Ask(l)
    BY <2>1, SpeaksStep
  <2>2. CASE Synthesized(l) \/ SeesCancel(l) \/ GivesUp(l) \/ Answers(l)
    BY <2>2, EndsStep
  <2>3. ASSUME NEW n \in 1..CallsOf(l), CallsTools(l, n) PROVE IInv'
    BY <2>3, CallsToolsStep
  <2>4. ASSUME NEW repeat \in BOOLEAN, ToolsDone(l, repeat) PROVE IInv'
    BY <2>4, CloseRoundStep DEF ToolsDone
  <2>5. CASE ToolTimeout(l)
    BY <2>5, CloseRoundStep DEF ToolTimeout
  <2> QED
    BY <1>5, <2>1, <2>2, <2>3, <2>4, <2>5 DEF Step
<1>6. ASSUME NEW l \in Loops, NEW id \in Ids(l), Call(l, id) PROVE IInv'
  <2>1. CASE Begin(l, id)
    BY <2>1, BeginStep
  <2>2. CASE AttemptSucceeds(l, id) \/ AttemptFails(l, id) \/ Rested(l, id)
    BY <2>2, CallStep
  <2> QED
    BY <1>6, <2>1, <2>2 DEF Call
<1>7. ASSUME NEW id \in Ids(Main), Delegates(id) PROVE IInv'
  BY <1>7, DelegatesStep
<1>8. ASSUME NEW id \in Ids(Main), NEW good \in BOOLEAN, WorkersReturn(id, good) PROVE IInv'
  BY <1>8, WorkersReturnStep
<1>9. ASSUME NEW w \in Workers, NextWorker(w) PROVE IInv'
  BY <1>9, NextWorkerStep
<1>10. CASE UNCHANGED vars
  BY <1>10 DEF vars, IInv, LoopTypes, CallTypes, PlaceInv, PermitInv, Holding, CheckpointInv, Ids
<1> QED
  BY <1>1, <1>2, <1>3, <1>4, <1>5, <1>6, <1>7, <1>8, <1>9, <1>10 DEF Next

(* The invariant holds of every run of the agent loop: calls and workers are *)
(* where they belong, permits are counted, the checkpoint is a past of Main. *)
THEOREM InductiveInvariant == Spec => []IInv
<1> QED
  BY InitIInv, NextIInv, PTL DEF Spec

(* No attempt starts over the limit of the semaphore, and only calls of live *)
(* rounds hold permits, those of workers below a call that holds one: the    *)
(* async with of tool_executor.py:127 around every attempt.                  *)
THEOREM PermitsAreReturned == Spec => []PermitsReturned
<1>1. IInv => PermitsReturned
  <2> SUFFICES ASSUME IInv PROVE PermitsReturned
    OBVIOUS
  <2>1. Held <= Permits
    BY DEF IInv, PermitInv, Held
  <2>2. ASSUME NEW w \in Workers, NEW id \in Ids(w)
        PROVE  serves[w] \in Ids(Main) /\ Holds(calls[Main][serves[w]])
    <3>1. at[w] = "tools"
      BY <2>2 DEF IInv, PlaceInv, Loops
    <3>2. serves[w] # NoCall
      BY <3>1 DEF IInv, PlaceInv
    <3> QED
      BY <3>2 DEF IInv, PlaceInv
  <2> QED
    BY <2>1, <2>2 DEF PermitsReturned
<1> QED
  BY <1>1, InductiveInvariant, PTL

(* With an organisation, the checkpoint that a turn would resume from was     *)
(* written by Main and holds the start of the session of Main, whatever       *)
(* workers do below it (run_checkpoint.py:35, run.py:762).                    *)
THEOREM CheckpointIsOfMain == Spec => []CheckpointIsMain
<1>1. IInv => CheckpointIsMain
  BY DEF IInv, CheckpointInv, CheckpointIsMain, Key
<1> QED
  BY <1>1, InductiveInvariant, PTL
----------------------------------------------------------------------------
(***************************************************************************)
(* The conversations: what every loop has said and heard is a dialogue,    *)
(* but for the round of tools that it runs, and so is every checkpoint.    *)
(***************************************************************************)

LastUses(s) == IF s = <<>> THEN {} ELSE s[Len(s)].uses
Begun(s, cut) ==
    /\ \A i \in DOMAIN s :
           /\ ResultsOnly(s[i]) => i > 1 /\ s[i - 1].uses = DOMAIN s[i].results
           /\ s[i].uses \ cut # {} /\ i < Len(s) => DOMAIN s[i + 1].results = s[i].uses
    /\ s # <<>> => s[1].by = "user"

LoopTalks(s, place, ids, cut) ==
    /\ Begun(s, cut)
    /\ place = "tools" => LastUses(s) = ids /\ ids # {}
    /\ place # "tools" => LastUses(s) \subseteq cut
    /\ place \in {"queued", "top", "llm", "synth"} => s # <<>>
CheckpointTalks(cp, cut) == cp.by # "none" => cp.msgs # <<>> /\ Dialogue(cp.msgs, cut)

DialogueInv ==
    /\ \A l \in Loops : LoopTalks(msgs[l], at[l], Ids(l), aborted)
    /\ \A k \in Keys : CheckpointTalks(checkpoint[k], aborted)

\* With an organisation Main, and what it would resume from, has the question.
AskedInv ==
    org => /\ at[Main] # "idle" => Has(msgs[Main], turn)
           /\ checkpoint["org:run"].by # "none" => Has(checkpoint["org:run"].msgs, turn)

TalkInv == IInv /\ DialogueInv /\ AskedInv
----------------------------------------------------------------------------
(* What is begun and ends in nothing unanswered is a dialogue. *)
LEMMA BegunEnds ==
    ASSUME NEW s \in Seq(Message), NEW cut
    PROVE  Dialogue(s, cut) <=> Begun(s, cut) /\ LastUses(s) \subseteq cut
<1>1. PICK n \in Nat : n = Len(s) /\ DOMAIN s = 1..n /\ (s = <<>> <=> n = 0)
  OBVIOUS
<1>2. CASE n = 0
  BY <1>1, <1>2 DEF Dialogue, Chained, Begun, LastUses
<1>3. CASE n # 0
  <2>1. LastUses(s) = s[n].uses /\ n \in 1..n
    BY <1>1, <1>3 DEF LastUses
  <2>2. ASSUME Dialogue(s, cut) PROVE Begun(s, cut) /\ s[n].uses \subseteq cut
    <3>1. Begun(s, cut)
      BY <2>2 DEF Dialogue, Chained, Begun
    <3>2. s[n].uses \ cut # {} => n < n
      BY <1>1, <2>1, <2>2 DEF Dialogue, Chained
    <3> QED
      BY <3>1, <3>2
  <2>3. ASSUME Begun(s, cut), s[n].uses \subseteq cut PROVE Dialogue(s, cut)
    <3>1. ASSUME NEW i \in 1..n, s[i].uses \ cut # {} PROVE i < n
      BY <2>3, <3>1
    <3> QED
      BY <1>1, <2>3, <3>1 DEF Dialogue, Chained, Begun
  <2> QED
    BY <2>1, <2>2, <2>3
<1> QED
  BY <1>2, <1>3

(* More rounds may be cut off. *)
LEMMA BegunWider ==
    ASSUME NEW s \in Seq(Message), NEW cut, NEW wide, cut \subseteq wide
    PROVE  /\ Begun(s, cut) => Begun(s, wide)
           /\ Dialogue(s, cut) => Dialogue(s, wide)
<1>1. Begun(s, cut) => Begun(s, wide)
  <2>1. \A i \in DOMAIN s : s[i].uses \ wide # {} => s[i].uses \ cut # {}
    OBVIOUS
  <2> QED
    BY <2>1 DEF Begun
<1>2. LastUses(s) \subseteq cut => LastUses(s) \subseteq wide
  OBVIOUS
<1> QED
  BY <1>1, <1>2, BegunEnds

(* A message is added that answers the last one, or to one that needs no     *)
(* answer.                                                                   *)
LEMMA BegunAppend ==
    ASSUME NEW cut, NEW s \in Seq(Message), Begun(s, cut), NEW m \in Message, s = <<>> => m.by = "user",
           \/ LastUses(s) \subseteq cut /\ ~ResultsOnly(m)
           \/ s # <<>> /\ DOMAIN m.results = LastUses(s)
    PROVE  /\ Begun(Append(s, m), cut) /\ LastUses(Append(s, m)) = m.uses
           /\ Append(s, m) \in Seq(Message) /\ Append(s, m) # <<>>
<1>1. PICK n \in Nat : n = Len(s) /\ DOMAIN s = 1..n /\ (s = <<>> <=> n = 0)
  OBVIOUS
<1>2. PICK t : t = Append(s, m)
  OBVIOUS
<1>3. /\ t \in Seq(Message) /\ Len(t) = n + 1 /\ DOMAIN t = 1..(n + 1) /\ t # <<>>
      /\ t[n + 1] = m /\ \A i \in 1..n : t[i] = s[i]
  BY <1>1, <1>2
<1>4. LastUses(t) = m.uses
  BY <1>3 DEF LastUses
<1>5. n > 0 => LastUses(s) = s[n].uses
  BY <1>1 DEF LastUses
<1>6. ASSUME NEW i \in 1..(n + 1)
      PROVE  /\ ResultsOnly(t[i]) => i > 1 /\ t[i - 1].uses = DOMAIN t[i].results
             /\ t[i].uses \ cut # {} /\ i < n + 1 => DOMAIN t[i + 1].results = t[i].uses
  <2>1. CASE i = n + 1
    <3>1. ASSUME ResultsOnly(m) PROVE n > 0 /\ t[n].uses = DOMAIN m.results
      <4>1. n > 0 /\ DOMAIN m.results = LastUses(s)
        BY <1>1, <3>1
      <4>2. n \in 1..n
        BY <4>1
      <4> QED
        BY <1>3, <1>5, <4>1, <4>2
    <3> QED
      BY <1>3, <2>1, <3>1
  <2>2. CASE i < n
    <3>1. i \in 1..n /\ i + 1 \in 1..n /\ (i > 1 => i - 1 \in 1..n)
      BY <2>2
    <3>2. t[i] = s[i] /\ t[i + 1] = s[i + 1] /\ (i > 1 => t[i - 1] = s[i - 1])
      BY <1>3, <3>1
    <3> QED
      BY <1>1, <2>2, <3>1, <3>2 DEF Begun
  <2>3. CASE i = n
    <3>1. n \in 1..n /\ (n > 1 => n - 1 \in 1..n) /\ n > 0
      BY <2>3
    <3>2. t[n] = s[n] /\ (n > 1 => t[n - 1] = s[n - 1])
      BY <1>3, <3>1
    <3>3. ResultsOnly(t[n]) => n > 1 /\ t[n - 1].uses = DOMAIN t[n].results
      BY <1>1, <3>1, <3>2 DEF Begun
    <3>4. t[n].uses \ cut # {} => DOMAIN m.results = t[n].uses
      BY <1>5, <3>1, <3>2
    <3> QED
      BY <1>3, <2>3, <3>3, <3>4
  <2>4. i = n + 1 \/ i < n \/ i = n
    OBVIOUS
  <2> QED
    BY <2>1, <2>2, <2>3, <2>4
<1>7. t[1].by = "user"
  BY <1>1, <1>3 DEF Begun
<1>8. Begun(t, cut)
  BY <1>3, <1>6, <1>7 DEF Begun
<1> QED
  BY <1>2, <1>3, <1>4, <1>8

(* What was asked stays asked. *)
LEMMA HasAppend ==
    ASSUME NEW s \in Seq(Message), NEW m \in Message, NEW q
    PROVE  /\ Has(s, q) => Has(Append(s, m), q)
           /\ m.text /\ q \in m.asks => Has(Append(s, m), q)
<1>1. PICK n \in Nat : n = Len(s) /\ DOMAIN s = 1..n
  OBVIOUS
<1>2. PICK t : t = Append(s, m)
  OBVIOUS
<1>3. DOMAIN t = 1..(n + 1) /\ t[n + 1] = m /\ \A i \in 1..n : t[i] = s[i]
  BY <1>1, <1>2
<1>4. n + 1 \in 1..(n + 1) /\ \A i \in 1..n : i \in 1..(n + 1)
  OBVIOUS
<1> QED
  BY <1>1, <1>2, <1>3, <1>4 DEF Has, Asks
----------------------------------------------------------------------------
(* Types that all steps below need. *)
LEMMA TalkTypes ==
    ASSUME IInv
    PROVE  /\ at \in [Loops -> Places] /\ msgs \in [Loops -> Seq(Message)] /\ Main \in Loops /\ turn \in Nat
           /\ DOMAIN calls = Loops /\ DOMAIN checkpoint = Keys /\ "org:run" \in Keys /\ Main \notin Workers
           /\ \A k \in Keys : checkpoint[k].msgs \in Seq(Message)
           /\ \A l \in Loops : Key(l) \in Keys /\ Ids(l) \subseteq CallIds
BY LoopAssumption DEF IInv, LoopTypes, CallTypes, Loops, Keys, Key

(* What loops say and where they wait for it stays as it is. *)
LEMMA Quiet ==
    ASSUME IInv, DialogueInv, AskedInv, UNCHANGED <<org, turn, msgs, checkpoint, aborted>>,
           \A l \in Loops : Ids(l)' = Ids(l),
           \A l \in Loops : at'[l] = at[l] \/ (at[l] = "queued" /\ at'[l] = "top" /\ l # Main)
    PROVE  DialogueInv' /\ AskedInv'
<1>1. DialogueInv'
  <2>1. ASSUME NEW l \in Loops PROVE LoopTalks(msgs'[l], at'[l], Ids(l)', aborted')
    BY DEF DialogueInv, LoopTalks
  <2> QED
    BY <2>1 DEF DialogueInv
<1>2. AskedInv'
  BY TalkTypes DEF AskedInv
<1> QED
  BY <1>1, <1>2

(* The loop l adds a message and goes on; checkpoints keep what they hold.   *)
LEMMA Says ==
    ASSUME IInv, DialogueInv, AskedInv, UNCHANGED <<org, turn, aborted>>,
           NEW l \in Loops, at[l] # "idle", NEW m \in Message, msgs' = [msgs EXCEPT ![l] = Append(@, m)],
           LoopTalks(Append(msgs[l], m), at'[l], Ids(l)', aborted),
           \A k \in Loops : k # l => at'[k] = at[k] /\ Ids(k)' = Ids(k),
           \A k \in Keys : /\ checkpoint'[k].by = checkpoint[k].by
                           /\ checkpoint'[k].msgs = checkpoint[k].msgs
    PROVE  DialogueInv' /\ AskedInv'
<1>1. DialogueInv'
  <2>1. ASSUME NEW k \in Loops PROVE LoopTalks(msgs'[k], at'[k], Ids(k)', aborted')
    <3>1. CASE k = l
      BY <3>1, TalkTypes
    <3>2. CASE k # l
      <4>1. msgs'[k] = msgs[k]
        BY <3>2, TalkTypes
      <4>2. at'[k] = at[k] /\ Ids(k)' = Ids(k) /\ LoopTalks(msgs[k], at[k], Ids(k), aborted)
        BY <3>2 DEF DialogueInv
      <4> QED
        BY <4>1, <4>2
    <3> QED
      BY <3>1, <3>2
  <2>2. ASSUME NEW k \in Keys PROVE CheckpointTalks(checkpoint'[k], aborted')
    BY DEF DialogueInv, CheckpointTalks
  <2> QED
    BY <2>1, <2>2 DEF DialogueInv
<1>2. AskedInv'
  <2>1. org /\ at'[Main] # "idle" => Has(msgs'[Main], turn)
    <3>1. CASE l = Main
      BY <3>1, TalkTypes, HasAppend DEF AskedInv
    <3>2. CASE l # Main
      BY <3>2, TalkTypes DEF AskedInv
    <3> QED
      BY <3>1, <3>2
  <2> QED
    BY <2>1, TalkTypes DEF AskedInv
<1> QED
  BY <1>1, <1>2

LEMMA StartTurnTalks ==
    ASSUME IInv, DialogueInv, AskedInv, StartTurn
    PROVE  DialogueInv' /\ AskedInv'
<1> DEFINE m == UserText({turn'})
<1>1. /\ msgs' = [msgs EXCEPT ![Main] = Append(@, m)] /\ at' = [at EXCEPT ![Main] = "top"]
      /\ at[Main] \in {"idle", "ended", "aborted"}
      /\ UNCHANGED <<org, calls, aborted>>
      /\ \A k \in Keys : checkpoint'[k] = NoCheckpoint
  BY TalkTypes DEF StartTurn
<1>2. m \in Message /\ ~ResultsOnly(m) /\ m.by = "user" /\ m.uses = {} /\ m.text /\ turn' \in m.asks
  <2>1. {turn'} \in SUBSET Nat
    BY TalkTypes DEF StartTurn
  <2> QED
    BY <2>1, TextTyped DEF Message
<1> HIDE DEF m
<1>3. LoopTalks(msgs[Main], at[Main], Ids(Main), aborted)
  BY TalkTypes DEF DialogueInv
<1>4. LoopTalks(Append(msgs[Main], m), "top", Ids(Main)', aborted)
  BY <1>1, <1>2, <1>3, TalkTypes, BegunAppend DEF LoopTalks
<1>5. ASSUME NEW l \in Loops PROVE LoopTalks(msgs'[l], at'[l], Ids(l)', aborted')
  <2>1. CASE l = Main
    BY <1>1, <1>4, <2>1, TalkTypes
  <2>2. CASE l # Main
    BY <1>1, <2>2, TalkTypes DEF DialogueInv, Ids
  <2> QED
    BY <2>1, <2>2
<1>6. \A k \in Keys : checkpoint'[k].by = "none"
  BY <1>1 DEF NoCheckpoint
<1>7. Has(msgs'[Main], turn')
  BY <1>1, <1>2, TalkTypes, HasAppend
<1>8. DialogueInv'
  BY <1>5, <1>6 DEF DialogueInv, CheckpointTalks
<1>9. AskedInv'
  BY <1>6, <1>7, TalkTypes DEF AskedInv
<1> QED
  BY <1>8, <1>9

LEMMA ResumeTurnTalks ==
    ASSUME IInv, DialogueInv, AskedInv, ResumeTurn
    PROVE  DialogueInv' /\ AskedInv'
<1>1. PICK cp : cp = checkpoint[Key(Main)]
  OBVIOUS
<1>2. /\ msgs' = [msgs EXCEPT ![Main] = cp.msgs] /\ at' = [at EXCEPT ![Main] = "top"]
      /\ at[Main] = "aborted" /\ cp.by # "none"
      /\ UNCHANGED <<org, turn, calls, checkpoint, aborted>>
  BY <1>1 DEF ResumeTurn
<1>3. cp.msgs \in Seq(Message) /\ cp.msgs # <<>> /\ Dialogue(cp.msgs, aborted)
  BY <1>1, <1>2, TalkTypes DEF DialogueInv, CheckpointTalks
<1>4. LoopTalks(cp.msgs, "top", Ids(Main)', aborted)
  BY <1>3, BegunEnds DEF LoopTalks
<1>5. ASSUME NEW l \in Loops PROVE LoopTalks(msgs'[l], at'[l], Ids(l)', aborted')
  <2>1. CASE l = Main
    BY <1>2, <1>4, <2>1, TalkTypes
  <2>2. CASE l # Main
    BY <1>2, <2>2, TalkTypes DEF DialogueInv, Ids
  <2> QED
    BY <2>1, <2>2
<1>6. DialogueInv'
  BY <1>2, <1>5 DEF DialogueInv
<1>7. AskedInv'
  <2>1. org => Has(cp.msgs, turn)
    BY <1>1, <1>2 DEF AskedInv, Key
  <2> QED
    BY <1>2, <2>1, TalkTypes DEF AskedInv
<1> QED
  BY <1>6, <1>7

LEMMA SpeaksTalks ==
    ASSUME IInv, DialogueInv, AskedInv, NEW l \in Loops, WallExhausted(l) \/ RoundsExhausted(l) \/ Ask(l)
    PROVE  DialogueInv' /\ AskedInv'
<1>1. LoopTalks(msgs[l], at[l], Ids(l), aborted) /\ at[l] = "top"
  BY DEF DialogueInv, WallExhausted, RoundsExhausted, Ask
<1>2. UserText({}) \in Message /\ ~ResultsOnly(UserText({})) /\ UserText({}).uses = {}
  BY TextTyped DEF Message
<1>3. CASE WallExhausted(l) \/ RoundsExhausted(l)
  <2>1. /\ msgs' = [msgs EXCEPT ![l] = Append(@, UserText({}))] /\ at' = [at EXCEPT ![l] = "synth"]
        /\ UNCHANGED <<org, turn, aborted, calls, checkpoint>>
    BY <1>3 DEF WallExhausted, RoundsExhausted, shared
  <2>2. LoopTalks(Append(msgs[l], UserText({})), "synth", Ids(l)', aborted)
    BY <1>1, <1>2, TalkTypes, BegunAppend DEF LoopTalks
  <2>3. at'[l] = "synth" /\ \A k \in Loops : k # l => at'[k] = at[k]
    BY <2>1, TalkTypes
  <2> QED
    BY <1>1, <1>2, <2>1, <2>2, <2>3, Says DEF Ids
<1>4. CASE Ask(l)
  <2>1. at' = [at EXCEPT ![l] = "llm"] /\ UNCHANGED <<org, turn, aborted, calls, checkpoint, msgs>>
    BY <1>4 DEF Ask, shared
  <2>2. ASSUME NEW k \in Loops PROVE LoopTalks(msgs'[k], at'[k], Ids(k)', aborted')
    <3>1. LoopTalks(msgs[k], at[k], Ids(k), aborted)
      BY DEF DialogueInv
    <3>2. k # l => at'[k] = at[k]
      BY <2>1, TalkTypes
    <3>3. k = l => at'[k] = "llm" /\ at[k] = "top"
      BY <1>1, <2>1, TalkTypes
    <3> QED
      BY <2>1, <3>1, <3>2, <3>3 DEF LoopTalks, Ids
  <2>3. DialogueInv'
    BY <2>1, <2>2 DEF DialogueInv
  <2>4. at'[Main] # "idle" => at[Main] # "idle"
    BY <1>1, <2>1, TalkTypes
  <2>5. AskedInv'
    BY <2>1, <2>4 DEF AskedInv
  <2> QED
    BY <2>3, <2>5
<1> QED
  BY <1>3, <1>4

LEMMA EndsTalks ==
    ASSUME IInv, DialogueInv, AskedInv, NEW l \in Loops, Synthesized(l) \/ SeesCancel(l) \/ GivesUp(l) \/ Answers(l)
    PROVE  DialogueInv' /\ AskedInv'
<1> DEFINE m == Reply(TRUE, {})
<1>1. /\ at[l] \in {"top", "llm", "synth"} /\ UNCHANGED <<org, turn, aborted, calls>>
      /\ \E extra \in {<<>>, <<m>>}, completes \in BOOLEAN : End(l, extra, completes)
  BY DEF Synthesized, SeesCancel, GivesUp, Answers, shared
<1>2. PICK extra \in {<<>>, <<m>>}, completes \in BOOLEAN : End(l, extra, completes)
  BY <1>1
<1>3. m \in Message /\ ~ResultsOnly(m) /\ m.uses = {}
  <2>1. m \in Message
    BY MessagesTyped
  <2> QED
    BY <2>1 DEF Reply, ResultsOnly
<1>4. /\ at' = [at EXCEPT ![l] = "ended"] /\ msgs' = [msgs EXCEPT ![l] = @ \o extra]
      /\ checkpoint' \in {checkpoint, MarkCompleted(l, checkpoint)}
  BY <1>2 DEF End
<1> HIDE DEF m
<1>5. \A k \in Keys : checkpoint'[k].by = checkpoint[k].by /\ checkpoint'[k].msgs = checkpoint[k].msgs
  BY <1>4, Marked
<1>6. LoopTalks(msgs[l], at[l], Ids(l), aborted) /\ msgs[l] # <<>> /\ msgs[l] \in Seq(Message)
  BY <1>1, TalkTypes DEF DialogueInv, LoopTalks
<1>7. at'[l] = "ended" /\ \A k \in Loops : k # l => at'[k] = at[k]
  BY <1>4, TalkTypes
<1>8. CASE extra = <<m>>
  <2>1. msgs' = [msgs EXCEPT ![l] = Append(@, m)]
    <3>1. msgs[l] \o <<m>> = Append(msgs[l], m)
      BY <1>3, <1>6
    <3> QED
      BY <1>4, <1>8, <3>1
  <2>2. LoopTalks(Append(msgs[l], m), "ended", Ids(l)', aborted)
    BY <1>1, <1>3, <1>6, BegunAppend DEF LoopTalks
  <2> QED
    BY <1>1, <1>3, <1>5, <1>7, <2>1, <2>2, Says DEF Ids
<1>9. CASE extra = <<>>
  <2>1. msgs'[l] = msgs[l] /\ \A k \in Loops : msgs'[k] = msgs[k]
    <3>1. msgs[l] \o <<>> = msgs[l]
      BY <1>6
    <3> QED
      BY <1>4, <1>9, <3>1, TalkTypes
  <2>2. ASSUME NEW k \in Loops PROVE LoopTalks(msgs'[k], at'[k], Ids(k)', aborted')
    <3>1. LoopTalks(msgs[k], at[k], Ids(k), aborted)
      BY DEF DialogueInv
    <3> QED
      BY <1>1, <1>7, <2>1, <3>1 DEF LoopTalks, Ids
  <2>3. DialogueInv'
    BY <1>1, <1>5, <2>2 DEF DialogueInv, CheckpointTalks
  <2>4. at'[Main] # "idle" => at[Main] # "idle"
    BY <1>1, <1>7, TalkTypes
  <2>5. AskedInv'
    BY <1>1, <1>5, <2>1, <2>4, TalkTypes DEF AskedInv
  <2> QED
    BY <2>3, <2>5
<1> QED
  BY <1>8, <1>9

LEMMA QuietSteps ==
    ASSUME IInv, DialogueInv, AskedInv,
           \/ Leave
           \/ \E w \in Workers : NextWorker(w)
           \/ \E l \in Loops : \E id \in Ids(l) : Call(l, id)
           \/ UNCHANGED vars
    PROVE  DialogueInv' /\ AskedInv'
<1>1. CASE Leave
  BY <1>1, Quiet DEF Leave, Ids
<1>2. ASSUME NEW w \in Workers, NextWorker(w) PROVE DialogueInv' /\ AskedInv'
  <2>1. \A l \in Loops : at'[l] = at[l] \/ (at[l] = "queued" /\ at'[l] = "top" /\ l # Main)
    BY <1>2, TalkTypes DEF NextWorker
  <2> QED
    BY <1>2, <2>1, Quiet DEF NextWorker, shared, Ids
<1>3. ASSUME NEW l \in Loops, NEW id \in Ids(l), Call(l, id) PROVE DialogueInv' /\ AskedInv'
  <2>1. UNCHANGED <<org, turn, msgs, checkpoint, aborted, at>> /\ \E c : SetCall(l, id, c)
    BY <1>3 DEF Call, Begin, AttemptSucceeds, AttemptFails, Rested, shared
  <2>2. \A k \in Loops : Ids(k)' = Ids(k)
    BY <2>1, TalkTypes DEF SetCall, Ids
  <2> QED
    BY <2>1, <2>2, Quiet
<1>4. CASE UNCHANGED vars
  BY <1>4, Quiet DEF vars, Ids
<1> QED
  BY <1>1, <1>2, <1>3, <1>4

LEMMA CallsToolsTalks ==
    ASSUME IInv, DialogueInv, AskedInv, NEW l \in Loops, NEW n \in 1..CallsOf(l), CallsTools(l, n)
    PROVE  DialogueInv' /\ AskedInv'
<1> DEFINE ids == {<<turn, step[l], i>> : i \in 1..n}
<1>1. PICK kinds \in [1..n -> ToolsOf(l)], narrated \in {FALSE, l = Main} :
          LET asked == {<<turn, step[l], i>> : i \in 1..n}
          IN  /\ calls' = [calls EXCEPT ![l] = [id \in asked |-> NewCall(kinds[id[3]])]]
              /\ msgs' = [msgs EXCEPT ![l] = Append(@, Reply(narrated, asked))]
  BY DEF CallsTools
<1>2. ids \subseteq CallIds
  BY NewCalls
<1>3. ids # {}
  <2>1. 1 \in 1..n
    OBVIOUS
  <2> QED
    BY <2>1
<1>4. /\ calls' = [calls EXCEPT ![l] = [id \in ids |-> NewCall(kinds[id[3]])]]
      /\ msgs' = [msgs EXCEPT ![l] = Append(@, Reply(narrated, ids))]
      /\ at' = [at EXCEPT ![l] = "tools"] /\ at[l] = "llm"
      /\ UNCHANGED <<org, turn, aborted, checkpoint>>
  BY <1>1 DEF CallsTools, shared
<1> HIDE DEF ids
<1>5. PICK m : m = Reply(narrated, ids)
  OBVIOUS
<1>6. m \in Message /\ ~ResultsOnly(m) /\ m.uses = ids
  <2>1. narrated \in BOOLEAN
    BY <1>1
  <2>2. m \in Message
    BY <1>2, <1>5, <2>1, MessagesTyped
  <2> QED
    BY <1>5, <2>2 DEF Reply, ResultsOnly
<1>7. at'[l] = "tools" /\ Ids(l)' = ids /\ \A k \in Loops : k # l => at'[k] = at[k] /\ Ids(k)' = Ids(k)
  BY <1>4, TalkTypes DEF Ids
<1>8. LoopTalks(msgs[l], at[l], Ids(l), aborted) /\ msgs[l] \in Seq(Message)
  BY TalkTypes DEF DialogueInv
<1>9. LoopTalks(Append(msgs[l], m), "tools", ids, aborted)
  BY <1>3, <1>4, <1>6, <1>8, BegunAppend DEF LoopTalks
<1>10. msgs' = [msgs EXCEPT ![l] = Append(@, m)]
  BY <1>4, <1>5
<1> QED
  BY <1>4, <1>6, <1>7, <1>9, <1>10, Says

(* A worker begins with its goal, and what is cut off is forgotten. *)
LEMMA FreshTalks ==
    ASSUME NEW cut, NEW ids
    PROVE  /\ LoopTalks(<<>>, "idle", ids, cut)
           /\ \A place \in {"top", "queued"} : LoopTalks(<<UserText({})>>, place, ids, cut)
<1>1. LoopTalks(<<>>, "idle", ids, cut)
  BY DEF LoopTalks, Begun, LastUses
<1>2. <<>> \in Seq(Message) /\ Begun(<<>>, cut) /\ LastUses(<<>>) = {}
  BY DEF Begun, LastUses
<1>3. UserText({}) \in Message /\ ~ResultsOnly(UserText({})) /\ UserText({}).uses = {} /\ UserText({}).by = "user"
  BY TextTyped DEF Message
<1>4. Begun(Append(<<>>, UserText({})), cut) /\ LastUses(Append(<<>>, UserText({}))) = {}
  BY <1>2, <1>3, BegunAppend
<1>5. Append(<<>>, UserText({})) = <<UserText({})>> /\ <<UserText({})>> # <<>>
  OBVIOUS
<1> QED
  BY <1>1, <1>4, <1>5 DEF LoopTalks

LEMMA DelegatesTalks ==
    ASSUME IInv, DialogueInv, AskedInv, NEW id \in Ids(Main), Delegates(id)
    PROVE  DialogueInv' /\ AskedInv'
<1> DEFINE free == {w \in Workers : serves[w] = NoCall}
<1>1. PICK tasks \in Alone(free) \cup InParallel(free) : Launch(id, tasks)
  BY DEF Delegates
<1>2. tasks.now \subseteq Workers /\ tasks.later \subseteq Workers
  BY DEF Alone, InParallel
<1>3. /\ at' = [l \in Loops |-> IF l \in tasks.now THEN "top" ELSE IF l \in tasks.later THEN "queued" ELSE at[l]]
      /\ msgs' = [l \in Loops |-> IF l \in tasks.now \cup tasks.later THEN <<UserText({})>> ELSE msgs[l]]
      /\ UNCHANGED <<org, turn, aborted, calls, checkpoint>>
  BY <1>1 DEF Launch, Delegates, shared
<1>4. ASSUME NEW l \in Loops PROVE LoopTalks(msgs'[l], at'[l], Ids(l)', aborted')
  <2>1. CASE l \in tasks.now \cup tasks.later
    <3>1. msgs'[l] = <<UserText({})>> /\ at'[l] \in {"top", "queued"}
      BY <1>3, <2>1
    <3> QED
      BY <3>1, FreshTalks
  <2>2. CASE l \notin tasks.now \cup tasks.later
    <3>1. msgs'[l] = msgs[l] /\ at'[l] = at[l] /\ Ids(l)' = Ids(l)
      BY <1>3, <2>2 DEF Ids
    <3> QED
      BY <1>3, <3>1 DEF DialogueInv
  <2> QED
    BY <2>1, <2>2
<1>5. msgs'[Main] = msgs[Main] /\ at'[Main] = at[Main]
  BY <1>2, <1>3, TalkTypes
<1>6. DialogueInv'
  BY <1>3, <1>4 DEF DialogueInv
<1>7. AskedInv'
  BY <1>3, <1>5 DEF AskedInv
<1> QED
  BY <1>6, <1>7

LEMMA WorkersReturnTalks ==
    ASSUME IInv, DialogueInv, AskedInv, NEW id \in Ids(Main), NEW good \in BOOLEAN, WorkersReturn(id, good)
    PROVE  DialogueInv' /\ AskedInv'
<1> DEFINE ws == Running(id)
<1>1. /\ Drop(ws, at) /\ msgs' = [l \in Loops |-> IF l \in ws THEN <<>> ELSE msgs[l]]
      /\ UNCHANGED <<org, turn, aborted, checkpoint>>
      /\ \E c : SetCall(Main, id, c)
  BY DEF WorkersReturn, shared
<1>2. ws \subseteq Workers
  BY DEF Running
<1> HIDE DEF ws
<1>3. \A l \in Loops : Ids(l)' = Ids(l)
  BY <1>1, TalkTypes DEF SetCall, Ids
<1>4. ASSUME NEW l \in Loops PROVE LoopTalks(msgs'[l], at'[l], Ids(l)', aborted')
  <2>1. CASE l \in ws
    <3>1. msgs'[l] = <<>> /\ at'[l] = "idle"
      BY <1>1, <2>1 DEF Drop
    <3> QED
      BY <3>1, FreshTalks
  <2>2. CASE l \notin ws
    <3>1. msgs'[l] = msgs[l] /\ at'[l] = at[l] /\ Ids(l)' = Ids(l)
      BY <1>1, <1>3, <2>2 DEF Drop
    <3> QED
      BY <1>1, <3>1 DEF DialogueInv
  <2> QED
    BY <2>1, <2>2
<1>5. msgs'[Main] = msgs[Main] /\ at'[Main] = at[Main]
  BY <1>1, <1>2, TalkTypes DEF Drop
<1>6. DialogueInv'
  BY <1>1, <1>4 DEF DialogueInv
<1>7. AskedInv'
  BY <1>1, <1>5 DEF AskedInv
<1> QED
  BY <1>6, <1>7

(* The results answer the calls of the round, and the checkpoint holds both. *)
LEMMA CloseRoundTalks ==
    ASSUME IInv, DialogueInv, AskedInv, NEW l \in Loops, at[l] = "tools", NEW worth, NEW repeat \in BOOLEAN,
           CloseRound(l, worth, repeat)
    PROVE  DialogueInv' /\ AskedInv'
<1> DEFINE gone == Orphans(l)
           res == Results([id \in Answered(l) |-> SizeOf(id)])
           more == IF repeat THEN <<UserText({})>> ELSE <<>>
<1>1. PICK s, pins : /\ s = Append(msgs[l], res)
                     /\ checkpoint' = [checkpoint EXCEPT ![Key(l)] =
                            [by |-> l, msgs |-> s, step |-> step[l], pins |-> pins, done |-> FALSE]]
  BY DEF CloseRound
<1>2. /\ Drop(gone, [at EXCEPT ![l] = "top"])
      /\ calls' = [k \in Loops |-> IF k \in gone \cup {l} THEN NoCalls ELSE calls[k]]
      /\ msgs' = [k \in Loops |-> IF k \in gone THEN <<>> ELSE IF k # l THEN msgs[k] ELSE s \o more]
      /\ UNCHANGED <<org, turn, aborted>>
  BY <1>1 DEF CloseRound
<1>3. gone \subseteq Workers /\ l \notin gone /\ Main \notin gone
  BY TalkTypes DEF Orphans
<1>4. res \in Message /\ DOMAIN res.results = Ids(l) /\ res.by = "user" /\ res.uses = {}
  <2>1. Answered(l) \in SUBSET CallIds
    BY TalkTypes DEF Answered
  <2>2. res \in Message
    BY <2>1, MessagesTyped
  <2> QED
    BY <2>2 DEF Results, Answered
<1> HIDE DEF gone, res
<1>5. /\ Begun(msgs[l], aborted) /\ LastUses(msgs[l]) = Ids(l) /\ msgs[l] # <<>>
      /\ msgs[l] \in Seq(Message)
  BY TalkTypes DEF DialogueInv, LoopTalks, LastUses
<1>6. Begun(s, aborted) /\ LastUses(s) = {} /\ s \in Seq(Message) /\ s # <<>>
  BY <1>1, <1>4, <1>5, BegunAppend
<1>7. /\ Begun(s \o more, aborted) /\ LastUses(s \o more) = {} /\ s \o more \in Seq(Message) /\ s \o more # <<>>
      /\ \A q : Has(s, q) => Has(s \o more, q)
  <2>1. CASE repeat
    <3>1. UserText({}) \in Message /\ ~ResultsOnly(UserText({})) /\ UserText({}).uses = {}
      BY TextTyped DEF Message
    <3>2. s \o more = Append(s, UserText({}))
      BY <1>6, <2>1, <3>1
    <3>3. /\ Begun(Append(s, UserText({})), aborted) /\ LastUses(Append(s, UserText({}))) = {}
          /\ Append(s, UserText({})) \in Seq(Message) /\ Append(s, UserText({})) # <<>>
      BY <1>6, <3>1, BegunAppend
    <3>4. \A q : Has(s, q) => Has(Append(s, UserText({})), q)
      BY <1>6, <3>1, HasAppend
    <3> HIDE DEF more
    <3> QED
      BY <3>2, <3>3, <3>4
  <2>2. CASE ~repeat
    <3>1. s \o more = s
      BY <1>6, <2>2
    <3> HIDE DEF more
    <3> QED
      BY <1>6, <3>1
  <2> QED
    BY <2>1, <2>2
<1> HIDE DEF more
<1>8. ASSUME NEW k \in Loops PROVE LoopTalks(msgs'[k], at'[k], Ids(k)', aborted')
  <2>1. CASE k \in gone
    <3>1. msgs'[k] = <<>> /\ at'[k] = "idle"
      BY <1>2, <2>1 DEF Drop
    <3> QED
      BY <3>1, FreshTalks
  <2>2. CASE k = l
    <3>1. msgs'[k] = s \o more /\ at'[k] = "top"
      BY <1>2, <1>3, <2>2, TalkTypes DEF Drop
    <3> QED
      BY <1>2, <1>7, <3>1 DEF LoopTalks
  <2>3. CASE k \notin gone /\ k # l
    <3>1. msgs'[k] = msgs[k] /\ at'[k] = at[k] /\ Ids(k)' = Ids(k)
      BY <1>2, <2>3, TalkTypes DEF Drop, Ids
    <3> QED
      BY <1>2, <3>1 DEF DialogueInv
  <2> QED
    BY <2>1, <2>2, <2>3
<1>9. ASSUME NEW k \in Keys
      PROVE  /\ CheckpointTalks(checkpoint'[k], aborted')
             /\ k = Key(l) => checkpoint'[k].msgs = s
             /\ k # Key(l) => checkpoint'[k] = checkpoint[k]
  <2>1. CASE k = Key(l)
    <3>1. checkpoint'[k].msgs = s
      BY <1>1, <2>1, TalkTypes
    <3>2. Dialogue(s, aborted)
      BY <1>6, BegunEnds
    <3> QED
      BY <1>2, <1>6, <2>1, <3>1, <3>2 DEF CheckpointTalks
  <2>2. CASE k # Key(l)
    <3>1. checkpoint'[k] = checkpoint[k]
      BY <1>1, <2>2, TalkTypes
    <3> QED
      BY <1>2, <2>2, <3>1 DEF DialogueInv
  <2> QED
    BY <2>1, <2>2
<1>10. DialogueInv'
  BY <1>8, <1>9 DEF DialogueInv
<1>11. AskedInv'
  <2>1. CASE org /\ l = Main
    <3>1. Has(s, turn)
      BY <1>1, <1>4, <1>5, <2>1, HasAppend DEF AskedInv
    <3>2. msgs'[Main] = s \o more
      BY <1>2, <1>3, <2>1
    <3>3. checkpoint'["org:run"].msgs = s
      BY <1>9, <2>1, TalkTypes DEF Key
    <3> QED
      BY <1>2, <1>7, <3>1, <3>2, <3>3 DEF AskedInv
  <2>2. CASE org /\ l # Main
    <3>1. checkpoint'["org:run"] = checkpoint["org:run"]
      BY <1>9, <2>2, TalkTypes DEF Key
    <3>2. msgs'[Main] = msgs[Main] /\ at'[Main] = at[Main]
      BY <1>2, <1>3, <2>2, TalkTypes DEF Drop
    <3> QED
      BY <1>2, <3>1, <3>2 DEF AskedInv
  <2>3. CASE ~org
    BY <1>2, <2>3 DEF AskedInv
  <2> QED
    BY <2>1, <2>2, <2>3
<1> QED
  BY <1>10, <1>11

LEMMA AbortTalks ==
    ASSUME IInv, DialogueInv, AskedInv, Abort
    PROVE  DialogueInv' /\ AskedInv'
<1> DEFINE gone == Orphans(Main)
<1>1. /\ Drop(gone, [at EXCEPT ![Main] = "aborted"])
      /\ msgs' = [l \in Loops |-> IF l = Main THEN msgs[l] ELSE <<>>]
      /\ aborted' = aborted \cup Ids(Main)
      /\ at[Main] \in {"top", "llm", "tools", "synth"}
      /\ UNCHANGED <<org, turn, checkpoint>>
  BY DEF Abort
<1>2. gone = {w \in Workers : serves[w] # NoCall}
  BY DEF Orphans
<1> HIDE DEF gone
<1>3. ASSUME NEW l \in Loops PROVE LoopTalks(msgs'[l], at'[l], Ids(l)', aborted')
  <2>1. CASE l = Main
    <3>1. msgs'[l] = msgs[l] /\ at'[l] = "aborted" /\ msgs[l] \in Seq(Message)
      BY <1>1, <1>2, <2>1, TalkTypes DEF Drop
    <3>2. LoopTalks(msgs[l], at[l], Ids(l), aborted)
      BY DEF DialogueInv
    <3>3. Begun(msgs[l], aborted')
      BY <1>1, <3>1, <3>2, BegunWider DEF LoopTalks
    <3>4. LastUses(msgs[l]) \subseteq aborted'
      BY <1>1, <2>1, <3>2 DEF LoopTalks
    <3> QED
      BY <3>1, <3>3, <3>4 DEF LoopTalks
  <2>2. CASE l # Main
    <3>1. l \in Workers
      BY <2>2 DEF Loops
    <3>2. l \notin gone => at[l] = "idle"
      BY <1>2, <3>1 DEF IInv, PlaceInv
    <3>3. msgs'[l] = <<>> /\ at'[l] = "idle"
      BY <1>1, <2>2, <3>2, TalkTypes DEF Drop
    <3> QED
      BY <3>3, FreshTalks
  <2> QED
    BY <2>1, <2>2
<1>4. ASSUME NEW k \in Keys PROVE CheckpointTalks(checkpoint'[k], aborted')
  BY <1>1, TalkTypes, BegunWider DEF DialogueInv, CheckpointTalks
<1>5. DialogueInv'
  BY <1>3, <1>4 DEF DialogueInv
<1>6. AskedInv'
  BY <1>1, TalkTypes DEF AskedInv
<1> QED
  BY <1>5, <1>6

LEMMA InitTalks == Init => DialogueInv /\ AskedInv
<1> SUFFICES ASSUME Init PROVE DialogueInv /\ AskedInv
  OBVIOUS
<1>1. \A l \in Loops : msgs[l] = <<>> /\ at[l] = "idle"
  BY DEF Init
<1>2. \A k \in Keys : checkpoint[k].by = "none"
  BY DEF Init, Keys, NoCheckpoint
<1>3. Main \in Loops /\ "org:run" \in Keys
  BY DEF Loops, Keys
<1> QED
  BY <1>1, <1>2, <1>3, FreshTalks DEF DialogueInv, CheckpointTalks, AskedInv

LEMMA NextTalks == TalkInv /\ [Next]_vars => TalkInv'
<1> SUFFICES ASSUME IInv, DialogueInv, AskedInv, [Next]_vars PROVE DialogueInv' /\ AskedInv'
  BY NextIInv DEF TalkInv
<1>1. CASE StartTurn
  BY <1>1, StartTurnTalks
<1>2. CASE ResumeTurn
  BY <1>2, ResumeTurnTalks
<1>3. CASE Abort
  BY <1>3, AbortTalks
<1>4. ASSUME NEW l \in Loops, Step(l) PROVE DialogueInv' /\ AskedInv'
  <2>1. CASE WallExhausted(l) \/ RoundsExhausted(l) \/ Ask(l)
    BY <2>1, SpeaksTalks
  <2>2. CASE Synthesized(l) \/ SeesCancel(l) \/ GivesUp(l) \/ Answers(l)
    BY <2>2, EndsTalks
  <2>3. ASSUME NEW n \in 1..CallsOf(l), CallsTools(l, n) PROVE DialogueInv' /\ AskedInv'
    BY <2>3, CallsToolsTalks
  <2>4. ASSUME NEW repeat \in BOOLEAN, ToolsDone(l, repeat) PROVE DialogueInv' /\ AskedInv'
    BY <2>4, CloseRoundTalks DEF ToolsDone
  <2>5. CASE ToolTimeout(l)
    BY <2>5, CloseRoundTalks DEF ToolTimeout
  <2> QED
    BY <1>4, <2>1, <2>2, <2>3, <2>4, <2>5 DEF Step
<1>5. ASSUME NEW id \in Ids(Main), Delegates(id) PROVE DialogueInv' /\ AskedInv'
  BY <1>5, DelegatesTalks
<1>6. ASSUME NEW id \in Ids(Main), NEW good \in BOOLEAN, WorkersReturn(id, good) PROVE DialogueInv' /\ AskedInv'
  BY <1>6, WorkersReturnTalks
<1>7. CASE \/ Leave
           \/ \E w \in Workers : NextWorker(w)
           \/ \E l \in Loops : \E id \in Ids(l) : Call(l, id)
           \/ UNCHANGED vars
  BY <1>7, QuietSteps
<1> QED
  BY <1>1, <1>2, <1>3, <1>4, <1>5, <1>6, <1>7 DEF Next

(* At every state the session of a loop is a dialogue but for the round it   *)
(* runs, checkpoints are dialogues, and Main has the question.               *)
THEOREM Conversations == Spec => []TalkInv
<1>1. Init => TalkInv
  BY InitIInv, InitTalks DEF TalkInv
<1> QED
  BY <1>1, NextTalks, PTL DEF Spec
----------------------------------------------------------------------------
(* What is sent is the window, and one or two texts after it that end the     *)
(* dialogue as well.                                                         *)
LEMMA RequestTalks ==
    ASSUME TalkInv, NEW l \in Loops, Waits(l)
    PROVE  /\ Dialogue(Request(l), aborted)
           /\ /\ shape.cm.max > KeepRecent + 2 /\ shape.cm.after < shape.cm.max
              /\ Has(msgs[l], turn) /\ Cardinality(Since(msgs[l], turn)) <= MaxVisible
              => Has(Request(l), turn)
<1>1. msgs[l] \in Seq(Message) /\ Dialogue(msgs[l], aborted)
  <2>1. msgs[l] \in Seq(Message) /\ LoopTalks(msgs[l], at[l], Ids(l), aborted) /\ at[l] # "tools"
    BY TalkTypes DEF TalkInv, DialogueInv, Waits
  <2> QED
    BY <2>1, BegunEnds DEF LoopTalks
<1>2. shape.cm.max \in Nat \ {0, 1} /\ shape.cm.after \in Nat \ {0}
  <2>1. shape \in Shapes
    BY DEF TalkInv, IInv, LoopTypes
  <2> QED
    BY <2>1, LoopAssumption
<1> DEFINE asks == /\ shape.cm.max > KeepRecent + 2 /\ shape.cm.after < shape.cm.max
                   /\ Has(msgs[l], turn) /\ Cardinality(Since(msgs[l], turn)) <= MaxVisible
           Good(s) == s \in Seq(Message) /\ Dialogue(s, aborted) /\ (asks => Has(s, turn))
<1>3. ASSUME NEW pins PROVE Good(ProcessMessages(shape.cm, msgs[l], pins))
  BY <1>1, <1>2, Processed DEF Message
<1> HIDE DEF asks
<1>4. ASSUME NEW s, Good(s) PROVE Good(s \o <<UserText({})>>) /\ Good(s \o <<>>)
  <2>1. /\ UserText({}) \in Message /\ ~ResultsOnly(UserText({})) /\ UserText({}).uses = {}
        /\ UserText({}).by = "user"
    BY TextTyped DEF Message
  <2>2. Begun(s, aborted) /\ LastUses(s) \subseteq aborted
    BY <1>4, BegunEnds
  <2>3. PICK t : t = Append(s, UserText({}))
    OBVIOUS
  <2>4. Begun(t, aborted) /\ LastUses(t) = {} /\ t \in Seq(Message)
    BY <1>4, <2>1, <2>2, <2>3, BegunAppend
  <2>5. Dialogue(t, aborted)
    BY <2>4, BegunEnds
  <2>6. asks => Has(t, turn)
    BY <1>4, <2>1, <2>3, HasAppend
  <2>7. s \o <<UserText({})>> = t /\ s \o <<>> = s
    BY <1>4, <2>1, <2>3
  <2> QED
    BY Zenon, <1>4, <2>4, <2>5, <2>6, <2>7
<1>5. Good(Request(l))
  <2>1. CASE at[l] = "synth"
    BY <1>3, <2>1 DEF Request
  <2>2. CASE at[l] # "synth"
    <3> DEFINE w == ProcessMessages(shape.cm, msgs[l], ToSet(pinned[l]))
               x == w \o (IF pinned[l] = <<>> THEN <<>> ELSE <<UserText({})>>)
               y == x \o (IF step[l] = RoundsOf(l) THEN <<UserText({})>> ELSE <<>>)
    <3>1. Request(l) = y
      BY <2>2 DEF Request
    <3>2. Good(w)
      BY <1>3
    <3> HIDE DEF w, Good
    <3>3. Good(x)
      BY <1>4, <3>2
    <3> HIDE DEF x
    <3>4. Good(y)
      BY <1>4, <3>3
    <3> QED
      BY <3>1, <3>4
  <2> QED
    BY <2>1, <2>2
<1> QED
  BY <1>5 DEF asks

(* Whatever the rounds, the workers, the timeouts and the aborts were, the    *)
(* model is never sent results without the call they answer, or a call that  *)
(* nothing answers, but where an abort cut its round off                     *)
(* (context_manager.py:34 process_messages over every session of run.py).    *)
THEOREM RequestsAreWellFormed == Spec => []RequestWellFormed
<1>1. TalkInv => RequestWellFormed
  BY RequestTalks DEF RequestWellFormed, WellFormed, Dialogue, Chained
<1> QED
  BY <1>1, Conversations, PTL

(* The question being answered is sent, in its own message or in the summary, *)
(* also after a resume, for as long as the summary has lines for what was     *)
(* said since (context_manager.py:263).                                      *)
THEOREM QuestionsAreSent == Spec => []QuestionIsSent
<1>1. ASSUME TalkInv, org, Waits(Main), shape.cm.max > KeepRecent + 2, shape.cm.after < shape.cm.max,
             Said(msgs[Main]) <= MaxVisible
      PROVE  \E m \in ToSet(Request(Main)) : turn \in m.asks
  <2>1. Has(msgs[Main], turn) /\ Main \in Loops
    BY <1>1 DEF TalkInv, AskedInv, Waits, Loops
  <2>2. Said(msgs[Main]) = Cardinality(Since(msgs[Main], turn))
    BY DEF Said, Since
  <2>3. Has(Request(Main), turn)
    BY <1>1, <2>1, <2>2, RequestTalks
  <2> QED
    BY <2>3 DEF Has, Asks, ToSet
<1>2. TalkInv => QuestionIsSent
  BY <1>1 DEF QuestionIsSent
<1> QED
  BY <1>2, Conversations, PTL
----------------------------------------------------------------------------
(* What a client is shown: TurnStream. A step of a stream does one of the    *)
(* things below to what is announced, counted and billed.                    *)

(* What TurnStream takes from FiniteSets is FiniteSets. *)
LEMMA ShownSets == \A S : Shown!Cardinality(S) = Cardinality(S)
BY DEF Shown!Cardinality, Cardinality

LEMMA FirstFinite == ASSUME NEW n \in Nat PROVE IsFiniteSet(1..n)
<1>1. 1 \in Int /\ n \in Int
  OBVIOUS
<1> QED  BY <1>1, FS_Interval

(* A text has finitely many calls. *)
LEMMA SpansFinite ==
    ASSUME NEW S, NEW s \in Seq(S)
    PROVE  IsFiniteSet(Shown!Spans(s)) /\ Shown!Cardinality(Shown!Spans(s)) \in Nat
<1>1. Shown!Spans(s) \in SUBSET SUBSET DOMAIN s
  BY DEF Shown!Spans
<1>2. IsFiniteSet(SUBSET DOMAIN s)
  <2>1. DOMAIN s = 1..Len(s) /\ Len(s) \in Nat
    OBVIOUS
  <2>2. IsFiniteSet(DOMAIN s)
    BY <2>1, FirstFinite
  <2> QED  BY <2>2, FS_SUBSET
<1>3. IsFiniteSet(Shown!Spans(s))
  BY <1>1, <1>2, FS_Subset
<1> QED  BY <1>3, FS_CardinalityType, ShownSets

\* The types that the steps need of one another.
Pieces == {"p"} \cup scene.texts
StreamFields ==
    {"pc", "round", "attempt", "got", "text", "held", "native", "blocks", "block", "reports", "failed",
     "shown", "open", "calls"}
EventFields ==
    {"started", "live", "suppressed", "tools", "reported", "estimated", "unnamed", "ended", "completed"}
StreamOK(s) ==
    /\ DOMAIN s = StreamFields
    /\ s.pc \in {"call", "stream", "tools", "done"} /\ s.reports \in Nat
    /\ s.pc = "call" => s.native = {} /\ s.reports = 0
    /\ s.text \in Seq(Pieces) /\ IsFiniteSet(s.native)
EventsOK(e) ==
    /\ DOMAIN e = EventFields
    /\ e.tools \in Nat /\ e.reported \in Nat /\ e.estimated \in Nat /\ IsFiniteSet(e.started)
BillOK(b) == b \in [paid : Nat, told : Nat, chunks : Nat, lost : BOOLEAN]
ShownTypes ==
    /\ scene \in StreamScenes
    /\ DOMAIN stream = scene.streams
    /\ \A l \in scene.streams : StreamOK(stream[l])
    /\ EventsOK(sse) /\ BillOK(billed)

\* Only the stream l moves, to s, and what is counted stays well typed.
Advances(l, s) ==
    /\ scene' = scene /\ stream' = [stream EXCEPT ![l] = s]
    /\ StreamOK(s) /\ EventsOK(sse') /\ BillOK(billed') /\ texted \subseteq texted'
ScopedIds(l, K) == {Shown!Scoped(l, k) : k \in K}
SameCall(l, s) == s.round = stream[l].round /\ s.attempt = stream[l].attempt
SameUse == sse'.reported = sse.reported /\ sse'.estimated = sse.estimated /\ billed' = billed
SamePairs == sse'.ended = sse.ended /\ sse'.unnamed = sse.unnamed
Starts(ids) ==
    /\ SamePairs /\ sse'.started = sse.started \cup ids /\ sse'.live = sse.live \cup ids
    /\ sse'.tools = sse.tools + Cardinality(ids \ sse.started)

\* A call of the model begins.
Connects(l, s) ==
    /\ stream[l].pc = "call" /\ s.pc = "stream" /\ s.reports = 0 /\ s.native = {} /\ UNCHANGED <<sse, given, billed>>
\* More of its answer comes, and perhaps announces calls of tools.
Announces(l, s) ==
    /\ stream[l].pc = "stream" /\ s.pc = "stream" /\ s.reports = stream[l].reports /\ SameCall(l, s)
    /\ \E K : s.native = stream[l].native \cup K /\ Starts(ScopedIds(l, K))
    /\ SameUse /\ UNCHANGED given
\* The provider says what the call used.
Tells(l, s) ==
    /\ stream[l].pc = "stream" /\ s.pc = "stream" /\ s.reports > 0
    /\ s.native = stream[l].native /\ SameCall(l, s)
    /\ Starts({}) /\ sse'.reported = sse.reported + 1 /\ sse'.estimated = sse.estimated
    /\ billed'.chunks = billed.chunks + 1 /\ billed'.paid = billed.paid
    /\ billed'.told = billed.told /\ billed'.lost = billed.lost
    /\ UNCHANGED given
\* A round is billed, with a report or with an estimate.
Bills(l, s, one) ==
    /\ sse'.estimated = IF sse'.reported > 0 THEN sse.estimated ELSE sse.estimated + 1
    /\ billed'.paid = billed.paid + 1 /\ billed'.told = billed.told + one
    /\ billed'.chunks = billed.chunks /\ billed'.lost = billed.lost
\* The call with this id is one of the stream l, sent by the provider or found
\* in the text.
Owned(l, id) ==
    /\ id[1] = Shown!Prefix(l)
    /\ \/ id[2] = "id" /\ id[3][1] = l
       \/ id[2] = "tool_" /\ \E n : <<l, n>> \in texted
\* The answer is whole.
Closes(l, s) ==
    /\ stream[l].pc = "stream" /\ s.pc \in {"tools", "done"}
    /\ ScopedIds(l, stream[l].native) \subseteq s.calls /\ Starts(s.calls)
    /\ s.pc = "done" => s.calls = {}
    /\ scene.ids => \A id \in s.calls : Owned(l, id)'
    /\ \E one \in {0, 1} : /\ Bills(l, s, one) /\ sse'.reported = sse.reported + one
                           /\ stream[l].reports > 0 => one = 1
    /\ UNCHANGED given
\* It breaks off, and is asked for again or given up.
BreaksOff(l, s) ==
    /\ stream[l].pc \in {"call", "stream"}
    /\ given' = given \cup ScopedIds(l, stream[l].native) /\ Starts({})
    /\ sse'.reported = sse.reported
    /\ \/ s.pc = "call" /\ sse'.estimated = sse.estimated
          /\ billed'.lost = (billed.lost \/ stream[l].reports > 0) /\ billed'.paid = billed.paid
          /\ billed'.told = billed.told /\ billed'.chunks = billed.chunks
       \/ s.pc = "done" /\ Bills(l, s, IF stream[l].reports > 0 THEN 1 ELSE 0)
\* The tools of the round have their results.
Returns(l, s) ==
    /\ stream[l].pc = "tools" /\ s.pc \in {"call", "done"}
    /\ sse'.started = sse.started /\ sse'.tools = sse.tools /\ sse'.live = sse.live \ stream[l].calls
    /\ sse'.ended = sse.ended \cup stream[l].calls
    /\ sse'.unnamed = sse.unnamed \cup (stream[l].calls \ sse.live)
    /\ SameUse /\ UNCHANGED given

Does(l, s) ==
    /\ Advances(l, s)
    /\ Connects(l, s) \/ Announces(l, s) \/ Tells(l, s) \/ Closes(l, s) \/ BreaksOff(l, s) \/ Returns(l, s)

(* A stream that begins is well typed. *)
LEMMA NewStreamOK ==
    \A r, a : \A pc \in {"call", "stream", "tools", "done"} :
        /\ StreamOK(Shown!NewStream(r, a, pc))
        /\ Shown!NewStream(r, a, pc).pc = pc
        /\ Shown!NewStream(r, a, pc).round = r /\ Shown!NewStream(r, a, pc).attempt = a
        /\ Shown!NewStream(r, a, pc).native = {} /\ Shown!NewStream(r, a, pc).calls = {}
        /\ Shown!NewStream(r, a, pc).reports = 0
BY FS_EmptySet DEF Shown!NewStream, StreamOK, StreamFields

(* Text does not change what else there is of a call. *)
LEMMA EmitOK ==
    ASSUME NEW s, StreamOK(s), NEW t \in Pieces
    PROVE  LET e == Shown!Emit(s, t)
           IN  /\ StreamOK(e) /\ e.pc = s.pc /\ e.round = s.round /\ e.attempt = s.attempt
               /\ e.native = s.native /\ e.reports = s.reports
<1> DEFINE e == Shown!Emit(s, t)
<1>1. DOMAIN e = StreamFields
  BY DEF Shown!Emit, StreamOK
<1>2. /\ e.pc = s.pc /\ e.round = s.round /\ e.attempt = s.attempt
      /\ e.native = s.native /\ e.reports = s.reports /\ e.text = Append(s.text, t)
  BY DEF Shown!Emit, StreamOK, StreamFields
<1> QED  BY <1>1, <1>2 DEF StreamOK

(* A step that starts nothing counts nothing. *)
LEMMA StartsNothing ==
    ASSUME EventsOK(sse), SamePairs, sse'.started = sse.started, sse'.live = sse.live, sse'.tools = sse.tools
    PROVE  Starts({})
BY FS_EmptySet DEF Starts, EventsOK

LEMMA NoIds == \A l : ScopedIds(l, {}) = {}
BY DEF ScopedIds

(* The steps of a call that goes on. *)
LEMMA ConnectDoes ==
    ASSUME ShownTypes, NEW l \in scene.streams, Shown!Connect(l)
    PROVE  \E s : Does(l, s)
<1> DEFINE s == Shown!NewStream(stream[l].round, stream[l].attempt, "stream")
<1>1. StreamOK(s) /\ s.pc = "stream" /\ s.native = {} /\ s.reports = 0
  BY NewStreamOK
<1>2. stream' = [stream EXCEPT ![l] = s] /\ stream[l].pc = "call" /\ UNCHANGED <<scene, sse, given, texted, billed>>
  BY DEF Shown!Connect, Shown!Set
<1> HIDE DEF s
<1>3. Does(l, s)
  BY <1>1, <1>2 DEF Does, Advances, Connects, ShownTypes
<1> QED  BY <1>3

LEMMA NothingNew ==
    ASSUME ShownTypes, NEW l \in scene.streams, NEW s, StreamOK(s), stream' = [stream EXCEPT ![l] = s],
           stream[l].pc = "stream", s.pc = "stream", s.reports = stream[l].reports, s.native = stream[l].native,
           SameCall(l, s), sse' = sse, UNCHANGED <<scene, given, texted, billed>>
    PROVE  Does(l, s)
<1>1. Starts(ScopedIds(l, {})) /\ s.native = stream[l].native \cup {}
  BY StartsNothing, NoIds DEF ShownTypes, SamePairs
<1>2. Announces(l, s)
  BY <1>1 DEF Announces, SameUse
<1> QED  BY <1>2 DEF Does, Advances, ShownTypes

LEMMA TextDoes ==
    ASSUME ShownTypes, NEW l \in scene.streams,
           Shown!Reasoning(l) \/ \E t \in scene.texts : Shown!Text(l, t)
    PROVE  \E s : Does(l, s)
<1>1. StreamOK(stream[l])
  BY DEF ShownTypes
<1>2. ASSUME NEW t \in Pieces, Shown!Set(l, Shown!Emit(stream[l], t)), stream[l].pc = "stream",
             UNCHANGED <<scene, sse, given, texted, billed>>
      PROVE  \E s : Does(l, s)
  <2> DEFINE s == Shown!Emit(stream[l], t)
  <2>1. stream' = [stream EXCEPT ![l] = s]
    BY <1>2 DEF Shown!Set
  <2>2. StreamOK(s) /\ s.pc = "stream" /\ SameCall(l, s) /\ s.native = stream[l].native /\ s.reports = stream[l].reports
    BY <1>1, <1>2, EmitOK DEF SameCall
  <2> HIDE DEF s
  <2>3. Does(l, s)
    BY <1>2, <2>1, <2>2, NothingNew
  <2> QED  BY <2>3
<1>3. CASE \E t \in scene.texts : Shown!Text(l, t)
  BY <1>2, <1>3 DEF Shown!Text, Shown!Receives, Pieces
<1>4. CASE Shown!Reasoning(l)
  <2>1. stream[l].pc = "stream" /\ UNCHANGED <<scene, sse, given, texted, billed>>
    BY <1>4 DEF Shown!Reasoning, Shown!Receives
  <2>2. CASE Shown!Set(l, Shown!Emit(stream[l], "p"))
    BY <1>2, <2>1, <2>2 DEF Pieces
  <2>3. CASE ~Shown!Set(l, Shown!Emit(stream[l], "p"))
    <3> DEFINE s == [stream[l] EXCEPT !.got = @ + 1, !.blocks.think = "open", !.open = {0}]
    <3>1. stream' = [stream EXCEPT ![l] = s]
      BY <1>4, <2>3 DEF Shown!Reasoning, Shown!Set
    <3>2. StreamOK(s) /\ s.pc = "stream" /\ SameCall(l, s) /\ s.native = stream[l].native /\ s.reports = stream[l].reports
      BY <1>1, <2>1 DEF StreamOK, StreamFields, SameCall
    <3> HIDE DEF s
    <3>3. Does(l, s)
      BY <2>1, <3>1, <3>2, NothingNew
    <3> QED  BY <3>3
  <2> QED  BY <2>2, <2>3
<1> QED  BY <1>3, <1>4

(* What Started, and what is done before it to the counts, leaves as it is.  *)
LEMMA StartedOK ==
    ASSUME NEW e, EventsOK(e), NEW ids, IsFiniteSet(ids)
    PROVE  LET f == Shown!Started(e, ids)
           IN  /\ EventsOK(f) /\ f.started = e.started \cup ids /\ f.live = e.live \cup ids
               /\ f.tools = e.tools + Cardinality(ids \ e.started)
               /\ f.ended = e.ended /\ f.unnamed = e.unnamed
               /\ f.reported = e.reported /\ f.estimated = e.estimated
<1> DEFINE f == Shown!Started(e, ids)
<1>1. DOMAIN f = EventFields
  BY DEF Shown!Started, EventsOK
<1>2. /\ f.started = e.started \cup ids /\ f.live = e.live \cup ids
      /\ f.tools = e.tools + Shown!Cardinality(ids \ e.started)
      /\ f.ended = e.ended /\ f.unnamed = e.unnamed
      /\ f.reported = e.reported /\ f.estimated = e.estimated
  BY DEF Shown!Started, EventsOK, EventFields
<1>3. IsFiniteSet(e.started \cup ids)
  BY FS_Union DEF EventsOK
<1>4. Cardinality(ids \ e.started) \in Nat
  BY FS_Subset, FS_CardinalityType
<1> HIDE DEF f
<1>5. f.tools = e.tools + Cardinality(ids \ e.started)
  BY <1>2, ShownSets
<1>6. EventsOK(f)
  BY <1>1, <1>2, <1>3, <1>4, <1>5 DEF EventsOK
<1> QED  BY <1>2, <1>5, <1>6 DEF f

(* Finitely many calls have finitely many ids. *)
LEMMA IdsFinite ==
    ASSUME NEW l, NEW K, IsFiniteSet(K)
    PROVE  IsFiniteSet(ScopedIds(l, K))
<1> DEFINE f == [k \in K |-> Shown!Scoped(l, k)]
<1>1. f \in Surjection(K, ScopedIds(l, K))
  BY DEF Surjection, ScopedIds
<1> QED  BY <1>1, FS_Surjection

LEMMA OneId == \A l, k : ScopedIds(l, {k}) = {Shown!Scoped(l, k)}
BY DEF ScopedIds

(* A tool call in the answer. *)
LEMMA NamesOne ==
    ASSUME ShownTypes, NEW l \in scene.streams, NEW s, StreamOK(s), stream' = [stream EXCEPT ![l] = s],
           stream[l].pc = "stream", s.pc = "stream", s.reports = stream[l].reports, SameCall(l, s),
           NEW k, s.native = stream[l].native \cup {k},
           EventsOK(sse'), SamePairs, sse'.reported = sse.reported, sse'.estimated = sse.estimated,
           sse'.started = sse.started \cup {Shown!Scoped(l, k)}, sse'.live = sse.live \cup {Shown!Scoped(l, k)},
           sse'.tools = sse.tools + Cardinality({Shown!Scoped(l, k)} \ sse.started),
           UNCHANGED <<scene, given, texted, billed>>
    PROVE  Does(l, s)
<1>1. Starts(ScopedIds(l, {k}))
  BY OneId DEF Starts
<1>2. Announces(l, s)
  BY <1>1 DEF Announces, SameUse
<1> QED  BY <1>2 DEF Does, Advances, ShownTypes

LEMMA NativeCallDoes ==
    ASSUME ShownTypes, NEW l \in scene.streams, NEW k, Shown!NativeCall(l, k)
    PROVE  \E s : Does(l, s)
<1> DEFINE s == [stream[l] EXCEPT !.got = @ + 1, !.native = @ \cup {k}]
           id == Shown!Scoped(l, k)
<1>1. stream' = [stream EXCEPT ![l] = s] /\ stream[l].pc = "stream" /\ UNCHANGED <<scene, given, texted, billed>>
  BY DEF Shown!NativeCall, Shown!Set, Shown!Receives
<1>2. sse' = IF k \in stream[l].native THEN sse ELSE Shown!Started(sse, {id})
  BY DEF Shown!NativeCall
<1>3. StreamOK(stream[l]) /\ EventsOK(sse)
  BY DEF ShownTypes
<1>4. /\ DOMAIN s = StreamFields /\ s.pc = "stream" /\ s.reports = stream[l].reports /\ SameCall(l, s)
      /\ s.native = stream[l].native \cup {k} /\ s.text = stream[l].text
  BY <1>1, <1>3 DEF StreamOK, StreamFields, SameCall
<1>5. StreamOK(s)
  <2>1. IsFiniteSet(stream[l].native \cup {k})
    BY <1>3, FS_AddElement DEF StreamOK
  <2> HIDE DEF s
  <2> QED  BY <1>3, <1>4, <2>1 DEF StreamOK
<1> HIDE DEF s, id
<1>6. CASE k \in stream[l].native
  <2>1. s.native = stream[l].native /\ sse' = sse
    BY <1>2, <1>4, <1>6
  <2>2. Does(l, s)
    BY <1>1, <1>4, <1>5, <2>1, NothingNew
  <2> QED  BY <2>2
<1>7. CASE k \notin stream[l].native
  <2>1. IsFiniteSet({id})
    BY FS_Singleton
  <2>2. /\ EventsOK(sse') /\ SamePairs /\ sse'.reported = sse.reported /\ sse'.estimated = sse.estimated
        /\ sse'.started = sse.started \cup {id} /\ sse'.live = sse.live \cup {id}
        /\ sse'.tools = sse.tools + Cardinality({id} \ sse.started)
    BY <1>2, <1>3, <1>7, <2>1, StartedOK DEF SamePairs
  <2>3. Does(l, s)
    BY <1>1, <1>4, <1>5, <2>2, NamesOne DEF id
  <2> QED  BY <2>3
<1> QED  BY <1>6, <1>7

LEMMA UsageDoes ==
    ASSUME ShownTypes, NEW l \in scene.streams, Shown!UsageChunk(l)
    PROVE  \E s : Does(l, s)
<1> DEFINE s == [stream[l] EXCEPT !.reports = @ + 1]
<1>1. /\ stream' = [stream EXCEPT ![l] = s] /\ stream[l].pc = "stream"
      /\ sse' = [sse EXCEPT !.reported = @ + 1] /\ billed' = [billed EXCEPT !.chunks = @ + 1]
      /\ UNCHANGED <<scene, given, texted>>
  BY DEF Shown!UsageChunk, Shown!Set, Shown!Reported
<1>2. StreamOK(s) /\ s.pc = "stream" /\ s.reports > 0 /\ s.native = stream[l].native /\ SameCall(l, s)
  BY <1>1 DEF ShownTypes, StreamOK, StreamFields, SameCall
<1>3. /\ EventsOK(sse') /\ SamePairs /\ sse'.started = sse.started /\ sse'.live = sse.live /\ sse'.tools = sse.tools
      /\ sse'.reported = sse.reported + 1 /\ sse'.estimated = sse.estimated
  BY <1>1 DEF ShownTypes, EventsOK, EventFields, SamePairs
<1> HIDE DEF s
<1>4. Starts({})
  BY <1>3, StartsNothing DEF ShownTypes
<1>5. /\ BillOK(billed') /\ billed'.chunks = billed.chunks + 1 /\ billed'.paid = billed.paid
      /\ billed'.told = billed.told /\ billed'.lost = billed.lost
  BY <1>1 DEF ShownTypes, BillOK
<1>6. Does(l, s)
  BY <1>1, <1>2, <1>3, <1>4, <1>5 DEF Does, Advances, Tells
<1> QED  BY <1>6

(* The blocks of an anthropic stream. *)
LEMMA BlockDoes ==
    ASSUME ShownTypes, NEW l \in scene.streams, Shown!BlockDelta(l) \/ Shown!CloseBlock(l)
    PROVE  \E s : Does(l, s)
<1>1. StreamOK(stream[l]) /\ EventsOK(sse)
  BY DEF ShownTypes
<1>2. CASE Shown!BlockDelta(l)
  <2> DEFINE s == [stream[l] EXCEPT !.got = @ + 1, !.text = Append(@, "p"),
                      !.shown = IF Shown!Passes(stream[l].block.index) THEN Append(@, "p") ELSE @]
  <2>1. stream' = [stream EXCEPT ![l] = s] /\ stream[l].pc = "stream" /\ UNCHANGED <<scene, sse, given, texted, billed>>
    BY <1>2 DEF Shown!BlockDelta, Shown!Receives, Shown!Set
  <2>2. /\ DOMAIN s = StreamFields /\ s.pc = "stream" /\ SameCall(l, s) /\ s.native = stream[l].native
        /\ s.reports = stream[l].reports /\ s.text = Append(stream[l].text, "p")
    BY <1>1, <2>1 DEF StreamOK, StreamFields, SameCall
  <2> HIDE DEF s
  <2>3. StreamOK(s)
    BY <1>1, <2>2 DEF StreamOK, Pieces
  <2>4. Does(l, s)
    BY <2>1, <2>2, <2>3, NothingNew
  <2> QED  BY <2>4
<1>3. CASE Shown!CloseBlock(l)
  <2>1. PICK s : /\ Shown!Set(l, s)
                 /\ s \in {[stream[l] EXCEPT !.block.kind = "closed"],
                           [[stream[l] EXCEPT !.block.kind = "closed"] EXCEPT !.open = @ \ {stream[l].block.index}]}
    BY <1>3 DEF Shown!CloseBlock
  <2>2. stream' = [stream EXCEPT ![l] = s] /\ stream[l].pc = "stream" /\ UNCHANGED <<scene, given, texted, billed>>
    BY <1>3, <2>1 DEF Shown!CloseBlock, Shown!Set
  <2>3. StreamOK(s) /\ s.pc = "stream" /\ SameCall(l, s) /\ s.native = stream[l].native /\ s.reports = stream[l].reports
    BY <1>1, <2>1, <2>2 DEF StreamOK, StreamFields, SameCall
  <2>4. /\ EventsOK(sse') /\ SamePairs /\ sse'.started = sse.started /\ sse'.live = sse.live /\ sse'.tools = sse.tools
        /\ sse'.reported = sse.reported /\ sse'.estimated = sse.estimated
    BY <1>1, <1>3 DEF Shown!CloseBlock, EventsOK, EventFields, SamePairs
  <2>5. Starts(ScopedIds(l, {})) /\ s.native = stream[l].native \cup {}
    BY <1>1, <2>3, <2>4, StartsNothing, NoIds
  <2>6. Announces(l, s)
    BY <2>2, <2>3, <2>4, <2>5 DEF Announces, SameUse
  <2>7. Does(l, s)
    BY <2>2, <2>3, <2>4, <2>6 DEF Does, Advances, ShownTypes
  <2> QED  BY <2>7
<1> QED  BY <1>2, <1>3

LEMMA OpenBlockDoes ==
    ASSUME ShownTypes, NEW l \in scene.streams, NEW kind, Shown!OpenBlock(l, kind)
    PROVE  \E s : Does(l, s)
<1> DEFINE i == IF stream[l].block.kind = "none" THEN 0 ELSE stream[l].block.index + 1
           r == [stream[l] EXCEPT !.got = @ + 1, !.block = [kind |-> kind, index |-> i]]
           id == Shown!Scoped(l, i)
<1>1. StreamOK(stream[l]) /\ EventsOK(sse)
  BY DEF ShownTypes
<1>2. stream[l].pc = "stream" /\ UNCHANGED <<scene, given, texted, billed>>
  BY DEF Shown!OpenBlock, Shown!Receives
<1>3. /\ DOMAIN r = StreamFields /\ r.pc = "stream" /\ r.reports = stream[l].reports /\ SameCall(l, r)
      /\ r.native = stream[l].native /\ r.text = stream[l].text
  BY <1>1, <1>2 DEF StreamOK, StreamFields, SameCall
<1>4. StreamOK(r)
  BY <1>1, <1>3 DEF StreamOK
<1>5. CASE kind = "tool"
  <2> DEFINE s == [r EXCEPT !.native = @ \cup {i}]
             e == Shown!Started(sse, {id})
  <2>1. stream' = [stream EXCEPT ![l] = s] /\ sse' = [e EXCEPT !.suppressed = @ \cup {i}]
    BY <1>5 DEF Shown!OpenBlock, Shown!Set
  <2> HIDE DEF i, r
  <2>2. /\ DOMAIN s = StreamFields /\ s.pc = "stream" /\ s.reports = stream[l].reports /\ SameCall(l, s)
        /\ s.native = stream[l].native \cup {i} /\ s.text = stream[l].text
    BY <1>3 DEF StreamFields, SameCall
  <2> HIDE DEF s, id
  <2>3. IsFiniteSet(stream[l].native \cup {i}) /\ IsFiniteSet({id})
    BY <1>1, FS_AddElement, FS_Singleton DEF StreamOK
  <2>4. StreamOK(s)
    BY <1>1, <2>2, <2>3 DEF StreamOK
  <2>5. /\ EventsOK(e) /\ e.started = sse.started \cup {id} /\ e.live = sse.live \cup {id}
        /\ e.tools = sse.tools + Cardinality({id} \ sse.started)
        /\ e.ended = sse.ended /\ e.unnamed = sse.unnamed /\ e.reported = sse.reported /\ e.estimated = sse.estimated
    BY <1>1, <2>3, StartedOK
  <2> HIDE DEF e
  <2>6. /\ EventsOK(sse') /\ SamePairs /\ sse'.reported = sse.reported /\ sse'.estimated = sse.estimated
        /\ sse'.started = sse.started \cup {id} /\ sse'.live = sse.live \cup {id}
        /\ sse'.tools = sse.tools + Cardinality({id} \ sse.started)
    BY <2>1, <2>5 DEF EventsOK, EventFields, SamePairs
  <2>7. Does(l, s)
    BY <1>2, <2>1, <2>2, <2>4, <2>6, NamesOne DEF id
  <2> QED  BY <2>7
<1>6. CASE kind # "tool"
  <2> DEFINE s == [r EXCEPT !.open = @ \cup {i}]
  <2>1. stream' = [stream EXCEPT ![l] = s] /\ sse' = sse
    BY <1>6 DEF Shown!OpenBlock, Shown!Set
  <2> HIDE DEF i, r
  <2>2. StreamOK(s) /\ s.pc = "stream" /\ s.reports = stream[l].reports /\ SameCall(l, s) /\ s.native = stream[l].native
    BY <1>3, <1>4 DEF StreamOK, StreamFields, SameCall
  <2> HIDE DEF s
  <2>3. Does(l, s)
    BY <1>2, <2>1, <2>2, NothingNew
  <2> QED  BY <2>3
<1> QED  BY <1>5, <1>6

(* The calls of a whole answer are finitely many, those announced among them. *)
LEMMA CalledOK ==
    ASSUME ShownTypes, NEW l \in scene.streams
    PROVE  /\ IsFiniteSet(Shown!Called(l)) /\ ScopedIds(l, stream[l].native) \subseteq Shown!Called(l)
           /\ scene.ids => \A id \in Shown!Called(l) :
                  /\ id[1] = Shown!Prefix(l)
                  /\ \/ id[2] = "id" /\ id[3][1] = l
                     \/ id[2] = "tool_" /\ Shown!Searched(l)
<1>1. stream[l].text \in Seq(Pieces) /\ IsFiniteSet(stream[l].native)
  BY DEF ShownTypes, StreamOK
<1>2. CASE Shown!Searched(l)
  <2> DEFINE n == Shown!Cardinality(Shown!Spans(stream[l].text))
             T == {Shown!Numbered(l, k) : k \in 1..n}
             f == [k \in 1..n |-> Shown!Numbered(l, k)]
  <2>1. Shown!Called(l) = T
    BY <1>2 DEF Shown!Called
  <2>2. n \in Nat
    BY <1>1, SpansFinite
  <2>3. ScopedIds(l, stream[l].native) = {}
    BY <1>2, NoIds DEF Shown!Searched
  <2> HIDE DEF n
  <2>4. IsFiniteSet(1..n) /\ f \in Surjection(1..n, T)
    BY <2>2, FirstFinite DEF Surjection
  <2>5. IsFiniteSet(T)
    BY <2>4, FS_Surjection
  <2>6. \A id \in T : id[1] = Shown!Prefix(l) /\ id[2] = "tool_"
    BY DEF Shown!Numbered
  <2> HIDE DEF T
  <2> QED  BY <1>2, <2>1, <2>3, <2>5, <2>6
<1>3. CASE ~Shown!Searched(l)
  <2>1. Shown!Called(l) = ScopedIds(l, stream[l].native)
    BY <1>3 DEF Shown!Called, ScopedIds
  <2>2. scene.ids => \A id \in ScopedIds(l, stream[l].native) : id[1] = Shown!Prefix(l) /\ id[2] = "id" /\ id[3][1] = l
    BY DEF ScopedIds, Shown!Scoped
  <2> QED  BY <1>1, <2>1, <2>2, IdsFinite
<1> QED  BY <1>2, <1>3

(* The end of an answer: its calls are started and the round is billed. *)
LEMMA EndedOK ==
    ASSUME ShownTypes, NEW l \in scene.streams, NEW s, StreamOK(s), NEW e, EventsOK(e),
           NEW ids, IsFiniteSet(ids), Shown!Ended(l, s, e, ids), UNCHANGED scene, texted \subseteq texted'
    PROVE  \E t : /\ Advances(l, t) /\ t.pc = (IF ids # {} THEN "tools" ELSE "done") /\ t.calls = ids
                  /\ sse'.started = e.started \cup ids /\ sse'.live = e.live \cup ids
                  /\ sse'.tools = e.tools + Cardinality(ids \ e.started)
                  /\ sse'.ended = e.ended /\ sse'.unnamed = e.unnamed /\ sse'.reported = e.reported
                  /\ sse'.estimated = IF e.reported > 0 THEN e.estimated ELSE e.estimated + 1
                  /\ billed'.paid = billed.paid + 1 /\ billed'.chunks = billed.chunks /\ billed'.lost = billed.lost
                  /\ billed'.told = billed.told + (IF s.reports > 0 THEN 1 ELSE 0)
<1> DEFINE t == [s EXCEPT !.calls = ids, !.pc = IF ids # {} THEN "tools" ELSE "done"]
           known == Shown!Estimated(e)
<1>1. /\ stream' = [stream EXCEPT ![l] = t]
      /\ billed' = [billed EXCEPT !.paid = @ + 1, !.told = @ + (IF s.reports > 0 THEN 1 ELSE 0)]
      /\ sse' = IF ids # {} THEN Shown!Started(known, ids)
                ELSE IF l = Shown!Main THEN [known EXCEPT !.completed = @ + 1] ELSE known
  BY DEF Shown!Ended, Shown!Set
<1>2. StreamOK(t) /\ t.pc = (IF ids # {} THEN "tools" ELSE "done") /\ t.calls = ids
  BY DEF StreamOK, StreamFields
<1>3. /\ EventsOK(known) /\ known.started = e.started /\ known.live = e.live /\ known.tools = e.tools
      /\ known.ended = e.ended /\ known.unnamed = e.unnamed /\ known.reported = e.reported
      /\ known.estimated = IF e.reported > 0 THEN e.estimated ELSE e.estimated + 1
  BY DEF Shown!Estimated, EventsOK, EventFields
<1> HIDE DEF t, known
<1>4. /\ EventsOK(sse') /\ sse'.started = known.started \cup ids /\ sse'.live = known.live \cup ids
      /\ sse'.tools = known.tools + Cardinality(ids \ known.started)
      /\ sse'.ended = known.ended /\ sse'.unnamed = known.unnamed
      /\ sse'.reported = known.reported /\ sse'.estimated = known.estimated
  <2>1. CASE ids # {}
    <3> DEFINE f == Shown!Started(known, ids)
    <3>1. sse' = f
      BY <1>1, <2>1
    <3>2. EventsOK(known)
      BY <1>3
    <3>3. /\ EventsOK(f) /\ f.started = known.started \cup ids /\ f.live = known.live \cup ids
          /\ f.tools = known.tools + Cardinality(ids \ known.started)
          /\ f.ended = known.ended /\ f.unnamed = known.unnamed
          /\ f.reported = known.reported /\ f.estimated = known.estimated
      BY <3>2, StartedOK
    <3> HIDE DEF f
    <3> QED  BY <3>1, <3>3
  <2>2. CASE ids = {}
    <3>1. ids \ known.started = {} /\ Cardinality({}) = 0 /\ known.tools \in Nat
      BY <1>3, <2>2, FS_EmptySet DEF EventsOK
    <3>2. /\ EventsOK(sse') /\ sse'.started = known.started /\ sse'.live = known.live /\ sse'.tools = known.tools
          /\ sse'.ended = known.ended /\ sse'.unnamed = known.unnamed
          /\ sse'.reported = known.reported /\ sse'.estimated = known.estimated
      BY <1>1, <1>3, <2>2 DEF EventsOK, EventFields
    <3> QED  BY <2>2, <3>1, <3>2
  <2> QED  BY <2>1, <2>2
<1>5. /\ BillOK(billed') /\ billed'.paid = billed.paid + 1 /\ billed'.chunks = billed.chunks /\ billed'.lost = billed.lost
      /\ billed'.told = billed.told + (IF s.reports > 0 THEN 1 ELSE 0)
  <2> DEFINE one == IF s.reports > 0 THEN 1 ELSE 0
  <2>1. one \in Nat /\ billed \in [paid : Nat, told : Nat, chunks : Nat, lost : BOOLEAN]
    BY DEF ShownTypes, BillOK
  <2> HIDE DEF one
  <2>2. billed' = [billed EXCEPT !.paid = @ + 1, !.told = @ + one]
    BY <1>1 DEF one
  <2>3. billed.paid + 1 \in Nat /\ billed.told + one \in Nat /\ billed.chunks \in Nat /\ billed.lost \in BOOLEAN
    BY <2>1
  <2>4. billed' = [paid |-> billed.paid + 1, told |-> billed.told + one, chunks |-> billed.chunks, lost |-> billed.lost]
    BY <2>1, <2>2
  <2>5. /\ BillOK(billed') /\ billed'.paid = billed.paid + 1 /\ billed'.chunks = billed.chunks
        /\ billed'.lost = billed.lost /\ billed'.told = billed.told + one
    BY Zenon, <2>3, <2>4 DEF BillOK
  <2> QED  BY <2>5 DEF one
<1>6. Advances(l, t)
  BY <1>1, <1>2, <1>4, <1>5 DEF Advances
<1> QED  BY <1>2, <1>3, <1>4, <1>5, <1>6

LEMMA EndsDoes ==
    ASSUME ShownTypes, NEW l \in scene.streams, Shown!StreamEnds(l) \/ Shown!MessageEnds(l)
    PROVE  \E s : Does(l, s)
<1>1. StreamOK(stream[l]) /\ EventsOK(sse)
  BY DEF ShownTypes
<1> DEFINE ids == Shown!Called(l)
<1>2. IsFiniteSet(ids) /\ ScopedIds(l, stream[l].native) \subseteq ids
  BY CalledOK
<1>3. /\ stream[l].pc = "stream" /\ UNCHANGED <<scene, given>> /\ texted \subseteq texted'
      /\ Shown!Searched(l) => <<l, stream[l].round>> \in texted'
  BY DEF Shown!StreamEnds, Shown!MessageEnds, Shown!Searched
<1>4. scene.ids => \A id \in ids : Owned(l, id)'
  <2> SUFFICES ASSUME scene.ids, NEW id \in ids PROVE Owned(l, id)'
    OBVIOUS
  <2>1. /\ id[1] = Shown!Prefix(l)
        /\ \/ id[2] = "id" /\ id[3][1] = l
           \/ id[2] = "tool_" /\ Shown!Searched(l)
    BY CalledOK
  <2>2. id[2] = "tool_" /\ Shown!Searched(l) => \E n : <<l, n>> \in texted'
    BY <1>3
  <2> HIDE DEF ids
  <2> QED  BY <2>1, <2>2 DEF Owned, Shown!Prefix
<1> HIDE DEF ids
<1>5. PICK s, e :
          /\ StreamOK(s) /\ EventsOK(e) /\ Shown!Ended(l, s, e, ids) /\ (stream[l].reports > 0 => s.reports > 0)
          /\ e.started = sse.started /\ e.live = sse.live /\ e.tools = sse.tools
          /\ e.ended = sse.ended /\ e.unnamed = sse.unnamed /\ e.estimated = sse.estimated
          /\ e.reported = sse.reported + (IF s.reports > 0 THEN 1 ELSE 0)
  <2>1. CASE Shown!StreamEnds(l)
    <3> DEFINE s == Shown!Closed(stream[l])
               e == IF stream[l].reports > 0 THEN Shown!Reported(sse) ELSE sse
    <3>1. Shown!Ended(l, s, e, ids)
      BY <2>1 DEF Shown!StreamEnds, ids
    <3>2. StreamOK(s) /\ s.reports = stream[l].reports
      BY <1>1 DEF Shown!Closed, StreamOK, StreamFields
    <3>3. /\ EventsOK(e) /\ e.started = sse.started /\ e.live = sse.live /\ e.tools = sse.tools
          /\ e.ended = sse.ended /\ e.unnamed = sse.unnamed /\ e.estimated = sse.estimated
          /\ e.reported = sse.reported + (IF stream[l].reports > 0 THEN 1 ELSE 0)
      BY <1>1 DEF Shown!Reported, EventsOK, EventFields
    <3> HIDE DEF s, e
    <3> QED  BY <3>1, <3>2, <3>3
  <2>2. CASE Shown!MessageEnds(l)
    <3> DEFINE s == [stream[l] EXCEPT !.reports = 1]
               e == Shown!Reported(sse)
    <3>1. Shown!Ended(l, s, e, ids)
      BY <2>2 DEF Shown!MessageEnds, ids
    <3>2. StreamOK(s) /\ s.reports = 1
      BY <1>1, <1>3 DEF StreamOK, StreamFields
    <3>3. /\ EventsOK(e) /\ e.started = sse.started /\ e.live = sse.live /\ e.tools = sse.tools
          /\ e.ended = sse.ended /\ e.unnamed = sse.unnamed /\ e.estimated = sse.estimated
          /\ e.reported = sse.reported + 1
      BY <1>1 DEF Shown!Reported, EventsOK, EventFields
    <3> HIDE DEF s, e
    <3> QED  BY <3>1, <3>2, <3>3
  <2> QED  BY <2>1, <2>2
<1> DEFINE one == IF s.reports > 0 THEN 1 ELSE 0
<1>6. PICK t : /\ Advances(l, t) /\ t.pc = (IF ids # {} THEN "tools" ELSE "done") /\ t.calls = ids
               /\ sse'.started = e.started \cup ids /\ sse'.live = e.live \cup ids
               /\ sse'.tools = e.tools + Cardinality(ids \ e.started)
               /\ sse'.ended = e.ended /\ sse'.unnamed = e.unnamed /\ sse'.reported = e.reported
               /\ sse'.estimated = IF e.reported > 0 THEN e.estimated ELSE e.estimated + 1
               /\ billed'.paid = billed.paid + 1 /\ billed'.chunks = billed.chunks /\ billed'.lost = billed.lost
               /\ billed'.told = billed.told + one
  BY <1>2, <1>3, <1>5, EndedOK
<1>7. Starts(ids)
  BY <1>5, <1>6 DEF Starts, SamePairs
<1>8. one \in {0, 1} /\ Bills(l, t, one) /\ sse'.reported = sse.reported + one /\ (stream[l].reports > 0 => one = 1)
  BY <1>5, <1>6 DEF Bills
<1>9. Closes(l, t)
  <2> HIDE DEF one
  <2> QED  BY <1>2, <1>3, <1>4, <1>6, <1>7, <1>8 DEF Closes
<1> QED  BY <1>6, <1>9 DEF Does

LEMMA RetriesDoes ==
    ASSUME ShownTypes, NEW l \in scene.streams, Shown!Retries(l)
    PROVE  \E s : Does(l, s)
<1>1. StreamOK(stream[l]) /\ EventsOK(sse) /\ stream[l].reports \in Nat
  BY DEF ShownTypes, StreamOK
<1>2. /\ stream[l].pc \in {"call", "stream"} /\ given' = given \cup ScopedIds(l, stream[l].native)
      /\ UNCHANGED <<scene, texted>>
  BY DEF Shown!Retries, Shown!Broken, ScopedIds
<1> DEFINE n == Shown!NewStream(stream[l].round, stream[l].attempt + 1, "call")
           s == [n EXCEPT !.shown = stream[l].shown, !.open = stream[l].open]
<1>3. stream' = [stream EXCEPT ![l] = s] /\ sse' = sse /\ billed' = [billed EXCEPT !.lost = @ \/ stream[l].reports > 0]
  BY DEF Shown!Retries, Shown!Set
<1>4. StreamOK(n) /\ n.pc = "call"
  BY NewStreamOK
<1> HIDE DEF n
<1>5. StreamOK(s) /\ s.pc = "call"
  BY <1>4 DEF StreamOK, StreamFields
<1> HIDE DEF s
<1>6. /\ BillOK(billed') /\ billed'.lost = (billed.lost \/ stream[l].reports > 0)
      /\ billed'.paid = billed.paid /\ billed'.told = billed.told /\ billed'.chunks = billed.chunks
  BY <1>1, <1>3 DEF ShownTypes, BillOK
<1>7. Starts({})
  BY <1>1, <1>3, StartsNothing DEF SamePairs
<1>8. BreaksOff(l, s)
  BY <1>2, <1>3, <1>5, <1>6, <1>7 DEF BreaksOff
<1>9. Does(l, s)
  BY <1>1, <1>2, <1>3, <1>5, <1>6, <1>8 DEF Does, Advances
<1> QED  BY <1>9

LEMMA FailsDoes ==
    ASSUME ShownTypes, NEW l \in scene.streams, Shown!Fails(l)
    PROVE  \E s : Does(l, s)
<1>1. StreamOK(stream[l]) /\ EventsOK(sse)
  BY DEF ShownTypes, StreamOK
<1>2. /\ stream[l].pc \in {"call", "stream"} /\ given' = given \cup ScopedIds(l, stream[l].native)
      /\ UNCHANGED <<scene, texted>>
  BY DEF Shown!Fails, Shown!Broken, ScopedIds
<1> DEFINE s == [stream[l] EXCEPT !.failed = TRUE, !.native = {}, !.held = <<>>]
<1>3. Shown!Ended(l, s, sse, {})
  BY DEF Shown!Fails
<1>4. StreamOK(s) /\ s.reports = stream[l].reports
  BY <1>1, FS_EmptySet DEF StreamOK, StreamFields
<1> HIDE DEF s
<1>5. \E t : /\ Advances(l, t) /\ t.pc = (IF {} # {} THEN "tools" ELSE "done") /\ t.calls = {}
             /\ sse'.started = sse.started \cup {} /\ sse'.live = sse.live \cup {}
             /\ sse'.tools = sse.tools + Cardinality({} \ sse.started)
             /\ sse'.ended = sse.ended /\ sse'.unnamed = sse.unnamed /\ sse'.reported = sse.reported
             /\ sse'.estimated = IF sse.reported > 0 THEN sse.estimated ELSE sse.estimated + 1
             /\ billed'.paid = billed.paid + 1 /\ billed'.chunks = billed.chunks /\ billed'.lost = billed.lost
             /\ billed'.told = billed.told + (IF s.reports > 0 THEN 1 ELSE 0)
  BY <1>1, <1>2, <1>3, <1>4, FS_EmptySet, EndedOK
<1>6. PICK t : /\ Advances(l, t) /\ t.pc = "done"
               /\ sse'.started = sse.started \cup {} /\ sse'.live = sse.live \cup {}
               /\ sse'.tools = sse.tools + Cardinality({} \ sse.started)
               /\ sse'.ended = sse.ended /\ sse'.unnamed = sse.unnamed /\ sse'.reported = sse.reported
               /\ sse'.estimated = IF sse.reported > 0 THEN sse.estimated ELSE sse.estimated + 1
               /\ billed'.paid = billed.paid + 1 /\ billed'.chunks = billed.chunks /\ billed'.lost = billed.lost
               /\ billed'.told = billed.told + (IF stream[l].reports > 0 THEN 1 ELSE 0)
  BY <1>4, <1>5
<1>7. Starts({}) /\ sse'.reported = sse.reported
  BY <1>6 DEF Starts, SamePairs
<1>8. Bills(l, t, IF stream[l].reports > 0 THEN 1 ELSE 0)
  BY <1>6 DEF Bills
<1>9. BreaksOff(l, t)
  BY <1>2, <1>6, <1>7, <1>8 DEF BreaksOff
<1> QED  BY <1>6, <1>9 DEF Does

LEMMA ReturnsDoes ==
    ASSUME ShownTypes, NEW l \in scene.streams, Shown!ToolsReturn(l)
    PROVE  \E s : Does(l, s)
<1>1. EventsOK(sse) /\ stream[l].pc = "tools" /\ UNCHANGED <<scene, given, texted, billed>>
  BY DEF ShownTypes, Shown!ToolsReturn
<1>2. PICK s : stream' = [stream EXCEPT ![l] = s] /\ StreamOK(s) /\ s.pc \in {"call", "done"}
  <2>1. \/ stream' = [stream EXCEPT ![l] = Shown!NewStream(stream[l].round + 1, 0, "call")]
        \/ stream' = [stream EXCEPT ![l] = Shown!NewStream(stream[l].round, 0, "done")]
    BY DEF Shown!ToolsReturn, Shown!Set
  <2>2. \A r : /\ StreamOK(Shown!NewStream(r, 0, "call")) /\ Shown!NewStream(r, 0, "call").pc = "call"
               /\ StreamOK(Shown!NewStream(r, 0, "done")) /\ Shown!NewStream(r, 0, "done").pc = "done"
    BY NewStreamOK
  <2> QED  BY <2>1, <2>2
<1>3. sse' = [sse EXCEPT !.live = @ \ stream[l].calls, !.unnamed = @ \cup (stream[l].calls \ sse.live),
                         !.ended = @ \cup stream[l].calls]
  BY DEF Shown!ToolsReturn, Shown!Finished
<1>4. /\ EventsOK(sse') /\ sse'.started = sse.started /\ sse'.tools = sse.tools /\ sse'.live = sse.live \ stream[l].calls
      /\ sse'.ended = sse.ended \cup stream[l].calls /\ sse'.unnamed = sse.unnamed \cup (stream[l].calls \ sse.live)
      /\ sse'.reported = sse.reported /\ sse'.estimated = sse.estimated
  BY <1>1, <1>3 DEF EventsOK, EventFields
<1>5. Does(l, s)
  BY <1>1, <1>2, <1>4 DEF Does, Advances, Returns, SameUse, ShownTypes
<1> QED  BY <1>5

(* Every step of TurnStream is one of them. *)
LEMMA ShownMoves ==
    ASSUME ShownTypes, Shown!Next
    PROVE  \E l \in scene.streams : \E s : Does(l, s)
<1>1. PICK l \in scene.streams :
          \/ Shown!Connect(l) \/ Shown!Reasoning(l) \/ Shown!UsageChunk(l) \/ Shown!BlockDelta(l) \/ Shown!CloseBlock(l)
          \/ Shown!StreamEnds(l) \/ Shown!MessageEnds(l) \/ Shown!Retries(l) \/ Shown!Fails(l)
          \/ Shown!ToolsReturn(l)
          \/ \E t \in scene.texts : Shown!Text(l, t)
          \/ \E k \in 1..scene.slots : Shown!NativeCall(l, k)
          \/ \E kind \in {"think", "text", "tool"} : Shown!OpenBlock(l, kind)
  BY DEF Shown!Next, Shown!Streams
<1> QED  BY <1>1, ConnectDoes, TextDoes, UsageDoes, BlockDoes, EndsDoes, RetriesDoes, FailsDoes, ReturnsDoes,
           NativeCallDoes, OpenBlockDoes
----------------------------------------------------------------------------
(* Rounds and tools.                                                        *)

\* Streams whose round has a report and is not billed.
Telling == {l \in scene.streams : stream[l].pc = "stream" /\ stream[l].reports > 0}

\* What was reported came in a chunk or with the end of a round that was told;
\* until an attempt that reported is lost, there is a report for every round
\* that was told or tells, and none else; without reports every round is
\* estimated.
BillInv ==
    /\ ~billed.lost => /\ billed.told + Cardinality(Telling) <= sse.reported
                       /\ sse.reported > 0 => billed.told + Cardinality(Telling) > 0
    /\ sse.reported <= billed.chunks + billed.told
    /\ billed.told <= billed.paid
    /\ sse.reported = 0 => sse.estimated = billed.paid

\* The tools announced for a round that has no results yet.
Pending(l) ==
    IF stream[l].pc = "stream" THEN ScopedIds(l, stream[l].native)
    ELSE IF stream[l].pc = "tools" THEN stream[l].calls ELSE {}

\* What was announced is pending, has its result, or was given up, and is
\* counted once; with ids, and as long as calls in the text are told apart, the
\* calls of a round are its own and known by name.
PairInv ==
    /\ sse.tools = Cardinality(sse.started)
    /\ \A x : x \in sse.started <=> x \in sse.ended \/ x \in given \/ \E l \in scene.streams : x \in Pending(l)
    /\ scene.ids => \A l \in scene.streams : stream[l].pc = "tools" => \A id \in stream[l].calls : Owned(l, id)
    /\ scene.ids /\ Shown!Apart =>
          /\ sse.unnamed = {}
          /\ \A l \in scene.streams : stream[l].pc = "tools" => \A id \in stream[l].calls : id \in sse.live

ShownInv == ShownTypes /\ BillInv /\ PairInv

(* What moves, and what does not. *)
LEMMA MovesOn ==
    ASSUME ShownTypes, NEW l \in scene.streams, NEW s, Advances(l, s)
    PROVE  /\ ShownTypes' /\ scene' = scene /\ stream'[l] = s
           /\ \A m \in scene.streams : m # l => stream'[m] = stream[m] /\ Pending(m)' = Pending(m)
<1>1. /\ scene' = scene /\ DOMAIN stream' = DOMAIN stream /\ stream'[l] = s
      /\ \A m \in scene.streams : m # l => stream'[m] = stream[m]
  BY DEF ShownTypes, Advances
<1>2. \A m \in scene.streams : m # l => Pending(m)' = Pending(m)
  BY <1>1 DEF Pending, ScopedIds, Shown!Scoped, Shown!Numbered
<1>3. \A m \in scene.streams : StreamOK(stream'[m])
  BY <1>1 DEF ShownTypes, Advances
<1>4. \A t : StreamOK(t)' <=> StreamOK(t)
  BY <1>1 DEF StreamOK, Pieces
<1>5. ShownTypes'
  BY <1>1, <1>3 DEF ShownTypes, Advances, StreamOK, Pieces, EventsOK, BillOK
<1> QED  BY <1>1, <1>2, <1>5

LEMMA TellingMoves ==
    ASSUME ShownTypes, NEW l \in scene.streams, NEW s, Advances(l, s)
    PROVE  /\ IsFiniteSet(Telling) /\ Cardinality(Telling) \in Nat
           /\ l \in Telling => Cardinality(Telling) > 0
           /\ Cardinality(Telling') = Cardinality(Telling)
                 + (IF s.pc = "stream" /\ s.reports > 0 THEN IF l \in Telling THEN 0 ELSE 1
                    ELSE IF l \in Telling THEN 0 - 1 ELSE 0)
<1>1. IsFiniteSet(Telling)
  <2>1. IsFiniteSet(scene.streams) /\ Telling \in SUBSET scene.streams
    BY TurnAssumption DEF Telling, ShownTypes
  <2> QED  BY <2>1, FS_Subset
<1>2. Telling' = IF s.pc = "stream" /\ s.reports > 0 THEN Telling \cup {l} ELSE Telling \ {l}
  BY MovesOn DEF Telling
<1>3. /\ Cardinality(Telling) \in Nat
      /\ Cardinality(Telling \cup {l}) = IF l \in Telling THEN Cardinality(Telling) ELSE Cardinality(Telling) + 1
      /\ Cardinality(Telling \ {l}) = IF l \in Telling THEN Cardinality(Telling) - 1 ELSE Cardinality(Telling)
  BY <1>1, FS_AddElement, FS_RemoveElement, FS_CardinalityType
<1>4. Cardinality(Telling \ {l}) \in Nat
  BY <1>1, FS_Subset, FS_CardinalityType
<1> HIDE DEF Telling
<1> QED  BY <1>1, <1>2, <1>3, <1>4

(* The steps and the bill. *)
LEMMA BillStep ==
    ASSUME ShownTypes, BillInv, NEW l \in scene.streams, NEW s, Does(l, s)
    PROVE  BillInv'
<1>1. Advances(l, s) /\ s.reports \in Nat
  BY DEF Does, Advances, StreamOK
<1> DEFINE n == Cardinality(Telling)
           m == Cardinality(Telling')
<1>2. /\ n \in Nat /\ (l \in Telling => n > 0)
      /\ m = n + (IF s.pc = "stream" /\ s.reports > 0 THEN IF l \in Telling THEN 0 ELSE 1
                  ELSE IF l \in Telling THEN 0 - 1 ELSE 0)
  BY <1>1, TellingMoves
<1>3. /\ l \in Telling <=> stream[l].pc = "stream" /\ stream[l].reports > 0
      /\ stream[l].pc = "call" => stream[l].reports = 0
      /\ stream[l].reports \in Nat
  BY DEF Telling, ShownTypes, StreamOK
<1>4. /\ billed.told \in Nat /\ billed.paid \in Nat /\ billed.chunks \in Nat
      /\ sse.reported \in Nat /\ sse.estimated \in Nat
      /\ billed'.told \in Nat /\ billed'.paid \in Nat /\ billed'.chunks \in Nat
      /\ sse'.reported \in Nat /\ sse'.estimated \in Nat
  BY <1>1, MovesOn DEF ShownTypes, EventsOK, BillOK
<1>5. /\ ~billed.lost => billed.told + n <= sse.reported /\ (sse.reported > 0 => billed.told + n > 0)
      /\ sse.reported <= billed.chunks + billed.told /\ billed.told <= billed.paid
      /\ sse.reported = 0 => sse.estimated = billed.paid
  BY DEF BillInv
<1> HIDE DEF n, m
<1>6. SUFFICES /\ ~billed'.lost => billed'.told + m <= sse'.reported /\ (sse'.reported > 0 => billed'.told + m > 0)
               /\ sse'.reported <= billed'.chunks + billed'.told /\ billed'.told <= billed'.paid
               /\ sse'.reported = 0 => sse'.estimated = billed'.paid
  BY DEF BillInv, m
<1>7. CASE Connects(l, s)
  BY <1>2, <1>3, <1>4, <1>5, <1>7 DEF Connects
<1>8. CASE Announces(l, s)
  BY <1>2, <1>3, <1>4, <1>5, <1>8 DEF Announces, SameUse
<1>9. CASE Tells(l, s)
  BY <1>2, <1>3, <1>4, <1>5, <1>9 DEF Tells
<1>10. CASE Closes(l, s)
  <2>1. PICK one \in {0, 1} : /\ Bills(l, s, one) /\ sse'.reported = sse.reported + one
                              /\ stream[l].reports > 0 => one = 1
    BY <1>10 DEF Closes
  <2>2. m = IF l \in Telling THEN n - 1 ELSE n
    BY <1>2, <1>10 DEF Closes
  <2>3. l \in Telling => one = 1
    BY <1>3, <2>1
  <2> QED  BY <1>2, <1>4, <1>5, <2>1, <2>2, <2>3 DEF Bills
<1>11. CASE BreaksOff(l, s)
  <2>1. stream[l].pc \in {"call", "stream"} /\ sse'.reported = sse.reported
    BY <1>11 DEF BreaksOff
  <2>2. CASE /\ s.pc = "call" /\ sse'.estimated = sse.estimated
             /\ billed'.lost = (billed.lost \/ stream[l].reports > 0) /\ billed'.paid = billed.paid
             /\ billed'.told = billed.told /\ billed'.chunks = billed.chunks
    <3>1. CASE stream[l].reports > 0
      <4>1. billed'.lost
        BY <2>2, <3>1
      <4> QED  BY <1>5, <2>1, <2>2, <4>1
    <3>2. CASE ~(stream[l].reports > 0)
      <4>1. m = n
        BY <1>2, <1>3, <2>2, <3>2
      <4>2. ~billed'.lost => ~billed.lost
        BY <2>2
      <4> QED  BY <1>5, <2>1, <2>2, <4>1, <4>2
    <3> QED  BY <3>1, <3>2
  <2>3. CASE s.pc = "done" /\ Bills(l, s, IF stream[l].reports > 0 THEN 1 ELSE 0)
    BY <1>2, <1>3, <1>4, <1>5, <2>1, <2>3 DEF Bills
  <2> QED  BY <1>11, <2>2, <2>3 DEF BreaksOff
<1>12. CASE Returns(l, s)
  BY <1>2, <1>3, <1>4, <1>5, <1>12 DEF Returns, SameUse
<1> QED  BY <1>7, <1>8, <1>9, <1>10, <1>11, <1>12 DEF Does

(* What is new is counted once. *)
LEMMA CountsNew ==
    ASSUME NEW S, NEW T, IsFiniteSet(S), IsFiniteSet(S \cup T)
    PROVE  Cardinality(S \cup T) = Cardinality(S) + Cardinality(T \ S)
<1>1. IsFiniteSet(T \ S)
  BY FS_Subset
<1>2. S \cup (T \ S) = S \cup T /\ S \cap (T \ S) = {}
  OBVIOUS
<1>3. Cardinality(S \cup (T \ S)) = Cardinality(S) + Cardinality(T \ S) - Cardinality(S \cap (T \ S))
  BY <1>1, FS_Union
<1>4. Cardinality(S \cap (T \ S)) = 0 /\ Cardinality(S) \in Nat /\ Cardinality(T \ S) \in Nat
  BY <1>1, <1>2, FS_EmptySet, FS_CardinalityType
<1> QED  BY <1>2, <1>3, <1>4

(* The steps and the announced tools. *)
LEMMA PairStep ==
    ASSUME ShownTypes, PairInv, NEW l \in scene.streams, NEW s, Does(l, s)
    PROVE  PairInv'
<1>1. Advances(l, s)
  BY DEF Does
<1>2. /\ ShownTypes' /\ scene' = scene /\ stream'[l] = s
      /\ \A m \in scene.streams : m # l => stream'[m] = stream[m] /\ Pending(m)' = Pending(m)
  BY <1>1, MovesOn
<1>3. IsFiniteSet(sse.started) /\ IsFiniteSet(sse'.started)
  BY <1>2 DEF ShownTypes, EventsOK
<1>4. ASSUME NEW ids, Starts(ids)
      PROVE  sse'.tools = Cardinality(sse'.started)
  <2>1. Cardinality(sse.started \cup ids) = Cardinality(sse.started) + Cardinality(ids \ sse.started)
    BY <1>3, <1>4, CountsNew DEF Starts
  <2> QED  BY <1>4, <2>1 DEF Starts, PairInv
<1>5. \A x : x \in sse.started <=> x \in sse.ended \/ x \in given \/ \E m \in scene.streams : x \in Pending(m)
  BY DEF PairInv
<1>6. s.pc = "stream" /\ SameCall(l, s) => \A K : ScopedIds(l, K)' = ScopedIds(l, K)
  BY <1>2 DEF SameCall, ScopedIds, Shown!Scoped, Shown!Numbered
<1>7. Pending(l)' = IF s.pc = "stream" THEN ScopedIds(l, s.native)' ELSE IF s.pc = "tools" THEN s.calls ELSE {}
  BY <1>2 DEF Pending, ScopedIds, Shown!Scoped, Shown!Numbered
<1>8. texted \subseteq texted' /\ (Shown!Apart' => Shown!Apart)
  BY <1>1 DEF Advances, Shown!Apart
<1> DEFINE Other(x) == \E m \in scene.streams : m # l /\ x \in Pending(m)
<1>9. /\ \A x : (\E m \in scene.streams : x \in Pending(m)) <=> x \in Pending(l) \/ Other(x)
      /\ \A x : (\E m \in scene'.streams : x \in Pending(m)') <=> x \in Pending(l)' \/ Other(x)
  BY <1>2
<1>10. \A x : x \in sse.started <=> x \in sse.ended \/ x \in given \/ x \in Pending(l) \/ Other(x)
  BY <1>5, <1>9
<1> DEFINE Counted == sse'.tools = Cardinality(sse'.started)
           Placed == \A x : x \in sse'.started <=> x \in sse'.ended \/ x \in given' \/ x \in Pending(l)' \/ Other(x)
           Owns == scene.ids /\ s.pc = "tools" => \A id \in s.calls : Owned(l, id)'
           Named == scene.ids /\ Shown!Apart' =>
                        /\ sse'.unnamed = {}
                        /\ s.pc = "tools" => \A id \in s.calls : id \in sse'.live
                        /\ \A m \in scene.streams : m # l /\ stream[m].pc = "tools" =>
                              \A id \in stream[m].calls : id \in sse'.live
<1>11. SUFFICES Counted /\ Placed /\ Owns /\ Named
  <2>1. scene'.ids => \A m \in scene'.streams : stream'[m].pc = "tools" => \A id \in stream'[m].calls : Owned(m, id)'
    <3> SUFFICES ASSUME scene'.ids, NEW m \in scene'.streams, stream'[m].pc = "tools", NEW id \in stream'[m].calls
                 PROVE  Owned(m, id)'
      OBVIOUS
    <3>1. CASE m = l
      BY <1>2, <1>11, <3>1
    <3>2. CASE m # l
      <4>1. Owned(m, id)
        BY <1>2, <3>2 DEF PairInv
      <4> QED  BY <1>8, <4>1 DEF Owned
    <3> QED  BY <3>1, <3>2
  <2>2. scene'.ids /\ Shown!Apart' =>
            /\ sse'.unnamed = {}
            /\ \A m \in scene'.streams : stream'[m].pc = "tools" => \A id \in stream'[m].calls : id \in sse'.live
    BY <1>2, <1>11
  <2>3. \A x : x \in sse'.started <=> x \in sse'.ended \/ x \in given' \/ \E m \in scene'.streams : x \in Pending(m)'
    BY <1>9, <1>11
  <2> QED  BY <1>2, <1>11, <2>1, <2>2, <2>3 DEF PairInv
<1> HIDE DEF Other
<1>12. /\ scene.ids => \A m \in scene.streams : stream[m].pc = "tools" => \A id \in stream[m].calls : Owned(m, id)
       /\ scene.ids /\ Shown!Apart' =>
              /\ sse.unnamed = {}
              /\ \A m \in scene.streams : stream[m].pc = "tools" => \A id \in stream[m].calls : id \in sse.live
  BY <1>8 DEF PairInv
<1>13. ASSUME NEW ids, Starts(ids),
              \A x : x \in given' \/ x \in Pending(l)' <=> x \in given \/ x \in Pending(l) \/ x \in ids,
              s.pc = "tools" => s.calls \subseteq ids, Owns
       PROVE  Counted /\ Placed /\ Owns /\ Named
  <2>1. /\ sse'.started = sse.started \cup ids /\ sse'.live = sse.live \cup ids
        /\ sse'.ended = sse.ended /\ sse'.unnamed = sse.unnamed
    BY <1>13 DEF Starts, SamePairs
  <2>2. Counted
    BY <1>4, <1>13
  <2>3. Placed
    BY <1>10, <1>13, <2>1
  <2>4. Named
    BY <1>12, <1>13, <2>1
  <2> HIDE DEF Counted, Placed, Owns, Named
  <2> QED  BY <1>13, <2>2, <2>3, <2>4
<1>14. CASE Connects(l, s)
  <2>1. Pending(l) = {} /\ Pending(l)' = {}
    BY <1>7, <1>14 DEF Connects, Pending, ScopedIds
  <2>2. sse' = sse /\ given' = given /\ s.pc = "stream"
    BY <1>14 DEF Connects
  <2>3. Starts({}) /\ Owns
    BY <2>2, StartsNothing DEF ShownTypes, SamePairs
  <2> HIDE DEF Counted, Placed, Owns, Named
  <2> QED  BY <1>13, <2>1, <2>2, <2>3
<1>15. CASE Announces(l, s)
  <2>1. PICK K : s.native = stream[l].native \cup K /\ Starts(ScopedIds(l, K))
    BY <1>15 DEF Announces
  <2>2. Pending(l) = ScopedIds(l, stream[l].native) /\ Pending(l)' = ScopedIds(l, s.native) /\ given' = given /\ s.pc = "stream"
    BY <1>6, <1>7, <1>15 DEF Announces, Pending
  <2>3. ScopedIds(l, s.native) = ScopedIds(l, stream[l].native) \cup ScopedIds(l, K)
    BY <2>1 DEF ScopedIds
  <2>4. \A x : x \in given' \/ x \in Pending(l)' <=> x \in given \/ x \in Pending(l) \/ x \in ScopedIds(l, K)
    <3> HIDE DEF ScopedIds, Pending
    <3> QED  BY <2>2, <2>3
  <2>5. Owns
    BY <2>2
  <2> HIDE DEF Counted, Placed, Owns, Named
  <2> QED  BY <1>13, <2>1, <2>2, <2>4, <2>5
<1>16. CASE Tells(l, s)
  <2>1. Pending(l)' = Pending(l) /\ given' = given /\ s.pc = "stream" /\ Starts({})
    BY <1>6, <1>7, <1>16 DEF Tells, Pending
  <2>2. Owns
    BY <2>1
  <2> HIDE DEF Counted, Placed, Owns, Named
  <2> QED  BY <1>13, <2>1, <2>2
<1>17. CASE Closes(l, s)
  <2>1. /\ ScopedIds(l, stream[l].native) \subseteq s.calls /\ Starts(s.calls) /\ (s.pc = "done" => s.calls = {})
        /\ given' = given /\ s.pc \in {"tools", "done"}
    BY <1>17 DEF Closes
  <2>2. Pending(l) = ScopedIds(l, stream[l].native) /\ Pending(l)' = s.calls
    BY <1>7, <1>17, <2>1 DEF Closes, Pending
  <2>3. \A x : x \in given' \/ x \in Pending(l)' <=> x \in given \/ x \in Pending(l) \/ x \in s.calls
    <3> HIDE DEF ScopedIds, Pending
    <3> QED  BY <2>1, <2>2
  <2>4. Owns
    BY <1>17 DEF Closes
  <2> HIDE DEF Counted, Placed, Owns, Named
  <2> QED  BY <1>13, <2>1, <2>3, <2>4
<1>18. CASE BreaksOff(l, s)
  <2>1. /\ stream[l].pc \in {"call", "stream"} /\ Starts({}) /\ s.pc \in {"call", "done"}
        /\ given' = given \cup ScopedIds(l, stream[l].native)
    BY <1>18 DEF BreaksOff
  <2>2. Pending(l) = ScopedIds(l, stream[l].native) /\ Pending(l)' = {}
    <3>1. stream[l].pc = "call" => ScopedIds(l, stream[l].native) = {}
      BY NoIds DEF ShownTypes, StreamOK
    <3> QED  BY <1>7, <2>1, <3>1 DEF Pending
  <2>3. \A x : x \in given' \/ x \in Pending(l)' <=> x \in given \/ x \in Pending(l) \/ x \in {}
    <3> HIDE DEF ScopedIds, Pending
    <3> QED  BY <2>1, <2>2
  <2>4. Owns
    BY <2>1
  <2> HIDE DEF Counted, Placed, Owns, Named
  <2> QED  BY <1>13, <2>1, <2>3, <2>4
<1>19. CASE Returns(l, s)
  <2>1. Pending(l) = stream[l].calls /\ Pending(l)' = {} /\ given' = given /\ s.pc \in {"call", "done"}
    BY <1>7, <1>19 DEF Returns, Pending
  <2>2. /\ stream[l].pc = "tools" /\ sse'.started = sse.started /\ sse'.tools = sse.tools
        /\ sse'.live = sse.live \ stream[l].calls /\ sse'.ended = sse.ended \cup stream[l].calls
        /\ sse'.unnamed = sse.unnamed \cup (stream[l].calls \ sse.live)
    BY <1>19 DEF Returns
  <2>3. Counted
    BY <2>2 DEF PairInv
  <2>4. Placed
    BY <1>10, <2>1, <2>2
  <2>5. ASSUME scene.ids, Shown!Apart, NEW m \in scene.streams, m # l, stream[m].pc = "tools", NEW id \in stream[m].calls
        PROVE  id \notin stream[l].calls
    <3> SUFFICES ASSUME id \in stream[l].calls PROVE FALSE
      OBVIOUS
    <3>1. Owned(l, id) /\ Owned(m, id)
      BY <1>12, <2>2, <2>5
    <3>2. CASE id[2] = "id"
      BY <2>5, <3>1, <3>2 DEF Owned
    <3>3. CASE id[2] = "tool_"
      <4>1. PICK a : <<l, a>> \in texted
        BY <3>1, <3>3 DEF Owned
      <4>2. PICK b : <<m, b>> \in texted
        BY <3>1, <3>3 DEF Owned
      <4>3. Shown!Prefix(l) = Shown!Prefix(m)
        BY <3>1 DEF Owned
      <4>4. <<l, a>> = <<m, b>>
        BY <2>5, <4>1, <4>2, <4>3 DEF Shown!Apart
      <4> QED  BY <2>5, <4>4
    <3> QED  BY <3>1, <3>2, <3>3 DEF Owned
  <2>6. Owns
    BY <2>1
  <2>7. Named
    BY <1>8, <1>12, <2>1, <2>2, <2>5
  <2> HIDE DEF Counted, Placed, Owns, Named
  <2> QED  BY <2>3, <2>4, <2>6, <2>7
<1> HIDE DEF Counted, Placed, Owns, Named
<1> QED  BY <1>14, <1>15, <1>16, <1>17, <1>18, <1>19 DEF Does

(* The invariant holds at the start, and a step keeps it. *)
LEMMA ShownStarts == Shown!Init => ShownInv
<1> SUFFICES ASSUME Shown!Init PROVE ShownInv
  OBVIOUS
<1>1. /\ scene \in StreamScenes /\ given = {} /\ billed = [paid |-> 0, told |-> 0, chunks |-> 0, lost |-> FALSE]
      /\ stream = [l \in scene.streams |-> Shown!NewStream(1, 0, "call")] /\ sse = Shown!NoEvents
  BY DEF Shown!Init, Shown!Streams
<1>2. \A l \in scene.streams : StreamOK(stream[l]) /\ stream[l].pc = "call"
  BY <1>1, NewStreamOK
<1>3. /\ EventsOK(sse) /\ sse.tools = 0 /\ sse.started = {} /\ sse.ended = {} /\ sse.unnamed = {}
      /\ sse.reported = 0 /\ sse.estimated = 0
  BY <1>1, FS_EmptySet DEF Shown!NoEvents, EventsOK, EventFields
<1>4. ShownTypes
  BY <1>1, <1>2, <1>3 DEF ShownTypes, BillOK
<1>5. Telling = {} /\ \A l \in scene.streams : Pending(l) = {}
  BY <1>2 DEF Telling, Pending
<1>6. Cardinality({}) = 0
  BY FS_EmptySet
<1>7. BillInv
  BY <1>1, <1>3, <1>5, <1>6 DEF BillInv
<1>8. PairInv
  BY <1>1, <1>2, <1>3, <1>5, <1>6 DEF PairInv
<1> QED  BY <1>4, <1>7, <1>8 DEF ShownInv

LEMMA ShownSteps == ShownInv /\ [Shown!Next]_(Shown!vars) => ShownInv'
<1> SUFFICES ASSUME ShownInv, [Shown!Next]_(Shown!vars) PROVE ShownInv'
  OBVIOUS
<1>1. CASE Shown!Next
  <2>1. PICK l \in scene.streams : \E s : Does(l, s)
    BY <1>1, ShownMoves DEF ShownInv
  <2>2. PICK s : Does(l, s)
    BY <2>1
  <2>3. ShownTypes /\ BillInv /\ PairInv
    BY DEF ShownInv
  <2>4. ShownTypes'
    BY <2>2, <2>3, MovesOn DEF Does
  <2>5. BillInv'
    BY <2>2, <2>3, BillStep
  <2>6. PairInv'
    BY <2>2, <2>3, PairStep
  <2> QED  BY <2>4, <2>5, <2>6 DEF ShownInv
<1>2. CASE UNCHANGED Shown!vars
  <2> USE <1>2 DEF Shown!vars
  <2>1. ShownTypes'
    BY DEF ShownInv, ShownTypes, StreamOK, Pieces, EventsOK, BillOK
  <2>2. BillInv'
    <3>1. Telling' = Telling
      BY DEF Telling
    <3> QED  BY <3>1 DEF ShownInv, BillInv
  <2>3. PairInv'
    <3>1. \A l : Pending(l)' = Pending(l)
      BY DEF Pending, ScopedIds, Shown!Scoped, Shown!Numbered
    <3>2. \A l, id : Owned(l, id)' <=> Owned(l, id)
      BY DEF Owned
    <3>3. Shown!Apart' <=> Shown!Apart
      BY DEF Shown!Apart
    <3> QED  BY <3>1, <3>2, <3>3 DEF ShownInv, PairInv
  <2> QED  BY <2>1, <2>2, <2>3 DEF ShownInv
<1> QED  BY <1>1, <1>2

(* The invariant of the streams. *)
THEOREM StreamsKept == PartSpec => [](part = "stream" => ShownInv)
<1> DEFINE Inv == part = "stream" => ShownInv
<1>1. PartInit => Inv
  BY ShownStarts DEF PartInit
<1>2. Inv /\ [PartNext]_all => Inv'
  <2> SUFFICES ASSUME Inv, [PartNext]_all, part' = "stream" PROVE ShownInv'
    OBVIOUS
  <2>1. part = "stream" /\ [Shown!Next]_(Shown!vars)
    BY DEF PartNext, all, shows, Shown!vars
  <2> QED  BY <2>1, ShownSteps
<1> QED  BY <1>1, <1>2, PTL DEF PartSpec

(* A client that was told of an id is told of its result, however attempts   *)
(* break and rounds of parallel workers interleave, and the id is counted    *)
(* once (koraku_sse.py:102); the result is named after its tool as long as   *)
(* the provider sends ids and the calls found in texts are told apart.       *)
THEOREM PairsTools == PartSpec => []ToolsPaired
<1>1. ASSUME ShownInv, \A l \in scene.streams : stream[l].pc = "done"
      PROVE  /\ sse.started \ given \subseteq sse.ended
             /\ sse.tools = Shown!Cardinality(sse.ended \cup given)
             /\ scene.ids /\ Shown!Apart => sse.unnamed = {}
  <2>1. \A l \in scene.streams : Pending(l) = {}
    BY <1>1 DEF Pending
  <2>2. sse.started = sse.ended \cup given
    BY <1>1, <2>1 DEF ShownInv, PairInv
  <2> QED  BY <1>1, <2>2, ShownSets DEF ShownInv, PairInv
<1>2. (part = "stream" => ShownInv) => ToolsPaired
  BY <1>1 DEF ToolsPaired, Shown!ToolsPaired, Shown!Streams
<1> QED  BY <1>2, StreamsKept, PTL

(* No round is billed beyond what the provider reported of it and once more, *)
(* in as many chunks as it likes; and none is free, if the provider reports  *)
(* always or never and no attempt that reported was lost                     *)
(* (koraku_sse.py:557, credits/calculator.py:38).                            *)
THEOREM BillsRounds == PartSpec => []RoundsBilled
<1>1. ASSUME ShownInv
      PROVE  /\ Shown!Billed <= billed.paid + billed.chunks
             /\ /\ billed.told \in {0, billed.paid} /\ ~billed.lost
                /\ \A l \in scene.streams : stream[l].pc = "done"
                => billed.paid <= Shown!Billed
  <2>1. /\ billed.told \in Nat /\ billed.paid \in Nat /\ billed.chunks \in Nat
        /\ sse.reported \in Nat /\ sse.estimated \in Nat
    BY <1>1 DEF ShownInv, ShownTypes, EventsOK, BillOK
  <2>2. /\ sse.reported <= billed.chunks + billed.told /\ billed.told <= billed.paid
        /\ sse.reported = 0 => sse.estimated = billed.paid
    BY <1>1 DEF ShownInv, BillInv
  <2>3. ASSUME ~billed.lost, \A l \in scene.streams : stream[l].pc = "done"
        PROVE  billed.told <= sse.reported /\ (sse.reported > 0 => billed.told > 0)
    <3>1. Telling = {}
      BY <2>3 DEF Telling
    <3>2. Cardinality(Telling) = 0
      BY <3>1, FS_EmptySet
    <3> QED  BY <1>1, <2>1, <2>3, <3>2 DEF ShownInv, BillInv
  <2>4. Shown!Billed <= billed.paid + billed.chunks
    BY <2>1, <2>2 DEF Shown!Billed
  <2>5. ASSUME billed.told \in {0, billed.paid}, ~billed.lost, \A l \in scene.streams : stream[l].pc = "done"
        PROVE  billed.paid <= Shown!Billed
    BY <2>1, <2>2, <2>3, <2>5 DEF Shown!Billed
  <2> QED  BY <2>4, <2>5
<1>2. (part = "stream" => ShownInv) => RoundsBilled
  BY <1>1 DEF RoundsBilled, Shown!RoundsBilled, Shown!Streams
<1> QED  BY <1>2, StreamsKept, PTL
----------------------------------------------------------------------------
(* The files of a turn: Workspace. A step of a call does one of the things   *)
(* below to its file, and everything else leaves files alone.                *)

\* A set of naturals has a least element.
LEMMA LeastNat ==
    ASSUME NEW S \in SUBSET Nat, S # {}
    PROVE  File!Min(S) \in S
<1>1. PICK a \in S : \A b \in S : ~ (<<b, a>> \in OpToRel(<, Nat))
  BY Zenon, NatLessThanWellFounded, WFMin
<1>2. \A b \in S : ~ (b < a)
  BY <1>1 DEF OpToRel
<1>3. \A b \in S : a <= b
  <2> SUFFICES ASSUME NEW b \in S PROVE a <= b
    OBVIOUS
  <2>1. ~ (b < a) /\ a \in Nat /\ b \in Nat
    BY <1>2
  <2> QED  BY <2>1
<1> QED  BY <1>3 DEF File!Min

(* An edit replaces one text and leaves the others. *)
LEMMA Replaces ==
    ASSUME NEW C, NEW s \in Seq(C), NEW old, NEW c \in C
    PROVE  /\ File!Replace(s, old, c) \in Seq(C)
           /\ \A x : x \in File!ToSet(s) /\ x # old => x \in File!ToSet(File!Replace(s, old, c))
           /\ old \in File!ToSet(s) => c \in File!ToSet(File!Replace(s, old, c))
<1> DEFINE I == {i \in 1..Len(s) : s[i] = old}
           j == IF I # {} THEN File!Min(I) ELSE 0
           r == [i \in DOMAIN s |-> IF i = j THEN c ELSE s[i]]
<1>1. File!Replace(s, old, c) = r
  BY DEF File!Replace, File!SelectInSeq
<1>2. DOMAIN s = 1..Len(s) /\ Len(s) \in Nat
  OBVIOUS
<1>3. I # {} => File!Min(I) \in I
  <2>1. I \in SUBSET Nat
    OBVIOUS
  <2> HIDE DEF I
  <2> QED  BY <2>1, LeastNat
<1>4. /\ \A i \in DOMAIN s : i = j => s[i] = old
      /\ old \in File!ToSet(s) => j \in DOMAIN s
  <2>1. j \in DOMAIN s => s[j] = old
    <3>1. CASE I = {}
      BY <1>2, <3>1
    <3>2. CASE I # {}
      BY <1>3, <3>2
    <3> QED  BY <3>1, <3>2
  <2>2. ASSUME old \in File!ToSet(s) PROVE j \in DOMAIN s
    <3>1. I # {}
      BY <1>2, <2>2 DEF File!ToSet
    <3> QED  BY <1>2, <1>3, <3>1
  <2> QED  BY <2>1, <2>2
<1> HIDE DEF I, j
<1>5. r \in Seq(C)
  BY <1>2
<1>6. ASSUME NEW x \in File!ToSet(s), x # old PROVE x \in File!ToSet(r)
  BY <1>4, <1>6 DEF File!ToSet
<1>7. old \in File!ToSet(s) => c \in File!ToSet(r)
  BY <1>4 DEF File!ToSet
<1> QED  BY <1>1, <1>5, <1>6, <1>7

\* A text is made of the pieces of calls, and of what failed writes left.
Texts == Seq({0} \cup File!Calls)

\* The types that the steps need of one another.
Handling == {"idle", "attach", "locked", "read", "write", "verify", "export", "done"}
FileTypes ==
    /\ setting \in FileScenes
    /\ round \in Nat
    /\ doing \in [File!Calls -> Handling]
    /\ told \in [File!Calls -> {"none", "ok", "error"}]
    /\ tries \in [File!Calls -> Nat]
    /\ got \in [File!Calls -> Texts]
    /\ disk \in [File!Files -> Texts]
    /\ last \in [File!Files -> {0} \cup File!Calls]
    /\ queued \in Seq([file : File!Files, text : Texts])
    /\ DOMAIN mishaps = {"faults", "marred", "timeout", "gone", "unsent"}

\* A call goes to a place, and the model is told a result.
GoesTo(c, place, result) ==
    /\ setting' = setting /\ round' = round
    /\ place \in Handling /\ doing' = [doing EXCEPT ![c] = place]
    /\ result \in {"none", "ok", "error"} /\ told' = [told EXCEPT ![c] = result]
    /\ place # "done" => result = told[c]
    /\ place = "done" => result # "none"
    /\ DOMAIN mishaps' = DOMAIN mishaps
    /\ mishaps'.timeout = mishaps.timeout /\ mishaps'.gone = mishaps.gone
    /\ mishaps.marred \subseteq mishaps'.marred /\ (mishaps.unsent => mishaps'.unsent)
Tried(c, place) ==
    /\ tries' \in [File!Calls -> Nat]
    /\ \A d \in File!Calls : tries[d] <= tries'[d] /\ (d # c => tries'[d] = tries[d])
    /\ place = "idle" => tries'[c] > 0
SameFiles == UNCHANGED <<disk, last, queued>>

\* It begins, gets its VM, looks something up, or fails before it has read.
Walks(c, place, result) ==
    /\ doing[c] \notin {"write", "verify", "export", "done"} /\ place \notin {"verify", "export"}
    /\ doing[c] = "idle" => File!Plan(c).round = round /\ told[c] = "none"
    /\ place = "write" => File!Modifies(c) /\ ~File!ReadsFirst(c)
    /\ result = "ok" /\ told[c] # "ok" => ~File!Modifies(c)
    /\ SameFiles /\ UNCHANGED got
\* It reads the text that it is going to change, or takes it for empty.
Reads(c, place, result) ==
    /\ doing[c] = "read" /\ place = "write" /\ File!Modifies(c)
    /\ SameFiles
    /\ \/ /\ got' = [got EXCEPT ![c] = disk[File!File(c)]]
          /\ File!Plan(c).op = "edit" => File!Plan(c).old \in File!ToSet(disk[File!File(c)])
       \/ /\ got' = [got EXCEPT ![c] = <<>>] /\ File!Plan(c).op = "append"
          /\ File!File(c) \in mishaps'.marred
\* It writes, and is done but for what a document or an attachment needs.
Applies(c) ==
    /\ disk' = [disk EXCEPT ![File!File(c)] = File!Text(c)]
    /\ last' = [last EXCEPT ![File!File(c)] = c]
Writes(c, place, result) ==
    /\ doing[c] = "write" /\ place \in {"done", "verify", "export"}
    /\ place = "verify" => File!Plan(c).op = "build"
    /\ told[c] = "none" /\ place = "done" /\ File!Captured(c) => ~File!Cloud
    /\ Applies(c) /\ File!QueueHostFile(c) /\ UNCHANGED got
\* It fails, and has written all, nothing or a part, in place of what it read.
Breaks(c) == File!Truncated(c) /\ (File!ReadsFirst(c) => File!File(c) \in mishaps'.marred)
Errs(c, place, result) ==
    /\ doing[c] = "write" /\ place \in {"idle", "done"} /\ (result = "ok" => told[c] = "ok")
    /\ Applies(c) \/ UNCHANGED <<disk, last>> \/ Breaks(c)
    /\ UNCHANGED <<queued, got>>
\* A document is there, or not.
Verifies(c, place, result) ==
    /\ doing[c] = "verify" /\ place \in {"idle", "done"} /\ SameFiles /\ UNCHANGED got
\* The file is fetched for the attachments, or not.
Exports(c, place, result) ==
    /\ doing[c] = "export" /\ place = "done" /\ result = "ok"
    /\ File!QueueVmFile(c) \/ (mishaps'.unsent /\ UNCHANGED queued)
    /\ UNCHANGED <<disk, last, got>>

Handles(c, place, result) ==
    /\ GoesTo(c, place, result) /\ Tried(c, place)
    /\ \/ Walks(c, place, result) \/ Reads(c, place, result) \/ Writes(c, place, result)
       \/ Errs(c, place, result) \/ Verifies(c, place, result) \/ Exports(c, place, result)

\* What concerns the VM, the end of a round, and what goes wrong.
Stands ==
    /\ UNCHANGED <<setting, doing, told, tries, got, disk, last, queued, mishaps>>
    /\ \/ round' = round
       \/ round' = round + 1 /\ \A c \in File!Calls : File!Plan(c).round = round => told[c] # "none"
Cuts ==
    /\ setting' = setting /\ round' = round + 1 /\ UNCHANGED <<tries, got, disk, last, queued>>
    /\ mishaps' = [mishaps EXCEPT !.timeout = TRUE]
    /\ doing' \in [File!Calls -> Handling] /\ told' \in [File!Calls -> {"none", "ok", "error"}]
    /\ \A c \in File!Calls : doing'[c] \in {doing[c], "done"}
    /\ \A c \in File!Calls : doing'[c] # doing[c] => File!Plan(c).round = round
Wipes ==
    /\ UNCHANGED <<setting, round, doing, told, tries, got, queued>>
    /\ disk' = [f \in File!Files |-> <<>>] /\ last' = [f \in File!Files |-> 0]
    /\ DOMAIN mishaps' = DOMAIN mishaps /\ mishaps'.gone = TRUE /\ mishaps'.timeout = mishaps.timeout
    /\ mishaps'.marred = mishaps.marred /\ mishaps'.unsent = mishaps.unsent

(* What a scene says of a call. *)
LEMMA PlanOK ==
    ASSUME FileTypes, NEW c \in File!Calls
    PROVE  /\ File!Plan(c).op \in File!Writing \cup {"read", "find"} /\ File!Plan(c).round \in Nat
           /\ File!File(c) \in File!Files
BY TurnAssumption DEF FileTypes, File!Plan, File!Calls, File!File, File!Files

LEMMA SameTold ==
    ASSUME FileTypes, NEW c \in File!Calls
    PROVE  told = [told EXCEPT ![c] = told[c]] /\ told[c] \in {"none", "ok", "error"}
BY DEF FileTypes

LEMMA SameTries ==
    ASSUME FileTypes, NEW c \in File!Calls, NEW place, place # "idle", tries' = tries
    PROVE  Tried(c, place)
BY DEF FileTypes, Tried

LEMMA FailedSteps ==
    ASSUME FileTypes, NEW c \in File!Calls, File!Failed(c)
    PROVE  \E place \in {"idle", "done"}, result \in {"none", "ok", "error"} :
              /\ doing' = [doing EXCEPT ![c] = place] /\ told' = [told EXCEPT ![c] = result]
              /\ place = "done" => result = "error"
              /\ place = "idle" => result = told[c]
              /\ Tried(c, place)
<1>1. tries' = [tries EXCEPT ![c] = @ + 1]
  BY DEF File!Failed
<1>2. \A place : Tried(c, place)
  BY <1>1 DEF FileTypes, Tried
<1>3. CASE tries[c] < setting.retries
  BY <1>2, <1>3, SameTold DEF File!Failed, File!Goes
<1>4. CASE ~(tries[c] < setting.retries)
  BY <1>2, <1>4 DEF File!Failed, File!Answered
<1> QED  BY <1>3, <1>4

(* What is counted as a mishap. *)
SameMishaps ==
    /\ DOMAIN mishaps' = DOMAIN mishaps
    /\ mishaps'.timeout = mishaps.timeout /\ mishaps'.gone = mishaps.gone
    /\ mishaps.marred \subseteq mishaps'.marred /\ (mishaps.unsent => mishaps'.unsent)

LEMMA MishapSteps ==
    ASSUME FileTypes,
           \/ mishaps' = mishaps \/ mishaps' = File!Faulty(mishaps)
           \/ mishaps' = [File!Faulty(mishaps) EXCEPT !.unsent = TRUE] \/ mishaps' = [mishaps EXCEPT !.unsent = TRUE]
           \/ \E f : mishaps' = [File!Faulty(mishaps) EXCEPT !.marred = @ \cup {f}]
    PROVE  SameMishaps
BY DEF FileTypes, File!Faulty, SameMishaps

(* The steps of a handler that touch no file. *)
LEMMA FailureWalks ==
    ASSUME FileTypes, NEW c \in File!Calls, File!Failed(c), setting' = setting, round' = round, SameMishaps,
           doing[c] \notin {"write", "verify", "export", "done"},
           doing[c] = "idle" => File!Plan(c).round = round /\ told[c] = "none", SameFiles, got' = got
    PROVE  \E place, result : Handles(c, place, result)
<1>1. PICK place \in {"idle", "done"}, result \in {"none", "ok", "error"} :
          /\ doing' = [doing EXCEPT ![c] = place] /\ told' = [told EXCEPT ![c] = result]
          /\ place = "done" => result = "error"
          /\ place = "idle" => result = told[c]
          /\ Tried(c, place)
  BY FailedSteps
<1>2. GoesTo(c, place, result)
  BY <1>1 DEF GoesTo, Handling, SameMishaps
<1>3. Walks(c, place, result)
  BY <1>1 DEF Walks
<1> QED  BY <1>1, <1>2, <1>3 DEF Handles

LEMMA PlaceWalks ==
    ASSUME FileTypes, NEW c \in File!Calls, NEW place \in {"attach", "locked", "read", "write"}, File!Goes(c, place),
           setting' = setting, round' = round, SameMishaps, tries' = tries,
           doing[c] \notin {"write", "verify", "export", "done"},
           doing[c] = "idle" => File!Plan(c).round = round /\ told[c] = "none", SameFiles, got' = got,
           place = "write" => File!Modifies(c) /\ ~File!ReadsFirst(c)
    PROVE  \E p, result : Handles(c, p, result)
<1>1. doing' = [doing EXCEPT ![c] = place] /\ told' = [told EXCEPT ![c] = told[c]] /\ told[c] \in {"none", "ok", "error"}
  BY SameTold DEF File!Goes
<1>2. Tried(c, place)
  BY SameTries
<1>3. GoesTo(c, place, told[c])
  BY <1>1 DEF GoesTo, Handling, SameMishaps
<1>4. Walks(c, place, told[c])
  BY DEF Walks
<1> QED  BY <1>2, <1>3, <1>4 DEF Handles

LEMMA FirstStepOK ==
    ASSUME FileTypes, NEW c \in File!Calls
    PROVE  /\ File!FirstStep(c) \in {"read", "write"}
           /\ File!FirstStep(c) = "write" => File!Modifies(c) /\ ~File!ReadsFirst(c)
BY PlanOK DEF File!FirstStep, File!Modifies, File!ReadsFirst

LEMMA AttachDoes ==
    ASSUME FileTypes, NEW c \in File!Calls,
           File!Begin(c) \/ File!Lock(c) \/ File!Attach(c) \/ File!AttachFails(c)
    PROVE  \E place, result : Handles(c, place, result)
<1>1. setting' = setting /\ round' = round /\ got' = got /\ queued' = queued
  BY DEF File!Begin, File!Lock, File!Attach, File!AttachFails
<1>2. disk' = disk /\ last' = last
  BY DEF File!Begin, File!Lock, File!Attach, File!AttachFails, File!HaveVM, File!fileVars
<1>3. SameMishaps
  BY MishapSteps DEF File!Begin, File!Lock, File!Attach, File!AttachFails
<1>4. SameFiles
  BY <1>1, <1>2 DEF SameFiles
<1>5. CASE File!Begin(c)
  <2>1. doing[c] = "idle" /\ told[c] = "none" /\ File!Plan(c).round = round
    BY <1>5 DEF File!Begin, File!Live
  <2>2. CASE File!Failed(c)
    BY <1>1, <1>3, <1>4, <2>1, <2>2, FailureWalks
  <2>3. CASE ~File!Failed(c)
    <3>1. tries' = tries /\ (File!Goes(c, "attach") \/ File!Goes(c, File!FirstStep(c)))
      BY <1>5, <2>3 DEF File!Begin
    <3> QED  BY <1>1, <1>3, <1>4, <2>1, <3>1, FirstStepOK, PlaceWalks
  <2> QED  BY <2>2, <2>3
<1>6. CASE File!Lock(c)
  <2>1. doing[c] = "attach" /\ tries' = tries /\ File!Goes(c, "locked")
    BY <1>6 DEF File!Lock
  <2> QED  BY <1>1, <1>3, <1>4, <2>1, PlaceWalks
<1>7. CASE File!Attach(c)
  <2>1. doing[c] = "locked" /\ tries' = tries /\ File!Goes(c, File!FirstStep(c))
    BY <1>7 DEF File!Attach
  <2> QED  BY <1>1, <1>3, <1>4, <2>1, FirstStepOK, PlaceWalks
<1>8. CASE File!AttachFails(c)
  <2>1. doing[c] = "locked" /\ File!Failed(c)
    BY <1>8 DEF File!AttachFails
  <2> QED  BY <1>1, <1>3, <1>4, <2>1, FailureWalks
<1> QED  BY <1>5, <1>6, <1>7, <1>8

(* A Read, a Glob or a Grep is answered, or nobody waits for it any more. *)
LEMMA AnswerWalks ==
    ASSUME FileTypes, NEW c \in File!Calls, NEW result \in {"ok", "error"},
           IF File!Live(c) THEN File!Answered(c, result) ELSE File!Goes(c, "done"),
           setting' = setting, round' = round, SameMishaps, tries' = tries,
           doing[c] = "read", SameFiles, got' = got, result = "ok" => ~File!Modifies(c)
    PROVE  \E p, r : Handles(c, p, r)
<1>1. PICK r \in {"none", "ok", "error"} :
          /\ doing' = [doing EXCEPT ![c] = "done"] /\ told' = [told EXCEPT ![c] = r]
          /\ r # "none" /\ (r = "ok" /\ told[c] # "ok" => ~File!Modifies(c))
  <2>1. CASE File!Live(c)
    BY <2>1 DEF File!Answered
  <2>2. CASE ~File!Live(c)
    <3>1. told[c] # "none" /\ doing' = [doing EXCEPT ![c] = "done"] /\ told' = told
      BY <2>2 DEF File!Live, File!Goes
    <3> QED  BY <3>1, SameTold
  <2> QED  BY <2>1, <2>2
<1>2. Tried(c, "done")
  BY SameTries
<1>3. GoesTo(c, "done", r)
  BY <1>1 DEF GoesTo, Handling, SameMishaps
<1>4. Walks(c, "done", r)
  BY <1>1 DEF Walks
<1> QED  BY <1>2, <1>3, <1>4 DEF Handles

LEMMA ReadDoes ==
    ASSUME FileTypes, NEW c \in File!Calls,
           File!Read(c) \/ File!Find(c) \/ File!ReadText(c) \/ File!NotFound(c) \/ File!ReadFails(c)
    PROVE  \E place, result : Handles(c, place, result)
<1>1. setting' = setting /\ round' = round /\ doing[c] = "read" /\ SameFiles
  BY DEF File!Read, File!Find, File!ReadText, File!NotFound, File!ReadFails, File!fileVars, SameFiles
<1>2. CASE File!Read(c) \/ File!Find(c)
  <2>1. SameMishaps
    BY <1>2, MishapSteps DEF File!Read, File!Find
  <2>2. ~File!Modifies(c)
    BY <1>2 DEF File!Read, File!Find, File!Modifies, File!Writing
  <2>3. /\ IF File!Live(c) THEN File!Answered(c, "ok") ELSE File!Goes(c, "done")
        /\ tries' = tries /\ got' = got
    BY <1>2 DEF File!Read, File!Find
  <2> QED  BY <1>1, <2>1, <2>2, <2>3, AnswerWalks
<1>3. CASE File!ReadText(c)
  <2>1. /\ doing' = [doing EXCEPT ![c] = "write"] /\ told' = [told EXCEPT ![c] = told[c]] /\ told[c] \in {"none", "ok", "error"}
        /\ tries' = tries
    BY <1>3, SameTold DEF File!ReadText, File!Goes
  <2>2. SameMishaps
    BY <1>3, MishapSteps DEF File!ReadText
  <2>3. Tried(c, "write")
    BY <2>1, SameTries
  <2>4. GoesTo(c, "write", told[c])
    BY <1>1, <2>1, <2>2 DEF GoesTo, Handling, SameMishaps
  <2>5. Reads(c, "write", told[c])
    BY <1>1, <1>3 DEF Reads, File!ReadText, File!Finds
  <2> QED  BY <2>3, <2>4, <2>5 DEF Handles
<1>4. CASE File!NotFound(c)
  <2>1. SameMishaps /\ got' = got
    BY <1>4, MishapSteps DEF File!NotFound
  <2>2. CASE File!Live(c)
    BY <1>1, <1>4, <2>1, <2>2, FailureWalks DEF File!NotFound
  <2>3. CASE ~File!Live(c)
    BY <1>1, <1>4, <2>1, <2>3, AnswerWalks DEF File!NotFound
  <2> QED  BY <2>2, <2>3
<1>5. CASE File!ReadFails(c)
  <2>1. PICK m \in {mishaps, File!Faulty(mishaps)} :
            mishaps' = IF File!Plan(c).op = "append" THEN [m EXCEPT !.marred = @ \cup {File!File(c)}] ELSE m
    BY <1>5 DEF File!ReadFails
  <2>2. SameMishaps /\ (File!Plan(c).op = "append" => File!File(c) \in mishaps'.marred)
    BY <2>1 DEF FileTypes, File!Faulty, SameMishaps
  <2>3. CASE File!Plan(c).op = "append"
    <3>1. /\ doing' = [doing EXCEPT ![c] = "write"] /\ told' = [told EXCEPT ![c] = told[c]]
          /\ told[c] \in {"none", "ok", "error"} /\ tries' = tries
          /\ got' = [got EXCEPT ![c] = <<>>]
      BY <1>5, <2>3, SameTold DEF File!ReadFails, File!Goes
    <3>2. Tried(c, "write")
      BY <3>1, SameTries
    <3>3. GoesTo(c, "write", told[c])
      BY <1>1, <2>2, <3>1 DEF GoesTo, Handling, SameMishaps
    <3>4. Reads(c, "write", told[c])
      BY <1>1, <2>2, <2>3, <3>1 DEF Reads, File!Modifies, File!Writing
    <3> QED  BY <3>2, <3>3, <3>4 DEF Handles
  <2>4. CASE File!Plan(c).op # "append"
    <3>1. got' = got
      BY <1>5, <2>4 DEF File!ReadFails
    <3>2. CASE File!Live(c)
      <4>1. File!Failed(c)
        BY <1>5, <2>4, <3>2 DEF File!ReadFails
      <4> QED  BY <1>1, <2>2, <3>1, <4>1, FailureWalks
    <3>3. CASE ~File!Live(c)
      <4>1. File!Goes(c, "done") /\ tries' = tries
        BY <1>5, <2>4, <3>3 DEF File!ReadFails
      <4>2. IF File!Live(c) THEN File!Answered(c, "error") ELSE File!Goes(c, "done")
        BY <3>3, <4>1
      <4> QED  BY <1>1, <2>2, <3>1, <4>1, <4>2, AnswerWalks
    <3> QED  BY <3>2, <3>3
  <2> QED  BY <2>3, <2>4
<1> QED  BY <1>2, <1>3, <1>4, <1>5

(* The steps of a handler that write, look after a document, or fetch a file. *)
LEMMA WriteDoes ==
    ASSUME FileTypes, NEW c \in File!Calls, File!Write(c)
    PROVE  \E place, result : Handles(c, place, result)
<1>1. PICK place \in {"done", "verify", "export"}, result \in {"none", "ok", "error"} :
          /\ doing' = [doing EXCEPT ![c] = place] /\ told' = [told EXCEPT ![c] = result]
          /\ place # "done" => result = told[c]
          /\ place = "done" => result # "none"
          /\ place = "verify" => File!Plan(c).op = "build"
          /\ told[c] = "none" /\ place = "done" /\ File!Captured(c) => ~File!Cloud
  <2>1. CASE ~File!Live(c)
    <3>1. told[c] # "none" /\ doing' = [doing EXCEPT ![c] = "done"] /\ told' = told
      BY <2>1 DEF File!Live, File!Goes, File!Write
    <3> QED  BY <3>1, SameTold
  <2>2. CASE File!Live(c) /\ File!Plan(c).op = "build"
    <3>1. doing' = [doing EXCEPT ![c] = "verify"] /\ told' = told
      BY <2>2 DEF File!Goes, File!Write
    <3> QED  BY <2>2, <3>1, SameTold
  <2>3. CASE File!Live(c) /\ File!Plan(c).op # "build" /\ File!Cloud /\ File!Captured(c)
    <3>1. doing' = [doing EXCEPT ![c] = "export"] /\ told' = told
      BY <2>3 DEF File!Goes, File!Write
    <3> QED  BY <3>1, SameTold
  <2>4. CASE File!Live(c) /\ File!Plan(c).op # "build" /\ ~(File!Cloud /\ File!Captured(c))
    <3>1. doing' = [doing EXCEPT ![c] = "done"] /\ told' = [told EXCEPT ![c] = "ok"]
      BY <2>4 DEF File!Answered, File!Write
    <3> QED  BY <2>4, <3>1
  <2> QED  BY <2>1, <2>2, <2>3, <2>4
<1>2. Tried(c, place)
  BY SameTries DEF File!Write
<1>3. SameMishaps
  BY MishapSteps DEF File!Write
<1>4. GoesTo(c, place, result)
  BY <1>1, <1>3 DEF GoesTo, Handling, SameMishaps, File!Write
<1>5. Writes(c, place, result)
  BY <1>1 DEF Writes, Applies, File!Write, File!Applied
<1> QED  BY <1>2, <1>4, <1>5 DEF Handles

LEMMA EndDoes ==
    ASSUME FileTypes, NEW c \in File!Calls, File!WriteFails(c) \/ File!Verify(c) \/ File!Export(c)
    PROVE  \E place, result : Handles(c, place, result)
<1>1. setting' = setting /\ round' = round /\ got' = got
  BY DEF File!WriteFails, File!Verify, File!Export
<1>2. SameMishaps
  <2>1. CASE File!WriteFails(c)
    <3>1. \/ mishaps' = mishaps \/ mishaps' = File!Faulty(mishaps)
          \/ mishaps' = [File!Faulty(mishaps) EXCEPT !.marred = IF File!ReadsFirst(c) THEN @ \cup {File!File(c)} ELSE @]
      BY <2>1 DEF File!WriteFails
    <3>2. CASE mishaps' = [File!Faulty(mishaps) EXCEPT !.marred = IF File!ReadsFirst(c) THEN @ \cup {File!File(c)} ELSE @]
      BY <3>2 DEF FileTypes, File!Faulty, SameMishaps
    <3> QED  BY <3>1, <3>2, MishapSteps
  <2>2. CASE File!Verify(c) \/ File!Export(c)
    BY <2>2, MishapSteps DEF File!Verify, File!Export
  <2> QED  BY <2>1, <2>2
<1>3. CASE File!WriteFails(c)
  <2>1. doing[c] = "write" /\ queued' = queued /\ (Applies(c) \/ UNCHANGED <<disk, last>> \/ Breaks(c))
    <3>1. doing[c] = "write" /\ queued' = queued
      BY <1>3 DEF File!WriteFails
    <3>2. \/ File!Applied(c) \/ UNCHANGED <<disk, last>>
          \/ /\ File!Truncated(c)
             /\ mishaps' = [File!Faulty(mishaps) EXCEPT !.marred = IF File!ReadsFirst(c) THEN @ \cup {File!File(c)} ELSE @]
      BY <1>3 DEF File!WriteFails, File!fileVars
    <3>3. ASSUME File!Truncated(c),
                 mishaps' = [File!Faulty(mishaps) EXCEPT !.marred = IF File!ReadsFirst(c) THEN @ \cup {File!File(c)} ELSE @]
          PROVE  Breaks(c)
      BY <3>3 DEF Breaks, FileTypes, File!Faulty
    <3> QED  BY <3>1, <3>2, <3>3 DEF File!Applied, Applies
  <2>2. PICK place \in {"idle", "done"}, result \in {"none", "ok", "error"} :
            /\ doing' = [doing EXCEPT ![c] = place] /\ told' = [told EXCEPT ![c] = result]
            /\ place = "done" => result # "none" /\ (result = "ok" => told[c] = "ok")
            /\ place = "idle" => result = told[c]
            /\ Tried(c, place)
    <3>1. CASE File!Live(c)
      <4>1. File!Failed(c)
        BY <1>3, <3>1 DEF File!WriteFails
      <4> QED  BY <4>1, FailedSteps
    <3>2. CASE ~File!Live(c)
      <4>1. told[c] # "none" /\ doing' = [doing EXCEPT ![c] = "done"] /\ told' = told /\ tries' = tries
        BY <1>3, <3>2 DEF File!WriteFails, File!Live, File!Goes
      <4>2. Tried(c, "done")
        BY <4>1, SameTries
      <4> QED  BY <4>1, <4>2, SameTold
    <3> QED  BY <3>1, <3>2
  <2>3. GoesTo(c, place, result)
    BY <1>1, <1>2, <2>2 DEF GoesTo, Handling, SameMishaps
  <2>4. Errs(c, place, result)
    BY <1>1, <2>1, <2>2 DEF Errs
  <2> QED  BY <2>2, <2>3, <2>4 DEF Handles
<1>4. CASE File!Verify(c)
  <2>1. doing[c] = "verify" /\ SameFiles
    BY <1>4 DEF File!Verify, File!fileVars, SameFiles
  <2>2. PICK place \in {"idle", "done"}, result \in {"none", "ok", "error"} :
            /\ doing' = [doing EXCEPT ![c] = place] /\ told' = [told EXCEPT ![c] = result]
            /\ place = "done" => result # "none"
            /\ place = "idle" => result = told[c]
            /\ Tried(c, place)
    <3>1. CASE File!Failed(c)
      BY <3>1, FailedSteps
    <3>2. CASE ~File!Failed(c)
      <4>1. File!Answered(c, "ok") /\ tries' = tries
        BY <1>4, <3>2 DEF File!Verify
      <4>2. Tried(c, "done")
        BY <4>1, SameTries
      <4> QED  BY <4>1, <4>2 DEF File!Answered
    <3> QED  BY <3>1, <3>2
  <2>3. GoesTo(c, place, result)
    BY <1>1, <1>2, <2>2 DEF GoesTo, Handling, SameMishaps
  <2>4. Verifies(c, place, result)
    BY <1>1, <2>1, <2>2 DEF Verifies
  <2> QED  BY <2>2, <2>3, <2>4 DEF Handles
<1>5. CASE File!Export(c)
  <2>1. doing' = [doing EXCEPT ![c] = "done"] /\ told' = [told EXCEPT ![c] = "ok"] /\ tries' = tries
    BY <1>5 DEF File!Export, File!Answered
  <2>2. Tried(c, "done")
    BY <2>1, SameTries
  <2>3. GoesTo(c, "done", "ok")
    BY <1>1, <1>2, <2>1 DEF GoesTo, Handling, SameMishaps
  <2>4. Exports(c, "done", "ok")
    BY <1>1, <1>5 DEF Exports, File!Export, File!fileVars, File!Faulty, FileTypes
  <2> QED  BY <2>2, <2>3, <2>4 DEF Handles
<1> QED  BY <1>3, <1>4, <1>5

(* What no handler does. *)
LEMMA StandsDoes ==
    ASSUME FileTypes, File!Browse \/ File!EvictLock \/ File!Age \/ File!NextRound
    PROVE  Stands
<1>1. UNCHANGED <<setting, doing, told, tries, got, disk, last, queued, mishaps>>
  BY DEF File!Browse, File!HaveVM, File!EvictLock, File!Age, File!NextRound, File!turnVars, File!fileVars
<1>2. CASE File!Browse \/ File!EvictLock \/ File!Age
  <2>1. round' = round
    BY <1>2 DEF File!Browse, File!EvictLock, File!Age, File!turnVars
  <2> QED  BY <1>1, <2>1 DEF Stands
<1>3. CASE File!NextRound
  <2>1. round' = round + 1 /\ \A c \in File!Calls : File!Plan(c).round = round => told[c] # "none"
    BY <1>3 DEF File!NextRound, File!InRound, File!Live
  <2> QED  BY <1>1, <2>1 DEF Stands
<1> QED  BY <1>2, <1>3

LEMMA TimeoutCuts ==
    ASSUME FileTypes, File!Timeout
    PROVE  Cuts
<1>1. PICK on \in SUBSET File!Calls :
          doing' = [c \in File!Calls |-> IF c \in File!InRound \ on THEN "done" ELSE doing[c]]
  BY DEF File!Timeout, File!InRound
<1>2. doing' \in [File!Calls -> Handling]
  BY <1>1 DEF FileTypes, Handling
<1>3. /\ \A c \in File!Calls : doing'[c] \in {doing[c], "done"}
      /\ \A c \in File!Calls : doing'[c] # doing[c] => File!Plan(c).round = round
  BY <1>1 DEF File!InRound
<1>4. told' \in [File!Calls -> {"none", "ok", "error"}]
  BY DEF File!Timeout, FileTypes
<1> QED  BY <1>2, <1>3, <1>4 DEF Cuts, File!Timeout, File!fileVars

LEMMA VmGoneWipes ==
    ASSUME FileTypes, File!VmGone
    PROVE  Wipes
BY DEF FileTypes, File!VmGone, File!Faulty, File!turnVars, Wipes

LEMMA FilesMove ==
    ASSUME FileTypes, File!Next
    PROVE  (\E c \in File!Calls : \E place, result : Handles(c, place, result)) \/ Stands \/ Cuts \/ Wipes
<1>1. ASSUME NEW c \in File!Calls, File!Handler(c)
      PROVE  \E place, result : Handles(c, place, result)
  BY <1>1, AttachDoes, ReadDoes, WriteDoes, EndDoes DEF File!Handler
<1> QED  BY <1>1, StandsDoes, TimeoutCuts, VmGoneWipes DEF File!Next
----------------------------------------------------------------------------
(* The types are kept.                                                      *)
LEMMA SameScene ==
    ASSUME setting' = setting
    PROVE  /\ File!Calls' = File!Calls /\ File!Files' = File!Files /\ (File!Cloud <=> File!Cloud')
           /\ \A c : File!Plan(c)' = File!Plan(c) /\ File!File(c)' = File!File(c)
           /\ \A c : (File!Modifies(c)' <=> File!Modifies(c)) /\ (File!Captured(c)' <=> File!Captured(c))
           /\ \A c : (File!ReadsFirst(c)' <=> File!ReadsFirst(c))
           /\ Texts' = Texts
BY DEF Texts, File!Calls, File!Files, File!Cloud, File!Plan, File!File, File!Modifies, File!Captured, File!ReadsFirst

LEMMA WrittenTyped ==
    ASSUME FileTypes, NEW c \in File!Calls
    PROVE  File!Text(c) \in Texts
<1>1. got[c] \in Texts /\ disk[File!File(c)] \in Texts /\ <<c>> \in Texts
  BY PlanOK DEF FileTypes, Texts
<1>2. File!Replace(got[c], File!Plan(c).old, c) \in Texts
  BY <1>1, Replaces DEF Texts
<1>3. \A s \in Texts : Append(s, c) \in Texts
  BY DEF Texts
<1> QED  BY <1>1, <1>2, <1>3 DEF File!Text

Entry == [file : File!Files, text : Texts]
LEMMA QueueTyped ==
    ASSUME FileTypes, NEW c \in File!Calls, File!QueueHostFile(c) \/ File!QueueVmFile(c) \/ queued' = queued
    PROVE  /\ queued' \in Seq(Entry) /\ Len(queued) <= Len(queued') /\ File!ToSet(queued) \subseteq File!ToSet(queued')
<1>1. queued \in Seq(Entry) /\ Len(queued) \in Nat
  BY DEF FileTypes, Entry
<1>2. PICK e \in Entry : queued' = queued \/ queued' = Append(queued, e)
  <2>1. [file |-> File!File(c), text |-> <<>>] \in Entry /\ [file |-> File!File(c), text |-> disk[File!File(c)]] \in Entry
    BY PlanOK DEF FileTypes, Entry, Texts
  <2> QED  BY <2>1 DEF File!QueueHostFile, File!QueueVmFile
<1>3. CASE queued' = queued
  BY <1>1, <1>3
<1>4. CASE queued' = Append(queued, e)
  <2>1. queued' \in Seq(Entry) /\ Len(queued') = Len(queued) + 1
    BY <1>1, <1>4
  <2>2. \A i \in DOMAIN queued : i \in DOMAIN queued' /\ queued'[i] = queued[i]
    BY <1>1, <1>4
  <2> QED  BY <1>1, <2>1, <2>2 DEF File!ToSet
<1> QED  BY <1>2, <1>3, <1>4

LEMMA HandlesTyped ==
    ASSUME FileTypes, NEW c \in File!Calls, NEW place, NEW result, Handles(c, place, result)
    PROVE  FileTypes'
<1> USE SameScene
<1>1. /\ setting' = setting /\ round' = round /\ tries' \in [File!Calls -> Nat] /\ DOMAIN mishaps' = DOMAIN mishaps
      /\ doing' \in [File!Calls -> Handling] /\ told' \in [File!Calls -> {"none", "ok", "error"}]
  BY DEF FileTypes, Handles, GoesTo, Tried
<1>2. got' \in [File!Calls -> Texts]
  <2>1. disk[File!File(c)] \in Texts /\ <<>> \in Texts
    BY PlanOK DEF FileTypes, Texts
  <2>2. got' = got \/ got' = [got EXCEPT ![c] = disk[File!File(c)]] \/ got' = [got EXCEPT ![c] = <<>>]
    BY DEF Handles, Walks, Reads, Writes, Errs, Verifies, Exports
  <2> QED  BY <2>1, <2>2 DEF FileTypes
<1>3. disk' \in [File!Files -> Texts] /\ last' \in [File!Files -> {0} \cup File!Calls]
  <2>1. Applies(c) \/ (disk' = disk /\ last' = last) \/ File!Truncated(c)
    BY DEF Handles, Walks, Reads, Writes, Errs, Verifies, Exports, SameFiles, Breaks
  <2>2. <<0>> \in Texts /\ \A s \in Texts : Append(s, 0) \in Texts
    BY DEF Texts
  <2>3. CASE File!Truncated(c)
    BY <2>2, <2>3 DEF FileTypes, File!Truncated
  <2>4. File!Text(c) \in Texts /\ disk \in [File!Files -> Texts] /\ last \in [File!Files -> {0} \cup File!Calls]
    BY WrittenTyped DEF FileTypes
  <2>5. CASE Applies(c)
    BY <2>4, <2>5 DEF Applies
  <2>6. CASE disk' = disk /\ last' = last
    BY <2>4, <2>6
  <2> QED  BY <2>1, <2>3, <2>5, <2>6
<1>4. queued' \in Seq(Entry)
  <2>1. File!QueueHostFile(c) \/ File!QueueVmFile(c) \/ queued' = queued
    BY DEF Handles, Walks, Reads, Writes, Errs, Verifies, Exports, SameFiles
  <2> QED  BY <2>1, QueueTyped
<1> QED  BY <1>1, <1>2, <1>3, <1>4 DEF FileTypes, Entry

LEMMA StepTyped ==
    ASSUME FileTypes, Stands \/ Cuts \/ Wipes
    PROVE  FileTypes'
<1> USE SameScene
<1>1. CASE Stands
  BY <1>1 DEF FileTypes, Stands
<1>2. CASE Cuts
  BY <1>2 DEF FileTypes, Cuts
<1>3. CASE Wipes
  BY <1>3 DEF FileTypes, Wipes, Texts
<1> QED  BY <1>1, <1>2, <1>3
----------------------------------------------------------------------------
(* A call that has started is of no later round, and while no round is cut   *)
(* off it is of the present one until it is answered; a call writes only     *)
(* what its tool allows; what was written last in a file is from a call that *)
(* writes that file.                                                         *)
CallOK(c) ==
    /\ File!Started(c) => File!Plan(c).round <= round
    /\ doing[c] \in {"write", "verify", "export"} => File!Modifies(c)
    /\ doing[c] = "verify" => File!Plan(c).op = "build"
    /\ doing[c] = "write" /\ File!Plan(c).op = "edit" => File!Plan(c).old \in File!ToSet(got[c])
LastOK(f) == last[f] # 0 => File!Modifies(last[f]) /\ File!File(last[f]) = f
InTurn(c) ==
    /\ doing[c] = "done" <=> told[c] # "none"
    /\ doing[c] \notin {"idle", "done"} => File!Plan(c).round = round
RoundInv ==
    /\ \A c \in File!Calls : CallOK(c)
    /\ \A f \in File!Files : LastOK(f)
    /\ ~mishaps.timeout => \A c \in File!Calls : InTurn(c)

\* What a step of one call leaves as it is.
LEMMA OthersStay ==
    ASSUME FileTypes, NEW c \in File!Calls, NEW place, NEW result, Handles(c, place, result)
    PROVE  /\ doing'[c] = place /\ told'[c] = result
           /\ \A d \in File!Calls : d # c => /\ doing'[d] = doing[d] /\ told'[d] = told[d]
                                             /\ got'[d] = got[d] /\ tries'[d] = tries[d]
           /\ \A d \in File!Calls : File!Started(d) => File!Started(d)'
           /\ \A f \in File!Files : f # File!File(c) => disk'[f] = disk[f] /\ last'[f] = last[f]
<1>1. /\ doing'[c] = place /\ told'[c] = result
      /\ \A d \in File!Calls : d # c => doing'[d] = doing[d] /\ told'[d] = told[d] /\ tries'[d] = tries[d]
  BY DEF FileTypes, Handles, GoesTo, Tried
<1>2. \A d \in File!Calls : d # c => got'[d] = got[d]
  BY DEF FileTypes, Handles, Walks, Reads, Writes, Errs, Verifies, Exports
<1>3. \A d \in File!Calls : File!Started(d) => File!Started(d)'
  <2>1. /\ place = "idle" => tries'[c] > 0
        /\ \A d \in File!Calls : tries[d] > 0 => tries'[d] > 0
    BY DEF FileTypes, Handles, Tried
  <2> QED  BY <1>1, <2>1 DEF File!Started
<1>4. \A f \in File!Files : f # File!File(c) => disk'[f] = disk[f] /\ last'[f] = last[f]
  <2>1. Applies(c) \/ (disk' = disk /\ last' = last) \/ File!Truncated(c)
    BY DEF Handles, Walks, Reads, Writes, Errs, Verifies, Exports, SameFiles, Breaks
  <2> QED  BY <2>1 DEF FileTypes, Applies, File!Truncated
<1> QED  BY <1>1, <1>2, <1>3, <1>4

LEMMA HandlesRounds ==
    ASSUME FileTypes, RoundInv, NEW c \in File!Calls, NEW place, NEW result, Handles(c, place, result)
    PROVE  RoundInv'
<1> USE SameScene
<1>1. setting' = setting /\ round' = round /\ mishaps'.timeout = mishaps.timeout /\ tries' \in [File!Calls -> Nat]
  BY DEF Handles, GoesTo, Tried
<1>2. ASSUME NEW d \in File!Calls, d # c PROVE CallOK(d)' /\ (InTurn(d) => InTurn(d)')
  <2>1. CallOK(d)
    BY DEF RoundInv
  <2>2. doing'[d] = doing[d] /\ told'[d] = told[d] /\ got'[d] = got[d] /\ tries'[d] = tries[d]
    BY <1>2, OthersStay
  <2> QED  BY <1>1, <2>1, <2>2 DEF CallOK, InTurn, File!Started
<1>3. CallOK(c)'
  <2>1. CallOK(c) /\ doing'[c] = place
    BY OthersStay DEF RoundInv
  <2>2. doing[c] # "idle" => File!Plan(c).round <= round
    BY <2>1 DEF CallOK, File!Started
  <2>3. File!Plan(c).round <= round
    BY <2>2, PlanOK DEF Handles, Walks, Reads, Writes, Errs, Verifies, Exports, FileTypes
  <2>4. place \in {"write", "verify", "export"} => File!Modifies(c)
    BY <2>1 DEF CallOK, Handles, Walks, Reads, Writes, Errs, Verifies, Exports
  <2>5. place = "verify" => File!Plan(c).op = "build"
    BY DEF Handles, Walks, Reads, Writes, Errs, Verifies, Exports
  <2>6. place = "write" /\ File!Plan(c).op = "edit" => File!Plan(c).old \in File!ToSet(got'[c])
    <3>1. CASE Reads(c, place, result)
      BY <3>1 DEF Reads, FileTypes
    <3>2. CASE ~Reads(c, place, result)
      BY <3>2 DEF Handles, Walks, Writes, Errs, Verifies, Exports, File!ReadsFirst
    <3> QED  BY <3>1, <3>2
  <2> QED  BY <1>1, <2>1, <2>3, <2>4, <2>5, <2>6 DEF CallOK
<1>4. ASSUME NEW f \in File!Files PROVE LastOK(f)'
  <2>1. LastOK(f)
    BY DEF RoundInv
  <2>2. \/ last' = last \/ last' = [last EXCEPT ![File!File(c)] = 0]
        \/ last' = [last EXCEPT ![File!File(c)] = c] /\ doing[c] = "write"
    BY DEF Handles, Walks, Reads, Writes, Errs, Verifies, Exports, SameFiles, Applies, Breaks, File!Truncated
  <2>3. doing[c] = "write" => File!Modifies(c)
    BY DEF RoundInv, CallOK
  <2> QED  BY <1>1, <2>1, <2>2, <2>3 DEF LastOK, FileTypes
<1>5. ASSUME InTurn(c) PROVE InTurn(c)'
  <2>1. doing'[c] = place /\ told'[c] = result
    BY OthersStay
  <2>2. doing[c] # "done"
    BY DEF Handles, Walks, Reads, Writes, Errs, Verifies, Exports
  <2>3. told[c] = "none"
    BY <1>5, <2>2 DEF InTurn
  <2>4. File!Plan(c).round = round
    BY <1>5, <2>2 DEF InTurn, Handles, Walks, Reads, Writes, Errs, Verifies, Exports
  <2> QED  BY <1>1, <2>1, <2>3, <2>4 DEF InTurn, Handles, GoesTo
<1> QED  BY <1>1, <1>2, <1>3, <1>4, <1>5 DEF RoundInv

LEMMA StepRounds ==
    ASSUME FileTypes, RoundInv, Stands \/ Cuts \/ Wipes
    PROVE  RoundInv'
<1> USE SameScene
<1>1. CASE Stands
  <2>1. UNCHANGED <<setting, doing, told, tries, got, last, mishaps>> /\ round <= round' /\ round \in Nat /\ round' \in Nat
    BY <1>1 DEF Stands, FileTypes
  <2>2. ASSUME NEW c \in File!Calls PROVE CallOK(c)'
    BY <2>1, PlanOK DEF RoundInv, CallOK, File!Started
  <2>3. ASSUME NEW f \in File!Files PROVE LastOK(f)'
    BY <2>1 DEF RoundInv, LastOK
  <2>4. ASSUME ~mishaps.timeout, NEW c \in File!Calls PROVE InTurn(c)'
    <3>1. InTurn(c)
      BY <2>4 DEF RoundInv
    <3> QED  BY <1>1, <2>1, <3>1 DEF InTurn, Stands
  <2> QED  BY <2>1, <2>2, <2>3, <2>4 DEF RoundInv
<1>2. CASE Cuts
  <2>1. /\ setting' = setting /\ round' = round + 1 /\ UNCHANGED <<tries, got, disk, last>> /\ mishaps'.timeout
        /\ round \in Nat
    BY <1>2 DEF Cuts, FileTypes
  <2>2. ASSUME NEW c \in File!Calls PROVE CallOK(c)'
    <3>1. doing'[c] \in {doing[c], "done"} /\ (doing'[c] # doing[c] => File!Plan(c).round = round)
      BY <1>2 DEF Cuts
    <3>2. CallOK(c)
      BY DEF RoundInv
    <3> QED  BY <2>1, <3>1, <3>2, PlanOK DEF CallOK, File!Started
  <2>3. ASSUME NEW f \in File!Files PROVE LastOK(f)'
    BY <2>1 DEF RoundInv, LastOK
  <2> QED  BY <2>1, <2>2, <2>3 DEF RoundInv
<1>3. CASE Wipes
  <2>1. UNCHANGED <<setting, round, doing, told, tries, got>> /\ mishaps'.timeout = mishaps.timeout
    BY <1>3 DEF Wipes
  <2>2. ASSUME NEW f \in File!Files PROVE LastOK(f)'
    BY <1>3, <2>1 DEF Wipes, LastOK
  <2> QED  BY <2>1, <2>2 DEF RoundInv, CallOK, InTurn, File!Started
<1> QED  BY <1>1, <1>2, <1>3
----------------------------------------------------------------------------
(* Nothing is lost. In a file that no round writes in parallel, every append *)
(* could read and no Edit broke off in, what a call is going to replace is   *)
(* still what it has read, and what a call has written is there until a      *)
(* later call removes it.                                                    *)
Removed(c) == \E d \in File!Calls : File!Plan(d).round > File!Plan(c).round /\ File!Removes(d, c) /\ File!Started(d)
Safe(f) == ~File!Contended(f) /\ f \notin mishaps.marred
Fresh(c) == doing[c] = "write" /\ File!ReadsFirst(c) => got[c] = disk[File!File(c)]
Kept(c) ==
    File!Modifies(c) /\ (told[c] = "ok" \/ doing[c] \in {"verify", "export"})
        => c \in File!ToSet(disk[File!File(c)]) \/ Removed(c)
KeptInv ==
    ~mishaps.timeout /\ ~mishaps.gone =>
        \A c \in File!Calls : Safe(File!File(c)) => Fresh(c) /\ Kept(c)

LEMMA SameRules ==
    ASSUME setting' = setting
    PROVE  \A c, d : (File!Removes(d, c)' <=> File!Removes(d, c)) /\ (File!Contended(c)' <=> File!Contended(c))
BY DEF File!Removes, File!Contended, File!Plan, File!File, File!Calls, File!Cloud, File!Modifies

LEMMA InSeq ==
    ASSUME NEW C, NEW s \in Seq(C), NEW c
    PROVE  /\ c \in File!ToSet(Append(s, c)) /\ c \in File!ToSet(<<c>>)
           /\ \A x : x \in File!ToSet(s) => x \in File!ToSet(Append(s, c))
           /\ \A x : x \in File!ToSet(Append(s, c)) => x = c \/ x \in File!ToSet(s)
           /\ \A x : x \in File!ToSet(<<c>>) => x = c
<1> DEFINE t == Append(s, c)
<1>1. /\ Len(s) \in Nat /\ DOMAIN s = 1..Len(s) /\ DOMAIN t = 1..(Len(s) + 1) /\ t[Len(s) + 1] = c
      /\ \A i \in DOMAIN s : t[i] = s[i]
  OBVIOUS
<1> HIDE DEF t
<1>2. /\ c \in File!ToSet(t) /\ \A x : x \in File!ToSet(s) => x \in File!ToSet(t)
      /\ \A x : x \in File!ToSet(t) => x = c \/ x \in File!ToSet(s)
  BY <1>1 DEF File!ToSet
<1>3. c \in File!ToSet(<<c>>) /\ \A x : x \in File!ToSet(<<c>>) => x = c
  BY DEF File!ToSet
<1> QED  BY <1>2, <1>3 DEF t

LEMMA InText ==
    \A s \in Texts : \A e : /\ e \in File!ToSet(Append(s, e)) /\ e \in File!ToSet(<<e>>)
                            /\ \A x : x \in File!ToSet(s) => x \in File!ToSet(Append(s, e))
                            /\ \A x : x \in File!ToSet(Append(s, e)) => x = e \/ x \in File!ToSet(s)
                            /\ \A x : x \in File!ToSet(<<e>>) => x = e
<1> SUFFICES ASSUME NEW s \in Seq({0} \cup File!Calls), NEW e
             PROVE  /\ e \in File!ToSet(Append(s, e)) /\ e \in File!ToSet(<<e>>)
                    /\ \A x : x \in File!ToSet(s) => x \in File!ToSet(Append(s, e))
                    /\ \A x : x \in File!ToSet(Append(s, e)) => x = e \/ x \in File!ToSet(s)
                    /\ \A x : x \in File!ToSet(<<e>>) => x = e
  BY DEF Texts
<1> QED  BY Zenon, InSeq

\* A text that is written holds its own piece and what it does not replace.
LEMMA TextKeeps ==
    ASSUME FileTypes, RoundInv, NEW c \in File!Calls, doing[c] = "write", Fresh(c)
    PROVE  /\ c \in File!ToSet(File!Text(c))
           /\ \A d \in File!Calls : /\ File!File(d) = File!File(c) /\ d \in File!ToSet(disk[File!File(c)])
                                    /\ ~File!Removes(c, d)
                                    => d \in File!ToSet(File!Text(c))
<1> DEFINE f == File!File(c)
           op == File!Plan(c).op
           old == File!Plan(c).old
<1>1. got[c] \in Texts /\ disk[f] \in Texts /\ c \in {0} \cup File!Calls
  BY PlanOK DEF FileTypes
<1>2. op \in File!Writing /\ (op = "edit" => old \in File!ToSet(got[c]))
  BY DEF RoundInv, CallOK, File!Modifies
<1>3. CASE op = "append"
  <2> DEFINE s == IF File!Cloud THEN got[c] ELSE disk[f]
  <2>1. s = disk[f] /\ File!Text(c) = Append(s, c)
    BY <1>3 DEF Fresh, File!ReadsFirst, File!Text
  <2> QED  BY <1>1, <2>1, InText
<1>4. CASE op = "edit"
  <2>1. File!Text(c) = File!Replace(got[c], old, c) /\ got[c] = disk[f]
    BY <1>4 DEF Fresh, File!ReadsFirst, File!Text
  <2>2. \A d \in File!Calls : File!File(d) = f /\ ~File!Removes(c, d) => d # old
    BY <1>4 DEF File!Removes
  <2> QED  BY <1>1, <1>2, <1>4, <2>1, <2>2, Replaces DEF Texts
<1>5. CASE op \notin {"append", "edit"}
  <2>1. File!Text(c) = <<c>>
    BY <1>5 DEF File!Text
  <2>2. \A d \in File!Calls : File!File(d) = f => File!Removes(c, d)
    BY <1>2, <1>5 DEF File!Removes, File!Writing
  <2> QED  BY <1>1, <2>1, <2>2, InText
<1> QED  BY <1>3, <1>4, <1>5

\* A text that broke off holds all the others that the whole one would hold.
LEMMA PartKeeps ==
    ASSUME FileTypes, RoundInv, NEW c \in File!Calls, doing[c] = "write", ~File!ReadsFirst(c), File!Truncated(c),
           NEW d, d # c, d \in File!ToSet(File!Text(c))
    PROVE  d \in File!ToSet(disk'[File!File(c)])
<1> DEFINE f == File!File(c)
<1>1. disk[f] \in Texts /\ f \in File!Files /\ disk \in [File!Files -> Texts]
  BY PlanOK DEF FileTypes
<1>2. \A s \in Texts : d \in File!ToSet(Append(s, c)) => d \in File!ToSet(Append(s, 0))
  <2>1. \A s \in Texts : d \in File!ToSet(Append(s, c)) => d \in File!ToSet(s)
    BY Zenon, InText
  <2> QED  BY Zenon, <2>1, InText
<1>3. CASE File!Plan(c).op = "append"
  <2>1. ~File!Cloud /\ File!Text(c) = Append(disk[f], c)
    BY <1>3 DEF File!ReadsFirst, File!Text
  <2>2. disk'[f] = Append(disk[f], 0)
    BY <1>1, <1>3, <2>1 DEF File!Truncated
  <2> QED  BY <1>1, <1>2, <2>1, <2>2
<1>4. CASE File!Plan(c).op # "append"
  <2>1. d \in File!ToSet(<<c>>)
    BY <1>4 DEF File!ReadsFirst, File!Text
  <2> QED  BY Zenon, <1>1, <2>1, InText
<1> QED  BY <1>3, <1>4

\* What a write does to the calls on the same file.
LEMMA WriteKeeps ==
    ASSUME FileTypes, RoundInv, ~mishaps.timeout, NEW c \in File!Calls, doing[c] = "write", Fresh(c),
           ~File!Contended(File!File(c)), NEW d \in File!Calls, d # c, File!File(d) = File!File(c)
    PROVE  /\ ~(doing[d] = "write" /\ File!ReadsFirst(d))
           /\ Kept(d) /\ File!Modifies(d) /\ (told[d] = "ok" \/ doing[d] \in {"verify", "export"})
              => d \in File!ToSet(File!Text(c)) \/ Removed(d)
<1>1. /\ InTurn(c) /\ InTurn(d) /\ CallOK(c) /\ CallOK(d)
      /\ File!Plan(c).round \in Nat /\ File!Plan(d).round \in Nat /\ round \in Nat
  BY PlanOK DEF RoundInv, FileTypes
<1>2. File!Modifies(c) /\ File!Plan(c).round = round
  BY <1>1 DEF CallOK, InTurn
<1>3. File!Modifies(d) /\ File!Plan(d).round = round => ~File!Cloud /\ File!Plan(c).op = "append" /\ File!Plan(d).op = "append"
  <2>1. ASSUME File!Modifies(d), File!Plan(d).round = round
        PROVE  ~File!Cloud /\ {File!Plan(c).op, File!Plan(d).op} = {"append"}
    BY <1>2, <2>1 DEF File!Contended
  <2> QED  BY <2>1
<1>4. ~(doing[d] = "write" /\ File!ReadsFirst(d))
  BY <1>1, <1>3 DEF CallOK, InTurn, File!ReadsFirst
<1>5. ASSUME Kept(d), File!Modifies(d), told[d] = "ok" \/ doing[d] \in {"verify", "export"}
      PROVE  d \in File!ToSet(File!Text(c)) \/ Removed(d)
  <2>1. d \in File!ToSet(disk[File!File(c)]) \/ Removed(d)
    BY <1>5 DEF Kept
  <2>2. CASE ~File!Removes(c, d)
    BY <2>1, <2>2, TextKeeps
  <2>3. CASE File!Removes(c, d)
    <3>1. File!Plan(d).round <= round
      BY <1>1, <1>5 DEF CallOK, InTurn, File!Started
    <3>2. File!Plan(d).round # round
      BY <1>3, <1>5, <2>3 DEF File!Removes
    <3>3. File!Plan(c).round > File!Plan(d).round /\ File!Started(c)
      BY <1>1, <1>2, <3>1, <3>2 DEF File!Started
    <3> QED  BY <2>3, <3>3 DEF Removed
  <2> QED  BY <2>2, <2>3
<1> QED  BY <1>4, <1>5

LEMMA HandlesKeeps ==
    ASSUME FileTypes, RoundInv, KeptInv, NEW c \in File!Calls, NEW place, NEW result, Handles(c, place, result)
    PROVE  KeptInv'
<1> USE SameScene, SameRules
<1>1. /\ setting' = setting /\ mishaps'.timeout = mishaps.timeout /\ mishaps'.gone = mishaps.gone
      /\ mishaps.marred \subseteq mishaps'.marred
  BY DEF Handles, GoesTo
<1>2. SUFFICES ASSUME ~mishaps.timeout, ~mishaps.gone, NEW d \in File!Calls, Safe(File!File(d))'
               PROVE  Fresh(d)' /\ Kept(d)'
  BY <1>1 DEF KeptInv
<1>3. /\ Safe(File!File(d)) /\ Fresh(d) /\ Kept(d)
      /\ File!File(c) = File!File(d) => Fresh(c)
  BY <1>1, <1>2 DEF KeptInv, Safe
<1>4. \A e \in File!Calls : Removed(e) => Removed(e)'
  BY <1>1, OthersStay DEF Removed
<1>5. InTurn(c) /\ doing[c] # "done" /\ told[c] = "none"
  BY <1>2 DEF RoundInv, InTurn, Handles, Walks, Reads, Writes, Errs, Verifies, Exports
<1>6. doing'[c] = place /\ told'[c] = result /\ (d # c => doing'[d] = doing[d] /\ told'[d] = told[d] /\ got'[d] = got[d])
  BY OthersStay
<1>7. CASE Applies(c) /\ doing[c] = "write"
  <2>1. disk' = [disk EXCEPT ![File!File(c)] = File!Text(c)] /\ File!File(c) \in File!Files /\ disk \in [File!Files -> Texts]
    BY <1>7, PlanOK DEF Applies, FileTypes
  <2>2. CASE d = c
    <3>1. place # "write"
      BY <1>7 DEF Handles, Walks, Reads, Writes, Errs, Verifies, Exports
    <3>2. c \in File!ToSet(disk'[File!File(c)])
      BY <1>3, <1>7, <2>1, <2>2, TextKeeps
    <3> QED  BY <1>1, <1>6, <2>2, <3>1, <3>2 DEF Fresh, Kept
  <2>3. CASE d # c /\ File!File(d) # File!File(c)
    <3>1. disk'[File!File(d)] = disk[File!File(d)]
      BY <2>3, OthersStay, PlanOK
    <3>2. Fresh(d)'
      BY <1>1, <1>3, <1>6, <2>3, <3>1 DEF Fresh
    <3>3. Kept(d)'
      BY <1>1, <1>3, <1>4, <1>6, <2>3, <3>1 DEF Kept
    <3> QED  BY <3>2, <3>3
  <2>4. CASE d # c /\ File!File(d) = File!File(c)
    <3>1. /\ ~(doing[d] = "write" /\ File!ReadsFirst(d))
          /\ Kept(d) /\ File!Modifies(d) /\ (told[d] = "ok" \/ doing[d] \in {"verify", "export"})
             => d \in File!ToSet(File!Text(c)) \/ Removed(d)
      BY <1>2, <1>3, <1>7, <2>4, WriteKeeps DEF Safe
    <3>2. disk'[File!File(d)] = File!Text(c)
      BY <2>1, <2>4
    <3>3. Fresh(d)'
      BY <1>1, <1>6, <2>4, <3>1 DEF Fresh
    <3>4. Kept(d)'
      BY <1>1, <1>3, <1>4, <1>6, <2>4, <3>1, <3>2 DEF Kept
    <3> QED  BY <3>3, <3>4
  <2> QED  BY <2>2, <2>3, <2>4
<1>8. CASE Breaks(c) /\ doing[c] = "write"
  <2>1. (place \in {"idle", "done"} /\ (result = "ok" => told[c] = "ok")) \/ Applies(c)
    BY <1>8 DEF Handles, Walks, Reads, Writes, Errs, Verifies, Exports
  <2>2. CASE d = c /\ ~Applies(c)
    BY <1>1, <1>5, <1>6, <2>1, <2>2 DEF Fresh, Kept
  <2>3. CASE d # c /\ File!File(d) # File!File(c)
    <3>1. disk'[File!File(d)] = disk[File!File(d)]
      BY <2>3, OthersStay, PlanOK
    <3>2. Fresh(d)'
      BY <1>1, <1>3, <1>6, <2>3, <3>1 DEF Fresh
    <3>3. Kept(d)'
      BY <1>1, <1>3, <1>4, <1>6, <2>3, <3>1 DEF Kept
    <3> QED  BY <3>2, <3>3
  <2>4. CASE d # c /\ File!File(d) = File!File(c)
    <3>1. /\ ~(doing[d] = "write" /\ File!ReadsFirst(d))
          /\ Kept(d) /\ File!Modifies(d) /\ (told[d] = "ok" \/ doing[d] \in {"verify", "export"})
             => d \in File!ToSet(File!Text(c)) \/ Removed(d)
      BY <1>2, <1>3, <1>8, <2>4, WriteKeeps DEF Safe
    <3>2. ~File!ReadsFirst(c) /\ File!Truncated(c)
      BY <1>1, <1>2, <1>8, <2>4 DEF Breaks, Safe
    <3>3. d \in File!ToSet(File!Text(c)) => d \in File!ToSet(disk'[File!File(d)])
      BY <1>8, <2>4, <3>2, PartKeeps
    <3>4. Fresh(d)'
      BY <1>1, <1>6, <2>4, <3>1 DEF Fresh
    <3>5. Kept(d)'
      BY <1>1, <1>3, <1>4, <1>6, <2>4, <3>1, <3>3 DEF Kept
    <3> QED  BY <3>4, <3>5
  <2> QED  BY <1>7, <1>8, <2>2, <2>3, <2>4
<1>9. CASE ~(Applies(c) /\ doing[c] = "write") /\ ~(Breaks(c) /\ doing[c] = "write")
  <2>1. disk' = disk
    BY <1>9 DEF Handles, Walks, Reads, Writes, Errs, Verifies, Exports, SameFiles
  <2>2. CASE d # c
    <3>1. Fresh(d)'
      BY <1>1, <1>3, <1>6, <2>1, <2>2 DEF Fresh
    <3>2. Kept(d)'
      BY <1>1, <1>3, <1>4, <1>6, <2>1, <2>2 DEF Kept
    <3> QED  BY <3>1, <3>2
  <2>3. CASE d = c
    <3>1. place = "write" /\ File!ReadsFirst(c) => got'[c] = disk[File!File(c)]
      <4>1. CASE Reads(c, place, result)
        BY <1>1, <1>2, <2>3, <4>1 DEF Reads, FileTypes, Safe
      <4>2. CASE ~Reads(c, place, result)
        BY <4>2 DEF Handles, Walks, Writes, Errs, Verifies, Exports
      <4> QED  BY <4>1, <4>2
    <3>2. ASSUME File!Modifies(c), result = "ok" \/ place \in {"verify", "export"}
          PROVE  doing[c] \in {"verify", "export"}
      <4>1. ~Writes(c, place, result)
        BY <1>9 DEF Writes
      <4>2. place # "done" => result = "none"
        BY <1>5 DEF Handles, GoesTo
      <4> QED  BY <1>5, <3>2, <4>1, <4>2 DEF Handles, Walks, Reads, Errs, Verifies, Exports
    <3>3. Fresh(c)'
      BY <1>1, <1>6, <2>1, <3>1 DEF Fresh
    <3>4. Kept(c)'
      BY <1>1, <1>3, <1>4, <1>6, <2>1, <2>3, <3>2 DEF Kept
    <3> QED  BY <2>3, <3>3, <3>4
  <2> QED  BY <2>2, <2>3
<1> QED  BY <1>7, <1>8, <1>9

LEMMA StepKeeps ==
    ASSUME FileTypes, KeptInv, Stands \/ Cuts \/ Wipes
    PROVE  KeptInv'
<1>1. CASE Stands
  <2>1. UNCHANGED <<setting, doing, told, tries, got, disk, mishaps>>
    BY <1>1 DEF Stands
  <2>2. \A c \in File!Calls : Fresh(c)' = Fresh(c) /\ (Removed(c)' <=> Removed(c)) /\ (Safe(File!File(c))' <=> Safe(File!File(c)))
    BY <2>1, SameScene, SameRules DEF Fresh, Removed, Safe, File!Started
  <2>3. \A c \in File!Calls : Kept(c) => Kept(c)'
    BY <2>1, <2>2, SameScene DEF Kept
  <2> QED  BY <2>1, <2>2, <2>3, SameScene DEF KeptInv
<1>2. CASE Cuts
  BY <1>2 DEF Cuts, KeptInv, FileTypes
<1>3. CASE Wipes
  BY <1>3 DEF Wipes, KeptInv
<1> QED  BY <1>1, <1>2, <1>3
----------------------------------------------------------------------------
(* What is sent. While the queue has room and nothing failed to be fetched,  *)
(* the last version of a file that Write or Edit finished is queued.         *)
Queued(f) == \E q \in File!ToSet(queued) : q.file = f /\ (File!Cloud => q.text = disk[f])
SentInv ==
    ~mishaps.timeout /\ ~mishaps.unsent /\ File!Room =>
        \A f \in File!Files : last[f] # 0 /\ told[last[f]] = "ok" /\ File!Captured(last[f]) /\ File!Plan(last[f]).fits
            => Queued(f)

\* With room in the queue, the file of a call is queued if it fits.
LEMMA QueueSends ==
    ASSUME FileTypes, NEW c \in File!Calls, File!Room, File!Captured(c),
           \/ File!QueueVmFile(c) /\ File!Attachable(File!File(c))
           \/ File!QueueHostFile(c) /\ ~File!Cloud /\ File!Plan(c).fits
    PROVE  \E q \in File!ToSet(queued') : q.file = File!File(c) /\ (File!Cloud => q.text = disk[File!File(c)])
<1>1. queued \in Seq(Entry)
  BY DEF FileTypes, Entry
<1>2. \A e : e \in File!ToSet(Append(queued, e))
  BY <1>1, InSeq
<1>3. CASE File!QueueVmFile(c) /\ File!Attachable(File!File(c))
  <2>1. queued' = Append(queued, [file |-> File!File(c), text |-> disk[File!File(c)]])
    BY <1>3 DEF File!QueueVmFile
  <2> QED  BY <1>2, <2>1
<1>4. CASE File!QueueHostFile(c) /\ ~File!Cloud /\ File!Plan(c).fits
  <2>1. CASE \A q \in File!ToSet(queued) : q.file # File!File(c)
    <3>1. queued' = Append(queued, [file |-> File!File(c), text |-> <<>>])
      BY <1>4, <2>1 DEF File!QueueHostFile
    <3> QED  BY <1>2, <1>4, <3>1
  <2>2. CASE \E q \in File!ToSet(queued) : q.file = File!File(c)
    BY <1>4, <2>2, QueueTyped
  <2> QED  BY <2>1, <2>2
<1> QED  BY <1>3, <1>4

LEMMA HandlesSends ==
    ASSUME FileTypes, RoundInv, SentInv, NEW c \in File!Calls, NEW place, NEW result, Handles(c, place, result)
    PROVE  SentInv'
<1> USE SameScene
<1>1. /\ setting' = setting /\ mishaps'.timeout = mishaps.timeout /\ (mishaps.unsent => mishaps'.unsent)
  BY DEF Handles, GoesTo
<1>2. File!ToSet(queued) \subseteq File!ToSet(queued') /\ (File!Room' => File!Room)
  <2>1. File!QueueHostFile(c) \/ File!QueueVmFile(c) \/ queued' = queued
    BY DEF Handles, Walks, Reads, Writes, Errs, Verifies, Exports, SameFiles
  <2>2. Len(queued) <= Len(queued') /\ File!ToSet(queued) \subseteq File!ToSet(queued') /\ queued' \in Seq(Entry)
    BY <2>1, QueueTyped
  <2> QED  BY <2>2, TurnAssumption DEF File!Room, FileTypes
<1>3. SUFFICES ASSUME ~mishaps.timeout, ~mishaps.unsent, ~mishaps'.unsent, File!Room, NEW f \in File!Files,
                      last'[f] # 0, told'[last'[f]] = "ok", File!Captured(last'[f]), File!Plan(last'[f]).fits
               PROVE  \E q \in File!ToSet(queued') : q.file = f /\ (File!Cloud => q.text = disk'[f])
  BY <1>1, <1>2 DEF SentInv, Queued
<1>4. InTurn(c) /\ CallOK(c) /\ doing[c] # "done" /\ told[c] = "none"
  <2>1. doing[c] # "done"
    BY DEF Handles, Walks, Reads, Writes, Errs, Verifies, Exports
  <2>2. InTurn(c) /\ CallOK(c)
    BY <1>3 DEF RoundInv
  <2>3. told[c] = "none"
    BY <2>1, <2>2 DEF InTurn
  <2> QED  BY <2>1, <2>2, <2>3
<1>5. doing'[c] = place /\ told'[c] = result /\ (place # "done" => result = "none")
  <2>1. doing'[c] = place /\ told'[c] = result
    BY OthersStay
  <2>2. place # "done" => result = told[c]
    BY DEF Handles, GoesTo
  <2> QED  BY <1>4, <2>1, <2>2
<1>6. Applies(c) \/ (disk' = disk /\ last' = last) \/ File!Truncated(c)
  BY DEF Handles, Walks, Reads, Writes, Errs, Verifies, Exports, SameFiles, Breaks
<1>7. CASE last'[f] # c
  <2>1. disk'[f] = disk[f] /\ last'[f] = last[f]
    BY <1>3, <1>6, <1>7 DEF Applies, FileTypes, File!Truncated
  <2>2. told'[last[f]] = told[last[f]]
    BY <1>3, <1>7, <2>1, OthersStay DEF FileTypes
  <2>3. Queued(f)
    BY <1>3, <2>1, <2>2 DEF SentInv
  <2> QED  BY <1>2, <2>1, <2>3 DEF Queued
<1>8. CASE last'[f] = c
  <2>1. result = "ok" /\ place = "done" /\ File!Captured(c)
    BY <1>3, <1>5, <1>8
  <2>2. File!Modifies(c) /\ File!File(c) = f
    <3>1. CASE last' = last
      BY <1>3, <1>8, <3>1 DEF RoundInv, LastOK
    <3>2. CASE last' # last
      <4>1. (Applies(c) \/ File!Truncated(c)) /\ doing[c] = "write"
        BY <3>2 DEF Handles, Walks, Reads, Writes, Errs, Verifies, Exports, SameFiles, Breaks
      <4>2. CASE f = File!File(c)
        BY <1>4, <4>1, <4>2 DEF CallOK
      <4>3. CASE f # File!File(c)
        <5>1. last[f] = c
          BY <1>8, <4>1, <4>3 DEF Applies, FileTypes, File!Truncated
        <5> QED  BY <1>3, <1>8, <5>1 DEF RoundInv, LastOK
      <4> QED  BY <4>2, <4>3
    <3> QED  BY <3>1, <3>2
  <2>3. CASE Writes(c, place, result)
    <3>1. ~File!Cloud /\ File!QueueHostFile(c)
      BY <1>4, <2>1, <2>3 DEF Writes
    <3> QED  BY <1>3, <1>8, <2>1, <2>2, <3>1, QueueSends
  <2>4. CASE Exports(c, place, result)
    <3>1. File!QueueVmFile(c) /\ disk' = disk /\ last' = last
      BY <1>3, <2>4 DEF Exports
    <3>2. File!Attachable(File!File(c))
      BY <1>3, <1>8, <2>2, <3>1 DEF File!Attachable
    <3> QED  BY <1>3, <2>1, <2>2, <3>1, <3>2, QueueSends
  <2>5. CASE Verifies(c, place, result)
    BY <1>4, <2>1, <2>5 DEF Verifies, CallOK, File!Captured
  <2>6. CASE ~(Writes(c, place, result) \/ Exports(c, place, result) \/ Verifies(c, place, result))
    BY <1>4, <2>1, <2>2, <2>6 DEF Handles, Walks, Reads, Errs
  <2> QED  BY <2>3, <2>4, <2>5, <2>6
<1> QED  BY <1>7, <1>8

LEMMA StepSends ==
    ASSUME FileTypes, SentInv, Stands \/ Cuts \/ Wipes
    PROVE  SentInv'
<1>1. CASE Stands
  <2>1. UNCHANGED <<setting, told, disk, last, queued, mishaps>>
    BY <1>1 DEF Stands
  <2> QED  BY <2>1, SameScene DEF SentInv, Queued, File!Room
<1>2. CASE Cuts
  BY <1>2 DEF Cuts, SentInv, FileTypes
<1>3. CASE Wipes
  BY <1>3, SameScene DEF Wipes, SentInv
<1> QED  BY <1>1, <1>2, <1>3
----------------------------------------------------------------------------
(* The invariant of the files.                                              *)
FileInv == FileTypes /\ RoundInv /\ KeptInv /\ SentInv

LEMMA FileStarts == File!Init => FileInv
<1> SUFFICES ASSUME File!Init PROVE FileInv
  OBVIOUS
<1>1. /\ setting \in FileScenes /\ round = 1 /\ queued = <<>>
      /\ \A c \in File!Calls : doing[c] = "idle" /\ told[c] = "none" /\ tries[c] = 0
      /\ \A f \in File!Files : last[f] = 0
      /\ DOMAIN mishaps = {"faults", "marred", "timeout", "gone", "unsent"}
  BY DEF File!Init
<1>2. FileTypes
  <2>1. doing \in [File!Calls -> Handling] /\ told \in [File!Calls -> {"none", "ok", "error"}]
    BY DEF File!Init, Handling
  <2>2. tries \in [File!Calls -> Nat] /\ got \in [File!Calls -> Texts]
    BY DEF File!Init, Texts
  <2>3. disk \in [File!Files -> Texts] /\ last \in [File!Files -> {0} \cup File!Calls]
    BY DEF File!Init, Texts
  <2>4. queued \in Seq(Entry)
    BY <1>1
  <2> QED  BY <1>1, <2>1, <2>2, <2>3, <2>4 DEF FileTypes, Entry
<1>3. RoundInv
  BY <1>1 DEF RoundInv, CallOK, LastOK, InTurn, File!Started
<1>4. KeptInv
  BY <1>1 DEF KeptInv, Fresh, Kept
<1>5. SentInv
  BY <1>1 DEF SentInv
<1> QED  BY <1>2, <1>3, <1>4, <1>5 DEF FileInv

LEMMA FileSteps == FileInv /\ [File!Next]_(File!vars) => FileInv'
<1> SUFFICES ASSUME FileInv, [File!Next]_(File!vars) PROVE FileInv'
  OBVIOUS
<1> USE DEF FileInv
<1>1. ASSUME NEW c \in File!Calls, NEW place, NEW result, Handles(c, place, result) PROVE FileInv'
  BY <1>1, HandlesTyped, HandlesRounds, HandlesKeeps, HandlesSends
<1>2. CASE Stands \/ Cuts \/ Wipes
  BY <1>2, StepTyped, StepRounds, StepKeeps, StepSends
<1>3. CASE UNCHANGED File!vars
  <2>1. Stands
    BY <1>3 DEF Stands, File!vars, File!fileVars
  <2> QED  BY <1>2, <2>1
<1> QED  BY <1>1, <1>2, <1>3, FilesMove

THEOREM FilesKept == PartSpec => [](part = "files" => FileInv)
<1> DEFINE Inv == part = "files" => FileInv
<1>1. PartInit => Inv
  BY FileStarts DEF PartInit
<1>2. Inv /\ [PartNext]_all => Inv'
  <2> SUFFICES ASSUME Inv, [PartNext]_all, part' = "files" PROVE FileInv'
    OBVIOUS
  <2>1. part = "files" /\ [File!Next]_(File!vars)
    BY DEF PartNext, all, files, File!vars, File!vmVars, File!fileVars
  <2> QED  BY <2>1, FileSteps
<1> QED  BY <1>1, <1>2, PTL DEF PartSpec

(* The text of a call that was answered with success is in its file until a  *)
(* call of a later round removes it or tries to, for any plan of calls,      *)
(* however calls are repeated and fail, answers are lost and handles grow    *)
(* old, unless the round wrote the file in parallel, a round was cut off,    *)
(* the VM was lost, an append could not read the file, or the text an Edit   *)
(* wrote back broke off (blaxel_dispatch.py:176, registry.py:143 and 215).   *)
THEOREM LosesNothing == PartSpec => []NothingLost
<1>1. FileInv => File!NothingLost
  BY DEF FileInv, KeptInv, Kept, Safe, Removed, File!NothingLost
<1>2. (part = "files" => FileInv) => NothingLost
  BY <1>1 DEF NothingLost
<1> QED  BY <1>2, FilesKept, PTL

(* At the end of an iMessage turn the last version of every file that Write  *)
(* or Edit finished last is among the attachments, in whatever order         *)
(* parallel calls wrote and fetched it, unless it does not fit or the queue  *)
(* is full (file_attachments.py:77-97 and 121).                              *)
THEOREM SendsLatest == PartSpec => []LatestSent
<1>1. FileInv => File!LatestSent
  BY DEF FileInv, SentInv, Queued, File!LatestSent
<1>2. (part = "files" => FileInv) => LatestSent
  BY <1>1 DEF LatestSent
<1> QED  BY <1>2, FilesKept, PTL
=============================================================================
