------------------------------ MODULE IMessage ------------------------------
(* The iMessage channel: the webhook of the provider (sendblue_routes.py),   *)
(* linking a phone (supabase_external.py), a turn of the agent that answers  *)
(* (channels/imessage_runner.py) and the bubbles that tell of its progress   *)
(* (imessage_progress.py).                                                   *)
(*                                                                           *)
(* One user texts from one phone. The provider delivers a message at least   *)
(* once, to any process of the API; every process has one Agent.             *)
EXTENDS Naturals, SequencesExt, FiniteSets

CONSTANTS Scenes,        \* bounds: the deliveries looked at
          MaxBubbles     \* MAX_AUTO_BUBBLES

(* A scene gives the handle and the process of each delivery, says whether   *)
(* the phone is linked at first, whether the messages are the code of a      *)
(* verification, and bounds the tools of a turn, the calls that fail, the    *)
(* processes that die and the claims that expire.                            *)
VARIABLES scene,
          pc,        \* [deliveries -> where it is]
          claimed,   \* handles claimed in Redis
          local,     \* [processes -> handles in _dedup_handles]
          link,      \* the thread koraku_phone_link names, or 0
          threads,   \* iMessage threads of the user in chat_thread
          manager,   \* [processes -> agent.context_manager: "web", or a turn's]
          prev,      \* [deliveries -> prev_cm]
          last,      \* [processes -> whose text extract_last_assistant_text finds]
          typing,    \* deliveries with a typing task
          stopped,   \* deliveries whose stop_typing is set
          bubbles,   \* [deliveries -> bubble tasks: waiting, sending, recording; shown: started]
          say,       \* [deliveries -> the ChannelSend under way: st, text]
          parts,     \* [deliveries -> sent_parts]
          ends,      \* [deliveries -> how the turn ended: messages sent after it]
          refused,   \* [deliveries -> the messages of it that SendBlue did not take]
          faults,    \* calls failed, processes died, claims expired
          met,       \* deliveries whose turn overlapped another's in its process
          crossed,   \* processes where a turn ended while one begun later went on
          began      \* deliveries whose turn has begun, in order

vars == <<scene, pc, claimed, local, link, threads, manager, prev, last, typing, stopped,
          bubbles, say, parts, ends, refused, faults, met, crossed, began>>
claims == <<claimed, local>>
phone == <<link, threads>>
turn == <<manager, prev, last, typing, stopped, bubbles, say, parts, ends, refused, met, crossed, began>>

Deliveries == DOMAIN scene.handle
Processes == {scene.proc[d] : d \in Deliveries}
Proc(d) == scene.proc[d]
Quiet == [waiting |-> 0, sending |-> 0, recording |-> 0, shown |-> 0, opened |-> FALSE, tools |-> 0]
Silent == [st |-> "none", text |-> <<>>]
Text(d) == << <<d, 1>>, <<d, 2>> >>
Word(w) == << <<w, 0>> >>
Bubble == Word("bubble")

Init ==
    /\ scene \in Scenes
    /\ pc = [d \in Deliveries |-> "new"]
    /\ claimed = {} /\ local = [p \in Processes |-> {}]
    /\ link = IF scene.linked THEN 1 ELSE 0
    /\ threads = link
    /\ manager = [p \in Processes |-> "web"]
    /\ prev = [d \in Deliveries |-> "web"]
    /\ last = [p \in Processes |-> "old"]
    /\ typing = {} /\ stopped = {}
    /\ bubbles = [d \in Deliveries |-> Quiet]
    /\ say = [d \in Deliveries |-> Silent]
    /\ parts = [d \in Deliveries |-> <<>>]
    /\ ends = [d \in Deliveries |-> <<>>]
    /\ refused = [d \in Deliveries |-> {}]
    /\ faults = [calls |-> 0, deaths |-> 0, expiries |-> 0]
    /\ met = {} /\ crossed = {} /\ began = <<>>

Go(d, where) == pc' = [pc EXCEPT ![d] = where]
CallFails == faults.calls < scene.calls /\ faults' = [faults EXCEPT !.calls = @ + 1]
\* send_message: what SendBlue does not take, all of it or a chunk, counts as
\* sent all the same. (What becomes of a hint or an apology changes nothing.)
Sends(d, message) ==
    \/ UNCHANGED <<faults, refused>>
    \/ CallFails /\ refused' = [refused EXCEPT ![d] = @ \cup {message}]
Working == {"preparing", "running", "draining", "tailing", "failing"}
InTurn(p) == {d \in Deliveries : Proc(d) = p /\ pc[d] \in Working}
----------------------------------------------------------------------------
(* The webhook.                                                             *)

\* The handle is claimed before it is known whether there is an agent: without
\* one the delivery is refused with 503, and its retry will be a duplicate.
Accept(d) == \E where \in {"queued", "503"} : Go(d, where)

\* claim_message_handle: SET NX in Redis...
Claim(d) ==
    /\ pc[d] = "new"
    /\ IF scene.handle[d] \in claimed THEN Go(d, "deduped") /\ UNCHANGED claimed
       ELSE claimed' = claimed \cup {scene.handle[d]} /\ Accept(d)
    /\ UNCHANGED <<scene, local, phone, turn, faults>>

\* ... and in the memory of the process when Redis does not answer.
ClaimLocally(d) ==
    /\ pc[d] = "new" /\ CallFails
    /\ IF scene.handle[d] \in local[Proc(d)] THEN Go(d, "deduped") /\ UNCHANGED local
       ELSE local' = [local EXCEPT ![Proc(d)] = @ \cup {scene.handle[d]}] /\ Accept(d)
    /\ UNCHANGED <<scene, claimed, phone, turn>>

\* The TTL of the claims.
Expire ==
    /\ faults.expiries < scene.expiries
    /\ faults' = [faults EXCEPT !.expiries = @ + 1]
    /\ \/ claimed' = {} /\ claimed' # claimed /\ UNCHANGED local
       \/ \E p \in Processes : local' = [local EXCEPT ![p] = {}] /\ local' # local /\ UNCHANGED claimed
    /\ UNCHANGED <<scene, pc, phone, turn>>
----------------------------------------------------------------------------
(* _process: a phone that is linked gets a turn, any other is linked by the *)
(* code of the verification, or gets a hint.                                *)

Lookup(d) ==
    /\ pc[d] = "queued"
    /\ \/ Go(d, IF link # 0 THEN "linked" ELSE "unlinked") /\ UNCHANGED faults
       \/ CallFails /\ \E where \in {"unlinked", "over"} : Go(d, where)
    /\ UNCHANGED <<scene, claims, phone, turn>>

Hint(d) ==
    /\ pc[d] = "hinting" \/ (pc[d] = "unlinked" /\ ~scene.code)
    /\ Go(d, "over") /\ ends' = [ends EXCEPT ![d] = Word("hint")]
    /\ UNCHANGED <<scene, claims, phone, faults, manager, prev, last, typing, stopped, bubbles, say, parts, refused, met, crossed, began>>

\* try_confirm_from_inbound_message: the code is looked up, and
\* ensure_imessage_thread looks for a link; a lookup that fails is read as
\* no code, or as no link...
Confirm(d) ==
    /\ pc[d] = "unlinked" /\ scene.code
    /\ \/ Go(d, IF link # 0 THEN "relinking" ELSE "linking") /\ UNCHANGED faults
       \/ CallFails /\ \E where \in {"hinting", "linking", "over"} : Go(d, where)
    /\ UNCHANGED <<scene, claims, phone, turn>>

\* ... and makes a new thread without one; the link is upserted for the user,
\* whose status nobody looks at...
LinkPhone(d) ==
    /\ pc[d] \in {"linking", "relinking"}
    /\ threads' = IF pc[d] = "linking" THEN threads + 1 ELSE threads
    /\ \/ /\ link' = IF pc[d] = "linking" THEN threads' ELSE link
          /\ Go(d, "confirming") /\ UNCHANGED faults
       \/ CallFails /\ UNCHANGED link /\ \E where \in {"confirming", "over"} : Go(d, where)
    /\ UNCHANGED <<scene, claims, turn>>

\* ... but looked for: without it the user is given the hint.
Verified(d) ==
    /\ pc[d] = "confirming"
    /\ \/ link # 0 /\ Go(d, "over") /\ ends' = [ends EXCEPT ![d] = Word("verified")] /\ UNCHANGED faults
       \/ link = 0 /\ Go(d, "hinting") /\ UNCHANGED <<ends, faults>>
       \/ CallFails /\ UNCHANGED ends /\ \E where \in {"hinting", "over"} : Go(d, where)
    /\ UNCHANGED <<scene, claims, phone, manager, prev, last, typing, stopped, bubbles, say, parts, refused, met, crossed, began>>
----------------------------------------------------------------------------
(* run_imessage_turn.                                                       *)

Begin(d) ==
    LET p == Proc(d)
        others == InTurn(p)
    IN  /\ pc[d] = "linked"
        /\ prev' = [prev EXCEPT ![d] = manager[p]]
        /\ manager' = [manager EXCEPT ![p] = d]
        /\ typing' = typing \cup {d}
        /\ met' = IF others = {} THEN met ELSE met \cup others \cup {d}
        /\ began' = Append(began, d)
        /\ Go(d, "preparing")
        /\ UNCHANGED <<scene, claims, phone, faults, last, stopped, bubbles, say, parts, ends, refused, crossed>>

\* The session, the hydration from the database, the row of the user.
Prepare(d) ==
    /\ pc[d] = "preparing"
    /\ Go(d, "running")
    /\ UNCHANGED <<scene, claims, phone, turn, faults>>

\* A tool of the agent: emit schedules a bubble, and one before the first.
UseTool(d) ==
    /\ pc[d] = "running" /\ bubbles[d].tools < scene.tools
    /\ bubbles' = [bubbles EXCEPT ![d].waiting = @ + (IF bubbles[d].opened THEN 1 ELSE 2),
                                  ![d].opened = TRUE, ![d].tools = @ + 1]
    /\ UNCHANGED <<scene, pc, claims, phone, faults, manager, prev, last, typing, stopped, say, parts, ends, refused, met, crossed, began>>

\* on_send: typing pauses for the message, and goes on when its row is written.
ResumedAlways(d) == typing' = typing \cup {d}
Resumed(d) == typing' = IF d \in stopped THEN typing ELSE typing \cup {d}
Paused(d) == typing' = typing \ {d}

BubbleStarts(d) ==
    /\ bubbles[d].waiting > 0
    /\ IF bubbles[d].shown < MaxBubbles
       THEN /\ bubbles' = [bubbles EXCEPT ![d].waiting = @ - 1, ![d].sending = @ + 1, ![d].shown = @ + 1]
            /\ Paused(d)
       ELSE bubbles' = [bubbles EXCEPT ![d].waiting = @ - 1] /\ UNCHANGED typing
    /\ UNCHANGED <<scene, pc, claims, phone, faults, manager, prev, last, stopped, say, parts, ends, refused, met, crossed, began>>

BubbleSent(d) ==
    /\ bubbles[d].sending > 0
    /\ bubbles' = [bubbles EXCEPT ![d].sending = @ - 1, ![d].recording = @ + 1]
    /\ parts' = [parts EXCEPT ![d] = IF Contains(@, Bubble) THEN @ ELSE Append(@, Bubble)]
    /\ Sends(d, Bubble)
    /\ UNCHANGED <<scene, pc, claims, phone, manager, prev, last, typing, stopped, say, ends, met, crossed, began>>

\* The row fails: the task of the bubble ends there.
BubbleRecorded(d) ==
    /\ bubbles[d].recording > 0
    /\ bubbles' = [bubbles EXCEPT ![d].recording = @ - 1]
    /\ \/ Resumed(d) /\ UNCHANGED faults
       \/ CallFails /\ UNCHANGED typing
    /\ UNCHANGED <<scene, pc, claims, phone, manager, prev, last, stopped, say, parts, ends, refused, met, crossed, began>>

\* ChannelSend with the whole text the agent will end on, or a piece of it.
Say(d, text) ==
    /\ pc[d] = "running" /\ say[d].st = "none" /\ ~Contains(parts[d], text)
    /\ bubbles[d].tools < scene.tools
    /\ bubbles' = [bubbles EXCEPT ![d].tools = @ + 1]
    /\ say' = [say EXCEPT ![d] = [st |-> "sending", text |-> text]]
    /\ Paused(d)
    /\ UNCHANGED <<scene, pc, claims, phone, faults, manager, prev, last, stopped, parts, ends, refused, met, crossed, began>>

SaySent(d) ==
    /\ say[d].st = "sending"
    /\ say' = [say EXCEPT ![d].st = "recording"]
    /\ parts' = [parts EXCEPT ![d] = Append(@, say[d].text)]
    /\ Sends(d, say[d].text)
    /\ UNCHANGED <<scene, pc, claims, phone, manager, prev, last, typing, stopped, bubbles, ends, met, crossed, began>>

SayRecorded(d) ==
    /\ say[d].st = "recording"
    /\ say' = [say EXCEPT ![d] = Silent]
    /\ \/ Resumed(d) /\ UNCHANGED faults
       \/ CallFails /\ UNCHANGED typing
    /\ UNCHANGED <<scene, pc, claims, phone, manager, prev, last, stopped, bubbles, parts, ends, refused, met, crossed, began>>

\* The agent ends with a text, with a message that has none, or -- when the
\* model takes too long -- with no message at all.
AgentEnds(d) ==
    /\ pc[d] = "running" /\ say[d].st = "none"
    /\ \E text \in {d, "nothing", last[Proc(d)]} : last' = [last EXCEPT ![Proc(d)] = text]
    /\ Go(d, "draining")
    /\ UNCHANGED <<scene, claims, phone, faults, manager, prev, typing, stopped, bubbles, say, parts, ends, refused, met, crossed, began>>

\* drain_progress, _halt_typing and the text of the session that is last now:
\* what of it was not said is sent.
FinalOf(who) == IF who = "nothing" THEN <<>> ELSE IF who = "old" THEN Word("old") ELSE Text(who)
Final(d) == FinalOf(last[Proc(d)])
RemainderWhole(d) == Final(d)
Remainder(d) ==
    LET cut == FoldLeft(LAMBDA tail, part : IF IsPrefix(part, tail) THEN SubSeq(tail, Len(part) + 1, Len(tail)) ELSE tail,
                        Final(d), parts[d])
    IN  IF Contains(parts[d], cut) THEN <<>> ELSE cut
Drain(d) ==
    /\ pc[d] = "draining"
    /\ bubbles[d].waiting + bubbles[d].sending + bubbles[d].recording = 0
    /\ typing' = typing \ {d} /\ stopped' = stopped \cup {d}
    /\ ends' = [ends EXCEPT ![d] = IF Remainder(d) # <<>> THEN Remainder(d) ELSE IF parts[d] = <<>> /\ Final(d) = <<>> THEN Word("empty") ELSE <<>>]
    /\ IF ends'[d] = <<>> THEN UNCHANGED <<faults, refused>> ELSE Sends(d, ends'[d])
    /\ Go(d, "tailing")
    /\ UNCHANGED <<scene, claims, phone, manager, prev, last, bubbles, say, parts, met, crossed, began>>

\* finally: the manager of the agent goes back to what it was.
Restores(d) == manager' = [manager EXCEPT ![Proc(d)] = prev[d]]
Leaves(d) ==
    /\ Restores(d)
    /\ crossed' = IF \E i, j \in DOMAIN began : i < j /\ began[i] = d /\ began[j] \in InTurn(Proc(d))
                  THEN crossed \cup {Proc(d)} ELSE crossed
    /\ Go(d, "over")

\* The row of the tail.
Ends(d) ==
    /\ pc[d] = "tailing"
    /\ Leaves(d)
    /\ UNCHANGED <<scene, claims, phone, faults, prev, last, typing, stopped, bubbles, say, parts, ends, refused, met, began>>

\* except: whatever raised, typing stops and an apology is sent; the bubbles
\* that were scheduled are not waited for.
Raises(d) ==
    /\ pc[d] \in {"preparing", "running", "tailing"} /\ CallFails
    /\ typing' = typing \ {d} /\ stopped' = stopped \cup {d}
    /\ say' = [say EXCEPT ![d] = Silent]
    /\ Go(d, "failing")
    /\ UNCHANGED <<scene, claims, phone, manager, prev, last, bubbles, parts, ends, refused, met, crossed, began>>

Apologises(d) ==
    /\ pc[d] = "failing"
    /\ ends' = [ends EXCEPT ![d] = @ \o Word("sorry")]
    /\ Leaves(d)
    /\ UNCHANGED <<scene, claims, phone, faults, prev, last, typing, stopped, bubbles, say, parts, refused, met, began>>

\* The process dies with its tasks; the next one starts with a new Agent.
Dies(p) ==
    LET dead == {d \in Deliveries : Proc(d) = p /\ pc[d] \notin {"new", "over", "deduped", "503"}}
    IN  /\ faults.deaths < scene.deaths
        /\ faults' = [faults EXCEPT !.deaths = @ + 1]
        /\ pc' = [d \in Deliveries |-> IF d \in dead THEN "lost" ELSE pc[d]]
        /\ local' = [local EXCEPT ![p] = {}]
        /\ manager' = [manager EXCEPT ![p] = "web"]
        /\ last' = [last EXCEPT ![p] = "old"]
        /\ typing' = {d \in typing : Proc(d) # p}
        /\ bubbles' = [d \in Deliveries |-> IF Proc(d) = p THEN Quiet ELSE bubbles[d]]
        /\ say' = [d \in Deliveries |-> IF d \in dead THEN Silent ELSE say[d]]
        /\ crossed' = crossed \ {p}
        /\ UNCHANGED <<scene, claimed, phone, prev, stopped, parts, ends, refused, met, began>>

Next ==
    \/ Expire
    \/ \E p \in Processes : Dies(p)
    \/ \E d \in Deliveries :
           \/ Claim(d) \/ ClaimLocally(d) \/ Lookup(d) \/ Hint(d) \/ Confirm(d) \/ LinkPhone(d) \/ Verified(d)
           \/ Begin(d) \/ Prepare(d) \/ UseTool(d) \/ BubbleStarts(d) \/ BubbleSent(d) \/ BubbleRecorded(d)
           \/ SaySent(d) \/ SayRecorded(d) \/ AgentEnds(d) \/ Drain(d) \/ Ends(d) \/ Raises(d) \/ Apologises(d)
           \/ \E text \in {Text(d), <<Text(d)[1]>>, <<Text(d)[2]>>} : Say(d, text)

Spec == Init /\ [][Next]_vars
----------------------------------------------------------------------------
\* A message starts one turn, however often it is delivered, but for claims
\* that expired, were kept in the memory of one process because Redis did not
\* answer, or died with it (imessage_runner.py:75).
TurnsOf(h) == {d \in ToSet(began) : scene.handle[d] = h}
OneTurn == faults = [calls |-> 0, deaths |-> 0, expiries |-> 0]
               => \A h \in {scene.handle[d] : d \in Deliveries} : Cardinality(TurnsOf(h)) <= 1

\* A turn that ended with a text of its own has sent all of it, each piece
\* once if what was said on the way came in the order of the text: a piece does
\* not reach the user only when SendBlue refused the message it was in, which
\* counts as sent and is not repeated (imessage_runner.py:152). No bubble
\* follows. All this unless another turn of the process ran at the same time
\* and left its own text for the last one (imessage_runner.py:250).
Said(d) == FlattenSeq(SelectSeq(parts[d], LAMBDA part : part # Bubble))
Reached(d) == FlattenSeq(SelectSeq(Append(parts[d], ends[d]), LAMBDA part : part \notin refused[d]))
AnswerWhole ==
    \A d \in Deliveries \ met : pc[d] = "over" /\ d \in stopped /\ ~Contains(ends[d], <<"sorry", 0>>) =>
        /\ bubbles[d].waiting + bubbles[d].sending + bubbles[d].recording = 0
        /\ last[Proc(d)] = d => /\ ToSet(Text(d)) \ ToSet(Reached(d)) \subseteq UNION {ToSet(part) : part \in refused[d]}
                                /\ IsPrefix(Said(d), Text(d)) => Said(d) \o ends[d] = Text(d)
AnsweredOnce == OneTurn /\ AnswerWhole

\* What a turn borrowed is given back however it ended: its typing indicator
\* is off, late bubbles or not, and the agent of the process has the context
\* manager of the web again -- unless a turn ended before one that began after
\* it, and the later one put the manager of the earlier one back
\* (imessage_runner.py:290).
GivenBack ==
    /\ typing \cap stopped = {}
    /\ \A p \in Processes \ crossed : InTurn(p) = {} => manager[p] = "web"
=============================================================================
