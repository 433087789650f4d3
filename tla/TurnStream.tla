---------------------------- MODULE TurnStream ----------------------------
(* What a client is shown of a turn: the stream of a model provider          *)
(* (llm/providers), the filter that keeps inline tool calls out of the text  *)
(* (llm/sanitize.py), their parser (llm/tool_call_parse.py), the mapping to  *)
(* the events of the client (streaming/koraku_sse.py) and the usage it       *)
(* counts for the bill (credits/calculator.py).                              *)
(*                                                                           *)
(* A stream belongs to the turn (Main) or to a worker it delegated to; the   *)
(* streams of parallel workers share one KorakuStreamState, sse.             *)
(*                                                                           *)
(* Text comes in pieces: "p" prose, "J" and "C" whole inline calls, "<" and  *)
(* ">" the start and the end of one (what is between is its arguments), "?"  *)
(* text that may or may not be the first half of a start, "[" and "]" the    *)
(* halves of a start cut where the filter does not hold it: after a lone {,  *)
(* or after the [ of <tool_call> [.                                          *)
EXTENDS Naturals, SequencesExt, FiniteSetsExt

CONSTANTS Worker,           \* the kind of each worker: "composio" or "workhorse"
          Scenes            \* bounds: the streams looked at

(* A scene bounds the streams, the rounds, the pieces of an answer, the      *)
(* chunks with usage and the attempts (llm_max_retries + 1), names the       *)
(* pieces of text looked at, and says which backend serves it and whether    *)
(* its tool calls have ids.                                                  *)
Main == "main"

VARIABLES scene,
          stream,    \* [streams -> the call of the model: see NewStream]
          sse,       \* KorakuStreamState: see NoEvents
          torn,      \* streams whose text may have been suppressed by another block
          given,     \* scoped ids announced in attempts that were given up
          texted,    \* <<stream, round>> whose calls were found in the text
          billed     \* [paid: rounds finished, told: rounds that reported usage,
                     \*  chunks: those with usage, lost: an attempt broke after one]

vars == <<scene, stream, sse, torn, given, texted, billed>>

Streams == scene.streams
NoBlocks == [think |-> "none", text |-> "none"]
NoBlock == [kind |-> "none", index |-> 0]
NewStream(round, attempt, pc) ==
    [pc |-> pc,             \* "call", "stream", "tools", "done"
     round |-> round,       \* rounds begun
     attempt |-> attempt,   \* attempts of this round given up
     got |-> 0,             \* pieces received in this attempt
     text |-> <<>>,         \* accumulated_text
     held |-> <<>>,         \* the buffer of VisibleToolJsonFilter
     native |-> {},         \* the slots of native tool calls that have a name
     blocks |-> NoBlocks,   \* openai: each block "none", "open" or "closed"
     block |-> NoBlock,     \* anthropic: the block that is open, or the last
     reports |-> 0,         \* usage reported by the provider in this attempt
     failed |-> FALSE,      \* an error was the answer
     shown |-> <<>>,        \* the text shown of this attempt
     open |-> {},           \* the blocks the client takes for open
     calls |-> {}]          \* scoped ids of the tool calls of the round
NoEvents == [started |-> {},       \* started_tool_use_ids
             live |-> {},          \* tool_calls_by_id
             suppressed |-> {},    \* suppressed_tool_block_indexes
             tools |-> 0,          \* the sum of usage.tool_counts
             reported |-> 0,       \* message_delta events with usage added up
             estimated |-> 0,      \* estimated rounds added up
             unnamed |-> {},       \* results sent without the name of their tool
             ended |-> {},         \* calls whose result was sent
             completed |-> 0]      \* completion sequences sent

Init ==
    /\ scene \in Scenes
    /\ stream = [l \in Streams |-> NewStream(1, 0, "call")]
    /\ sse = NoEvents
    /\ torn = {}
    /\ given = {} /\ texted = {}
    /\ billed = [paid |-> 0, told |-> 0, chunks |-> 0, lost |-> FALSE]
----------------------------------------------------------------------------
(* The events of the client (koraku_sse.py).                                *)

\* Ids of workers get a prefix. A call in the text, and one the provider sent
\* without an id, is "tool_<its number in the answer>".
Prefix(l) == IF l = Main THEN "" ELSE Worker[l]
Numbered(l, k) == <<Prefix(l), "tool_", k>>
Scoped(l, k) ==
    IF scene.ids THEN <<Prefix(l), "id", <<l, stream[l].round, stream[l].attempt, k>> >> ELSE Numbered(l, k)

\* tool_event "started"; the tool is counted when its id is new.
StartedAgain(s, ids) ==
    [s EXCEPT !.live = @ \cup ids, !.started = @ \cup ids, !.tools = @ + Cardinality(ids)]
Started(s, ids) ==
    [s EXCEPT !.live = @ \cup ids, !.started = @ \cup ids, !.tools = @ + Cardinality(ids \ s.started)]
\* tool_event "completed" or "failed", named after the call it takes away.
Finished(s, ids) == [s EXCEPT !.live = @ \ ids, !.unnamed = @ \cup (ids \ s.live), !.ended = @ \cup ids]
Reported(s) == [s EXCEPT !.reported = @ + 1]
EstimatedOnce(s) == IF s.reported + s.estimated > 0 THEN s ELSE [s EXCEPT !.estimated = @ + 1]
Estimated(s) == IF s.reported > 0 THEN s ELSE [s EXCEPT !.estimated = @ + 1]
Billed == IF sse.reported > 0 THEN sse.reported ELSE sse.estimated

\* The text deltas of a block are passed on unless its index is suppressed.
Passes(index) == index \notin sse.suppressed
----------------------------------------------------------------------------
(* The filter and the parser of inline calls.                               *)

\* Feeding a piece t: what is shown, and what is held until the call it may
\* begin is complete, or turns out not to be one.
Whole(t) == t \in {"J", "C"}
FeedEager(buf, t) ==
    CASE buf = <<>> -> [out |-> IF Whole(t) \/ t = "<" THEN <<>> ELSE <<t>>, buf |-> IF t = "<" THEN <<t>> ELSE <<>>]
      [] OTHER -> [out |-> <<>>, buf |-> IF t = ">" THEN <<>> ELSE Append(buf, t)]
Feed(buf, t) ==
    CASE buf = <<>> -> IF t \in {"?", "<"} THEN [out |-> <<>>, buf |-> <<t>>]
                       ELSE [out |-> IF Whole(t) THEN <<>> ELSE <<t>>, buf |-> <<>>]
      [] buf = <<"?">> -> IF t = "<" THEN [out |-> <<>>, buf |-> <<"?", "<">>]
                          ELSE IF t = "?" THEN [out |-> <<"?">>, buf |-> <<"?">>]
                          ELSE [out |-> IF Whole(t) THEN <<"?">> ELSE <<"?", t>>, buf |-> <<>>]
      [] OTHER -> [out |-> <<>>, buf |-> IF t = ">" THEN <<>> ELSE Append(buf, t)]
\* At the end what could still be prose is shown, an unfinished call is not.
Flushed(buf) == IF buf = <<"?">> THEN buf ELSE <<>>

\* The calls in a whole text: a start (with the half before it, if any) up to
\* the first end after it. Of the calls in the arguments of another only the
\* compact ones ("J") are passed over.
Cut(s, i) == i < Len(s) /\ s[i] = "[" /\ s[i + 1] = "]"
Start(s, i) == s[i] = "<" \/ (i < Len(s) /\ s[i] = "?" /\ s[i + 1] = "<") \/ Cut(s, i)
Ends(s, i) == {j \in i..Len(s) : s[j] = ">"}
Span(s, i) ==
    IF Whole(s[i]) THEN {i} ELSE IF Start(s, i) /\ Ends(s, i) # {} THEN i..Min(Ends(s, i)) ELSE {}
Spans(s) ==
    LET cover == FoldLeftDomain(LAMBDA acc, i : IF i \in UNION acc /\ s[i] # "C" THEN acc ELSE acc \cup {Span(s, i)}, {}, s)
    IN  {span \in SUBSET DOMAIN s : span # {} /\ span \in cover}
Outside(s, gone) == FoldLeftDomain(LAMBDA out, i : IF i \in gone THEN out ELSE Append(out, s[i]), <<>>, s)

\* The prose of a text: what is outside its calls, up to one never finished.
Prose(s) ==
    LET gone == UNION Spans(s)
        cut == {i \in DOMAIN s \ gone : Start(s, i)}
    IN  Outside(s, gone \cup (IF cut = {} THEN {} ELSE Min(cut)..Len(s)))
----------------------------------------------------------------------------
(* One call of the model.                                                   *)

Set(l, s) == stream' = [stream EXCEPT ![l] = s]
Tears(l, index) == torn' = IF Passes(index) THEN torn ELSE torn \cup {l}
Receives(l, backend) == scene.backend = backend /\ stream[l].pc = "stream" /\ stream[l].got < scene.pieces

\* message_start: a client that sees it starts the message over.
Connect(l) ==
    /\ stream[l].pc = "call"
    /\ Set(l, NewStream(stream[l].round, stream[l].attempt, "stream"))
    /\ UNCHANGED <<scene, sse, torn, given, texted, billed>>

\* Text of an openai stream: the thinking block is closed, the text block is
\* opened, what the filter lets through is a delta of it.
TextIndex(s) == IF s.blocks.think # "none" THEN 1 ELSE 0
EmitBeside(s, t) ==
    [s EXCEPT !.got = @ + 1, !.text = Append(@, t), !.open = @ \cup {TextIndex(s)}, !.blocks.text = "open"]
Emit(s, t) ==
    LET f == Feed(s.held, t)
    IN  [s EXCEPT !.got = @ + 1, !.text = Append(@, t), !.held = f.buf, !.open = {TextIndex(s)},
                  !.blocks = [think |-> IF @.think = "open" THEN "closed" ELSE @.think, text |-> "open"],
                  !.shown = IF Passes(TextIndex(s)) THEN @ \o f.out ELSE @]

Text(l, t) ==
    /\ Receives(l, "openai")
    /\ Set(l, Emit(stream[l], t))
    /\ Tears(l, TextIndex(stream[l]))
    /\ UNCHANGED <<scene, sse, given, texted, billed>>

\* Reasoning goes to a thinking block, or to the text once that has begun.
Reasoning(l) ==
    /\ Receives(l, "openai")
    /\ IF stream[l].blocks.text # "none"
       THEN Set(l, Emit(stream[l], "p")) /\ Tears(l, TextIndex(stream[l]))
       ELSE /\ Set(l, [stream[l] EXCEPT !.got = @ + 1, !.blocks.think = "open", !.open = {0}])
            /\ UNCHANGED torn
    /\ UNCHANGED <<scene, sse, given, texted, billed>>

\* A delta of a native tool call: announced once, when it has a name.
NativeCall(l, k) ==
    /\ Receives(l, "openai")
    /\ Set(l, [stream[l] EXCEPT !.got = @ + 1, !.native = @ \cup {k}])
    /\ sse' = IF k \in stream[l].native THEN sse ELSE Started(sse, {Scoped(l, k)})
    /\ UNCHANGED <<scene, torn, given, texted, billed>>

\* Every chunk with usage is passed on as a message_delta.
UsageChunk(l) ==
    /\ scene.backend = "openai" /\ stream[l].pc = "stream" /\ stream[l].reports < scene.usages
    /\ Set(l, [stream[l] EXCEPT !.reports = @ + 1])
    /\ sse' = Reported(sse)
    /\ billed' = [billed EXCEPT !.chunks = @ + 1]
    /\ UNCHANGED <<scene, torn, given, texted>>

\* The blocks of an anthropic stream are passed on as they are; those of tool
\* calls are announced as started tools and their deltas suppressed.
Idle(s) == s.block.kind \in {"none", "closed"}
Shares(m, i) == stream[m].block.index = i /\ stream[m].block.kind \in {"think", "text"}
OpenBlock(l, kind) ==
    LET i == IF stream[l].block.kind = "none" THEN 0 ELSE stream[l].block.index + 1
        s == [stream[l] EXCEPT !.got = @ + 1, !.block = [kind |-> kind, index |-> i]]
    IN  /\ Receives(l, "anthropic") /\ Idle(stream[l])
        /\ IF kind = "tool"
           THEN /\ Set(l, [s EXCEPT !.native = @ \cup {i}])
                /\ sse' = [Started(sse, {Scoped(l, i)}) EXCEPT !.suppressed = @ \cup {i}]
                /\ torn' = torn \cup {m \in Streams : Shares(m, i)}
           ELSE Set(l, [s EXCEPT !.open = @ \cup {i}]) /\ UNCHANGED <<sse, torn>>
        /\ UNCHANGED <<scene, given, texted, billed>>

BlockDelta(l) ==
    LET i == stream[l].block.index
    IN  /\ Receives(l, "anthropic") /\ stream[l].block.kind = "text"
        /\ Set(l, [stream[l] EXCEPT !.got = @ + 1, !.text = Append(@, "p"),
                                    !.shown = IF Passes(i) THEN Append(@, "p") ELSE @])
        /\ Tears(l, i)
        /\ UNCHANGED <<scene, sse, given, texted, billed>>

CloseBlock(l) ==
    LET i == stream[l].block.index
        s == [stream[l] EXCEPT !.block.kind = "closed"]
    IN  /\ scene.backend = "anthropic" /\ stream[l].pc = "stream" /\ ~Idle(stream[l])
        /\ IF Passes(i) THEN Set(l, [s EXCEPT !.open = @ \ {i}]) /\ UNCHANGED <<sse, torn>>
           ELSE /\ Set(l, s)
                /\ sse' = [sse EXCEPT !.suppressed = @ \ {i}]
                /\ torn' = IF stream[l].block.kind = "tool" THEN torn ELSE torn \cup {l}
        /\ UNCHANGED <<scene, given, texted, billed>>
----------------------------------------------------------------------------
(* The end of a call.                                                       *)

\* Native calls are authoritative; without any the text is searched for calls.
Searched(l) == scene.backend = "openai" /\ stream[l].native = {} /\ Spans(stream[l].text) # {}
Called(l) ==
    IF Searched(l) THEN {Numbered(l, k) : k \in 1..Cardinality(Spans(stream[l].text))}
    ELSE {Scoped(l, k) : k \in stream[l].native}

\* After the assistant message: an estimate of the usage, then the tools are
\* announced by the executor, or the loop is over.
Ended(l, s, events, ids) ==
    LET known == Estimated(events)
    IN  /\ Set(l, [s EXCEPT !.calls = ids, !.pc = IF ids # {} THEN "tools" ELSE "done"])
        /\ billed' = [billed EXCEPT !.paid = @ + 1, !.told = @ + (IF s.reports > 0 THEN 1 ELSE 0)]
        /\ sse' = IF ids # {} THEN Started(known, ids)
                  ELSE IF l = Main THEN [known EXCEPT !.completed = @ + 1] ELSE known

\* flush and get_final_messages; its message_delta carries the usage again.
Rest(s) == IF Passes(TextIndex(s)) THEN Flushed(s.held) ELSE <<>>
Closed(s) == [s EXCEPT !.shown = @ \o Rest(s), !.open = {}, !.held = <<>>]
StreamEnds(l) ==
    LET s == stream[l]
    IN  /\ scene.backend = "openai" /\ s.pc = "stream"
        /\ Ended(l, Closed(s), IF s.reports > 0 THEN Reported(sse) ELSE sse, Called(l))
        /\ texted' = IF Searched(l) THEN texted \cup {<<l, s.round>>} ELSE texted
        /\ UNCHANGED <<scene, torn, given>>

\* message_delta with the usage, then the final message.
MessageEnds(l) ==
    /\ scene.backend = "anthropic" /\ stream[l].pc = "stream" /\ Idle(stream[l])
    /\ Ended(l, [stream[l] EXCEPT !.reports = 1], Reported(sse), Called(l))
    /\ UNCHANGED <<scene, torn, given, texted>>

\* A connection that fails or breaks. What was announced stays announced, the
\* index of a tool block that never stopped stays suppressed, and what was
\* shown stays until the next message_start.
Broken(l) == stream[l].pc \in {"call", "stream"} /\ given' = given \cup {Scoped(l, k) : k \in stream[l].native}
Again(l) == stream[l].attempt + 1 < scene.attempts

\* The call is made again; an anthropic one only when it was refused.
Retries(l) ==
    LET s == stream[l]
    IN  /\ Broken(l) /\ Again(l) /\ (scene.backend = "openai" \/ s.pc = "call")
        /\ Set(l, [NewStream(s.round, s.attempt + 1, "call") EXCEPT !.shown = s.shown, !.open = s.open])
        /\ billed' = [billed EXCEPT !.lost = @ \/ s.reports > 0]
        /\ UNCHANGED <<scene, sse, torn, texted>>

\* Or the answer is an error, which no block is closed for: of an openai
\* stream that broke with attempts left it never is.
Fails(l) ==
    LET s == stream[l]
    IN  /\ Broken(l) /\ ~(Again(l) /\ scene.backend = "openai" /\ s.pc = "stream")
        /\ Ended(l, [s EXCEPT !.failed = TRUE, !.native = {}, !.held = <<>>], sse, {})
        /\ UNCHANGED <<scene, torn, texted>>

\* The results of the round, one "user" event each, and the next round.
ToolsReturn(l) ==
    LET s == stream[l]
    IN  /\ s.pc = "tools"
        /\ sse' = Finished(sse, s.calls)
        /\ Set(l, IF s.round < scene.rounds THEN NewStream(s.round + 1, 0, "call")
                  ELSE NewStream(s.round, 0, "done"))
        /\ UNCHANGED <<scene, torn, given, texted, billed>>

Next ==
    \E l \in Streams :
        \/ Connect(l) \/ Reasoning(l) \/ UsageChunk(l) \/ BlockDelta(l) \/ CloseBlock(l)
        \/ StreamEnds(l) \/ MessageEnds(l) \/ Retries(l) \/ Fails(l) \/ ToolsReturn(l)
        \/ \E t \in scene.texts : Text(l, t)
        \/ \E k \in 1..scene.slots : NativeCall(l, k)
        \/ \E kind \in {"think", "text", "tool"} : OpenBlock(l, kind)

Spec == Init /\ [][Next]_vars
----------------------------------------------------------------------------
Over(l) == stream[l].pc \in {"tools", "done"}

\* A client has one block open at a time unless a stop was swallowed; what is
\* held back begins like a call; tools have results only once announced.
TypeOK ==
    /\ \A l \in Streams : stream[l].pc \in {"call", "stream", "tools", "done"}
    /\ \A l \in Streams : /\ l \notin torn => Cardinality(stream[l].open) <= 1
                          /\ stream[l].held # <<>> => Head(stream[l].held) \in {"?", "<"}
                          /\ stream[l].calls # {} => stream[l].pc = "tools"
    /\ torn \subseteq Streams
    /\ sse.live \subseteq sse.started /\ sse.completed <= 1

\* The text shown piece by piece is the prose the parser finds in the whole
\* answer, and the blocks the client was told of are closed then. Not so when a
\* start was cut where the filter lets its first half through (sanitize.py:57,
\* 66: the whole call is shown then), when an error was the answer, and when a
\* tool block of the same index on another stream, also one that broke,
\* suppressed a part of the text (sanitize.py:136 and tool_call_parse.py:189
\* are two implementations).
ShownIsProse ==
    \A l \in Streams : /\ Over(l) /\ l \notin torn /\ ~stream[l].failed
                       /\ ~\E i \in DOMAIN stream[l].text : Cut(stream[l].text, i)
        => stream[l].shown = Prose(stream[l].text) /\ stream[l].open = {}

\* No two streams with one prefix, nor two rounds of one, had calls in the
\* text: those are numbered anew in every answer.
Apart == \A a, b \in texted : Prefix(a[1]) = Prefix(b[1]) => a = b

\* When all is over every id that was announced has its result, but for those
\* announced by an attempt that broke, and is charged for once
\* (koraku_sse.py:102, credits/calculator.py:66). The results are named after
\* their tools as long as the provider sends ids, and no two answers have
\* calls in their text: calls of one number are one to the client and the bill.
ToolsPaired ==
    (\A l \in Streams : stream[l].pc = "done")
        => /\ sse.started \ given \subseteq sse.ended
           /\ sse.tools = Cardinality(sse.ended \cup given)
           /\ scene.ids /\ Apart => sse.unnamed = {}

\* No round is billed beyond what the provider reported of it and once more
\* (openai_compat repeats the last report at the end of a round, and every
\* report is added up, koraku_sse.py:557). None is free, as long as the
\* provider reports usage always or never and no attempt broke after it had
\* reported (calculator.py:38: from the first report on, estimates are ignored).
RoundsBilled ==
    /\ Billed <= billed.paid + billed.chunks
    /\ /\ billed.told \in {0, billed.paid} /\ ~billed.lost
       /\ \A l \in Streams : stream[l].pc = "done"
       => billed.paid <= Billed
=============================================================================
