--------------------------- MODULE ContextManager ---------------------------
(* What of a conversation is sent to the model: agent/context_manager.py and *)
(* agent/context_pins.py.                                                    *)
(*                                                                           *)
(* A message is a record: who wrote it, whether it has visible text, whether *)
(* it has a thinking block, the ids of its tool_use blocks, its tool_result  *)
(* blocks (from the id of the tool_use to the size of the result) and, for   *)
(* the sake of the properties, the questions of the user that can be read in *)
(* it.  Texts are abstracted to these.  A ContextManager is a record of its  *)
(* context_max_messages (max, at least 2) and context_summarize_after.       *)
EXTENDS Naturals, SequencesExt, FiniteSetsExt

CONSTANTS KeepRecent,        \* keep_recent, 8 in the code
          MaxVisible,        \* _SUMMARY_MAX_VISIBLE_TURNS
          CompactRounds,     \* chat_compact_tool_context
          ResultCap,         \* max_tool_result_chars
          PinnedCap,         \* context_pinned_tool_result_chars
          MaxPins            \* context_pinned_max_items

ASSUME WindowAssumption ==
    /\ KeepRecent \in Nat \ {0}
    /\ {MaxVisible, ResultCap, PinnedCap, MaxPins} \subseteq Nat
    /\ CompactRounds \in BOOLEAN

NoResults == [id \in {} |-> 0]
UserText(asks) == [by |-> "user", text |-> TRUE, think |-> FALSE, uses |-> {}, results |-> NoResults, asks |-> asks]
Results(res) == [by |-> "user", text |-> FALSE, think |-> FALSE, uses |-> {}, results |-> res, asks |-> {}]
Reply(text, uses) == [by |-> "assistant", text |-> text, think |-> TRUE, uses |-> uses, results |-> NoResults, asks |-> {}]

ToolUseOnly(m) == m.by = "assistant" /\ m.uses # {} /\ ~m.text
ResultsOnly(m) == m.by = "user" /\ DOMAIN m.results # {} /\ ~m.text
VisibleReply(m) == m.by = "assistant" /\ m.text
----------------------------------------------------------------------------
(* The passes over the messages, in the order they are applied.             *)

\* op of every message (SubSeq makes TLC compute it once).
Each(s, op(_)) == SubSeq([i \in DOMAIN s |-> op(s[i])], 1, Len(s))

\* The messages at the indexes in keep, in their order.
Pick(s, keep) ==
    LET nth(k) == CHOOSE i \in keep : Cardinality({j \in keep : j <= i}) = k
    IN  SubSeq([k \in 1..Cardinality(keep) |-> s[nth(k)]], 1, Cardinality(keep))

DropThinking(s) == Each(s, LAMBDA m : [m EXCEPT !.think = FALSE])

\* A round of tools that the next message answers goes, but for a pinned one.
RoundAnswered(s, pins, i) ==
    /\ i + 2 <= Len(s)
    /\ ToolUseOnly(s[i]) /\ ResultsOnly(s[i + 1]) /\ VisibleReply(s[i + 2])
    /\ s[i].uses \cap pins = {}
DropCompletedToolRoundPairs(s, pins) ==
    LET gone == {i \in DOMAIN s : RoundAnswered(s, pins, i)}
    IN  Pick(s, DOMAIN s \ (gone \cup {i + 1 : i \in gone}))

TruncateToolResults(s, pins) ==
    LET cap(id) == IF id \in pins THEN Max({ResultCap, PinnedCap}) ELSE ResultCap
        cut(res) == [id \in DOMAIN res |-> Min({res[id], cap(id)})]
    IN  Each(s, LAMBDA m : [m EXCEPT !.results = cut(@)])

\* Never start with tool results: go back to the message that asked for them.
AdjustStartForToolPairs(s, start) == Max({j \in 1..start : j = 1 \/ ~ResultsOnly(s[j])})

Visible(s) == Pick(s, {i \in DOMAIN s : s[i].text})
SummaryOldest(old) ==
    LET visible == Visible(old)
    IN  UserText(UNION {visible[i].asks : i \in 1..Min({MaxVisible, Len(visible)})})
Summary(old) ==
    LET visible == Visible(old)
        told == SubSeq(visible, Max({1, Len(visible) - MaxVisible + 1}), Len(visible))
    IN  UserText(UNION {told[i].asks : i \in DOMAIN told})
SummarizeIfNeeded(cm, s) ==
    LET start == AdjustStartForToolPairs(s, Max({2, Len(s) - KeepRecent + 1}))
    IN  IF Len(s) <= cm.after \/ start <= 2 THEN s
        ELSE <<s[1], Summary(SubSeq(s, 2, start - 1))>> \o SubSeq(s, start, Len(s))

ApplySlidingWindow(cm, s) ==
    LET start == AdjustStartForToolPairs(s, Len(s) - cm.max + 2)
    IN  IF Len(s) <= cm.max THEN s ELSE <<s[1]>> \o SubSeq(s, start, Len(s))

\* Results whose tool_use is not the last message kept before them are dropped.
\* If that is not the message before them, that one is results, without uses,
\* and was dropped because the last one kept has none either.
Orphaned(s, i) == ResultsOnly(s[i]) /\ (i = 1 \/ s[i - 1].uses = {})
EnsureValidToolChains(s) == Pick(s, {i \in DOMAIN s : ~Orphaned(s, i)})

ProcessMessages(cm, s, pins) ==
    LET clean == DropThinking(s)
        compact == IF CompactRounds THEN DropCompletedToolRoundPairs(clean, pins) ELSE clean
        short == TruncateToolResults(compact, pins)
    IN  EnsureValidToolChains(ApplySlidingWindow(cm, SummarizeIfNeeded(cm, short)))
----------------------------------------------------------------------------
(* Pinned results: the ids, oldest first, of results that the block of      *)
(* pinned context repeats after the window.                                 *)

\* fresh: the ids of the round that are worth a pin, in order.
RecordPins(pinned, fresh) ==
    LET all == pinned \o SelectSeq(fresh, LAMBDA id : ~Contains(pinned, id))
    IN  SubSeq(all, Max({1, Len(all) - MaxPins + 1}), Len(all))
=============================================================================
