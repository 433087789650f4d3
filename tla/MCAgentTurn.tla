---------------------------- MODULE MCAgentTurn ----------------------------
(* Model checking of AgentTurn: conversations of the loop, streams of the    *)
(* two providers, and turns that work on files.                              *)
EXTENDS AgentTurn

(* The window is cut by the summary, or by the sliding window alone.         *)
Summing == [max |-> 6, after |-> 4]
Sliding == [max |-> 4, after |-> 9]
MCShapes ==
    {[turns |-> 2, rounds |-> 2, calls |-> 1, retries |-> 0, aborts |-> 1, kinds |-> {"plain"}, cm |-> Summing],
     [turns |-> 2, rounds |-> 2, calls |-> 1, retries |-> 0, aborts |-> 0, kinds |-> {"plain"}, cm |-> Sliding],
     [turns |-> 1, rounds |-> 1, calls |-> 2, retries |-> 0, aborts |-> 1, kinds |-> {"delegate", "plain"}, cm |-> Summing],
     [turns |-> 1, rounds |-> 1, calls |-> 2, retries |-> 2, aborts |-> 0, kinds |-> {"plain", "malformed"}, cm |-> Summing]}

Streaming(streams, rounds, pieces, attempts, texts, slots, backend) ==
    [streams |-> streams, rounds |-> rounds, pieces |-> pieces, attempts |-> attempts, texts |-> texts,
     slots |-> slots, backend |-> backend, usages |-> 1, ids |-> TRUE]
Unnamed(s) == [s EXCEPT !.ids = FALSE]
Chatty(s) == [s EXCEPT !.usages = 3]
MCStreamWorkers == [w1 |-> "workhorse", w2 |-> "workhorse"]
MCStreamScenes ==
    {Streaming({"main"}, 1, 5, 1, {"p", "?", "<", ">", "J", "C"}, 1, "openai"),
     Streaming({"main"}, 1, 5, 1, {"[", "]", "?", ">", "C"}, 0, "openai"),
     Streaming({"main"}, 2, 2, 2, {"p", "J"}, 2, "openai"),
     Chatty(Unnamed(Streaming({"main"}, 2, 1, 2, {"J"}, 1, "openai"))),
     Streaming({"w1", "w2"}, 1, 1, 1, {"J"}, 1, "openai"),
     Unnamed(Streaming({"w1", "w2"}, 1, 1, 1, {}, 1, "openai")),
     Streaming({"main"}, 2, 3, 2, {}, 0, "anthropic"),
     Streaming({"w1", "w2"}, 1, 2, 2, {}, 0, "anthropic")}

(* Turns that work on files: an attached VM that is lost while a file grows, *)
(* a document that is built and edited, an iMessage turn in the VM and on    *)
(* the host, and calls that are refused on the host.                         *)
Op(op, file, r, old) == [op |-> op, file |-> file, round |-> r, old |-> old, outside |-> FALSE, fits |-> TRUE]
Outside(call) == [call EXCEPT !.outside = TRUE]
Unfit(call) == [call EXCEPT !.fits = FALSE]
Turn(target, eager, captures, wrong, plan) ==
    [target |-> target, eager |-> eager, captures |-> captures, plan |-> plan, retries |-> 1, faults |-> wrong]
MCFileScenes ==
    {Turn("cloud", FALSE, FALSE, 1, <<Op("write", "f", 1, 0), Op("read", "f", 1, 0), Op("append", "f", 2, 0)>>),
     Turn("cloud", FALSE, FALSE, 1, <<Op("build", "f", 1, 0), Outside(Op("edit", "f", 2, 1)), Op("find", "f", 2, 0)>>),
     Turn("cloud", TRUE, TRUE, 1, <<Op("write", "f", 1, 0), Op("append", "f", 1, 0), Unfit(Op("edit", "f", 2, 2))>>),
     Turn("local", FALSE, TRUE, 1, <<Unfit(Op("append", "f", 1, 0)), Op("append", "f", 1, 0), Op("edit", "f", 2, 1),
                                     Op("shell", "g", 2, 0)>>),
     Turn("local", FALSE, TRUE, 1, <<Op("build", "f", 1, 0), Outside(Op("write", "f", 1, 0)), Op("read", "f", 1, 0),
                                     Op("write", "f", 2, 0), Op("edit", "f", 2, 1)>>)}

\* The fairness of AgentLoop.
MCSpec ==
    /\ PartSpec
    /\ \A l \in Loops : /\ WF_vars(part = "loop" /\ at[l] # "tools" /\ Step(l))
                        /\ WF_vars(part = "loop" /\ ToolTimeout(l))
                        /\ WF_vars(part = "loop" /\ \E repeat \in BOOLEAN : ToolsDone(l, repeat))
=============================================================================
