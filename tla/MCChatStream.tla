---------------------------- MODULE MCChatStream ----------------------------
(* Model checking of Conversations: what each of its parts looks at, and the *)
(* fairness of the stream.                                                   *)
EXTENDS Conversations, TLC

Callers == {"r1", "r2", "r3", "r4"}
Runs == {"r1", "r2"}
MCLimiterSetup ==
    [requests |-> Callers, costs |-> {0}, limit |-> 3,
     home |-> [r \in Callers |-> IF r = "r4" THEN "p2" ELSE "p1"],
     reserve |-> [r \in Callers |-> 1],
     maxHits |-> 1, window |-> 2, month |-> 9, maxTime |-> 2, maxPosts |-> 1,
     grants |-> {1}, limits |-> {1}, maxActs |-> 0]
MCCreditsSetup ==
    [requests |-> Runs, costs |-> {0, 3}, limit |-> 3,
     home |-> [r \in Runs |-> "p1"], reserve |-> [r1 |-> 1, r2 |-> 2],
     maxHits |-> 0, window |-> 2, month |-> 1, maxTime |-> 1, maxPosts |-> 2,
     grants |-> {1}, limits |-> {5}, maxActs |-> 2]

Session(store, owner, together, losses_, same, prefer, detached, limit_) ==
    [store |-> store, owner |-> owner, together |-> together, losses |-> losses_,
     same |-> same, prefer |-> prefer, detached |-> detached, limit |-> limit_]
MCSessionScenes ==
    {Session("memory", <<"a", "a", "a">>, 1, 1, TRUE, FALSE, TRUE, 6),
     Session("memory", <<"a", "b", "a">>, 2, 0, FALSE, TRUE, FALSE, 6),
     Session("memory", <<"a", "a">>, 2, 1, TRUE, FALSE, FALSE, 6),
     Session("redis", <<"a", "a", "a">>, 2, 0, TRUE, FALSE, TRUE, 2),
     Session("redis", <<"a", "b">>, 2, 1, FALSE, TRUE, FALSE, 6),
     Session("redis", <<"a", "a", "a">>, 1, 1, FALSE, FALSE, TRUE, 4)}

Turn(home, who, names, first, second, joined, often) ==
    [home |-> home, who |-> who, names |-> names, does |-> "t1" :> first @@ "t2" :> second,
     members |-> joined, changes |-> often]
Of(first, second) == "t1" :> first @@ "t2" :> second
ContextScenes ==
    {Turn(Of("p1", "p1"), Of("u1", "u1"), Of("o1", "o1"), {"automation", "get"}, {"put"}, {}, 2),
     Turn(Of("p1", "p2"), Of("u1", "u1"), Of("none", "none"), {"chat"}, {"put"}, {}, 2),
     Turn(Of("p1", "p1"), Of("u1", "u2"), Of("o1", "o1"), {"chat"}, {"list"}, {}, 1),
     Turn(Of("p1", "p1"), Of("u1", "u2"), Of("o1", "o1"), {"list"}, {"upsert", "delete"}, {<<"u2", "o1">>}, 2),
     Turn(Of("p1", "p1"), Of("u1", "u2"), Of("o1", "o1"), {"automation"}, {"upsert"}, {<<"u2", "o1">>}, 2),
     Turn(Of("p1", "p1"), Of("u1", "u2"), Of("o1", "o2"), {"upsert", "chat"}, {"automation"}, {}, 1)}
MCContextSetup ==
    [slugs |-> {"a", "b"}, bundled |-> {"b"}, orgs |-> {"o1", "o2"}, personal |-> [u1 |-> "o1", u2 |-> "o2"], scenes |-> ContextScenes]
MCCatalogSetup ==
    [slugs |-> <<"a", "b">>, bundled |-> [b |-> 1], sizes |-> {1, 2}, maxTotal |-> 3, maxTime |-> 3, maxEdits |-> 2]

Texts(handle, proc, linked, code, tools, calls, deaths, expiries) ==
    [handle |-> handle, proc |-> proc, linked |-> linked, code |-> code, tools |-> tools,
     calls |-> calls, deaths |-> deaths, expiries |-> expiries]
MCPhoneScenes ==
    {Texts("d1" :> "h1" @@ "d2" :> "h1", "d1" :> "p1" @@ "d2" :> "p2", TRUE, FALSE, 0, 1, 1, 1),
     Texts("d1" :> "h1" @@ "d2" :> "h2", "d1" :> "p1" @@ "d2" :> "p1", TRUE, FALSE, 1, 1, 0, 0),
     Texts("d1" :> "h1" @@ "d2" :> "h2", "d1" :> "p1" @@ "d2" :> "p2", FALSE, TRUE, 0, 1, 0, 0),
     Texts("d1" :> "h1", "d1" :> "p1", TRUE, FALSE, 3, 1, 0, 0),
     Texts("d1" :> "h1", "d1" :> "p1", FALSE, FALSE, 1, 1, 0, 0)}

MCSpec ==
    /\ PartSpec
    /\ WF_vars(part = "stream" /\ Agent) /\ WF_vars(part = "stream" /\ Generator)
    /\ WF_vars(part = "stream" /\ Abandon) /\ WF_vars(part = "stream" /\ Watch)
=============================================================================
