------------------------- MODULE MCAutomationRunner -------------------------
(* Model checking of Automations: the automations and the accounts that its  *)
(* parts look at, and the fairness of each.                                  *)
EXTENDS Automations, TLC

\* Two handlers in two processes, or in one.
Apart == "c1" :> "p1" @@ "c2" :> "p2"
Beside == "c1" :> "p1" @@ "c2" :> "p1"
NoEvents == [e \in {} |-> "p1"]
OneEvent == "e1" :> "p1"
ThreeEvents == "e1" :> "p1" @@ "e2" :> "p1" @@ "e3" :> "p2"
Scene(mode, there, home, to, times, calls, deaths, expiries, byTool) ==
    [mode |-> mode, there |-> there, home |-> home, to |-> to, key |-> [e \in DOMAIN to |-> "k"],
     changes |-> times, calls |-> calls, deaths |-> deaths, expiries |-> expiries, tools |-> byTool]
MCCauseScenes ==
    {Scene("scheduled", TRUE, Apart, NoEvents, 2, 0, 1, 0, FALSE),
     Scene("scheduled", FALSE, Beside, NoEvents, 2, 1, 0, 0, TRUE),
     Scene("composio", FALSE, Beside, OneEvent, 2, 1, 0, 0, FALSE),
     Scene("composio", TRUE, Beside, OneEvent, 2, 0, 0, 0, TRUE),
     Scene("webhook", TRUE, "c1" :> "p1", ThreeEvents, 1, 1, 1, 1, FALSE)}

\* Two threads of one process or of two, with their own caches or not.
Setting(home, first, second, often, fails) ==
    [home |-> home, does |-> "d1" :> first @@ "d2" :> second, changes |-> often, faults |-> fails]
Shared == "d1" :> "p1" @@ "d2" :> "p1"
Split == "d1" :> "p1" @@ "d2" :> "p2"
MCAccountScenes ==
    {Setting(Split, {"connect"}, {"overview"}, 3, 0),
     Setting(Shared, {"connect"}, {"overview"}, 3, 0),
     Setting(Shared, {"connect"}, {"prompt", "call"}, 2, 0),
     Setting(Shared, {"connect"}, {"tools"}, 2, 1)}

\* Threads run, and cached entries age.
InAccounts(p) == part = "accounts" /\ UNCHANGED setting /\ p \in Account!Homes
AccountFairness ==
    /\ \A d \in {"d1", "d2"} : WF_account(part = "accounts" /\ UNCHANGED setting /\ Account!Step(d))
    /\ \A p \in {"p1", "p2"} : /\ WF_account(InAccounts(p) /\ Account!AgeRows(p))
                               /\ WF_account(InAccounts(p) /\ Account!AgePrompt(p))
                               /\ WF_account(InAccounts(p) /\ Account!AgeTools(p))

MCSpec ==
    /\ PartSpec
    /\ \A t \in Triggers : WF_vars(part = "runs" /\ Work(t))
    /\ WF_cause(part = "causes" /\ Cause!Resyncs)
    /\ \A k \in {"c1", "c2", "p1", "p2"} : WF_cause(part = "causes" /\ k \in DOMAIN handlers /\ Cause!Syncs(k))
    /\ AccountFairness
----------------------------------------------------------------------------
\* The job of the scheduler comes to agree with the saved automation and stays
\* so, whatever the syncs of other requests and processes did in between.
ScheduleConverges == <>[](part = "causes" => Cause!JobAgrees)

\* What a process believes of the accounts is in the end what they are, though
\* lists fetched before a change are stored after it.
BeliefsConverge == <>[](part = "accounts" => Account!Believes)
=============================================================================
