----------------------------- MODULE Automations -----------------------------
(* The automations of a user in three parts: their runs (AutomationRunner),  *)
(* what makes the runs start (AutomationTriggers) and the accounts their     *)
(* tools work with (Connections). The parts share no state: a behaviour is   *)
(* one of one part, and the variables of the others stay as they are.        *)
EXTENDS AutomationRunner

CONSTANTS Parts,          \* the parts considered
          CauseScenes,    \* the automations AutomationTriggers looks at
          AccountScenes   \* the situations Connections looks at

\* A handler of a request is not a process.
ASSUME CauseAssumption ==
    \A s \in CauseScenes :
        /\ s.there \in BOOLEAN
        /\ DOMAIN s.home \cap ({s.home[c] : c \in DOMAIN s.home} \cup {s.to[e] : e \in DOMAIN s.to}) = {}

VARIABLES part,
          scene, saved, trigger, up, leader, job, ticking, handlers, doing, listed, event, claims,
          counts, torn, untold,
          setting, accounts, opened, changes, faults, rows, prompt, tools, threads, work, late

cause == <<scene, saved, trigger, up, leader, job, ticking, handlers, doing, listed, event, claims,
           counts, torn, untold>>
account == <<setting, accounts, opened, changes, faults, rows, prompt, tools, threads, work, late>>
all == <<part, vars, cause, account>>

Cause == INSTANCE AutomationTriggers WITH Scenes <- CauseScenes, row <- saved, pc <- handlers
Account == INSTANCE Connections WITH Scenes <- AccountScenes, scene <- setting, pc <- threads

NoAccount ==
    /\ setting = 0 /\ accounts = 0 /\ opened = 0 /\ changes = 0 /\ faults = 0 /\ rows = 0 /\ prompt = 0
    /\ tools = 0 /\ threads = 0 /\ work = 0 /\ late = 0

NoCause ==
    /\ scene = 0 /\ saved = 0 /\ trigger = 0 /\ up = 0 /\ leader = 0 /\ job = 0 /\ ticking = 0
    /\ handlers = 0 /\ doing = 0 /\ listed = 0 /\ event = 0 /\ claims = 0 /\ counts = 0
    /\ torn = 0 /\ untold = 0

PartInit ==
    /\ part \in Parts
    /\ Init
    /\ IF part = "causes" THEN Cause!Init ELSE NoCause
    /\ IF part = "accounts" THEN Account!Init ELSE NoAccount
    /\ part # "runs" => proc = [t \in Triggers |-> CHOOSE p \in Procs : TRUE]

PartNext ==
    /\ UNCHANGED part
    /\ \/ part = "runs" /\ Next /\ UNCHANGED <<cause, account>>
       \/ part = "causes" /\ Cause!Next /\ UNCHANGED <<vars, account>>
       \/ part = "accounts" /\ Account!Next /\ UNCHANGED <<vars, cause>>

PartSpec == PartInit /\ [][PartNext]_all
----------------------------------------------------------------------------
\* Composio fires for an automation that is active; a delivery that comes again
\* does not start a second run, and is refused only when one before it was
\* taken. A taken delivery whose queueing failed is lost: that is named.
EventsReachOnce == part = "causes" => Cause!EventsReachOnce

\* Cleanups leave an active account of those there were, though they run at
\* the same time with lists of their own.
ActiveKept == [][part = "accounts" => Account!KeepsActive]_all
=============================================================================
