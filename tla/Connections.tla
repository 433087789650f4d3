---------------------------- MODULE Connections ----------------------------
(* The accounts of one user for one toolkit (Gmail, ...) at Composio, and    *)
(* what a process believes of them: integrations/composio.py over            *)
(* core/ttl_cache.py, called from threads by api/composio_routes.py, by the  *)
(* turns of the agent and by its tools.                                      *)
(*                                                                           *)
(* Composio is external: it lists the accounts in the order they were        *)
(* opened, and an account becomes active when its owner has agreed to it.    *)
EXTENDS Naturals, Sequences, FiniteSets, SequencesExt

CONSTANT Scenes   \* bounds: the situations looked at

Unset == [none |-> TRUE]

(* What a thread is about: the overview of the Connections page and a new    *)
(* connection clean up first, then look and open; the section of the system  *)
(* prompt; the tools of the toolkit; a call of one of its tools.             *)
Starts == {"overview", "connect", "prompt", "tools", "call"}
Ways == Starts \cup {"look", "open", "opened"}

(* A scene says in which process a thread runs (home), each having its own   *)
(* caches, what the thread may be about (does), how often accounts change    *)
(* and how many requests for tools fail in part.                             *)

VARIABLES scene,     \* the bounds of this behaviour
          accounts,  \* the accounts at Composio, oldest first
          opened,    \* how many accounts were opened
          changes,   \* how often accounts changed but for deletions
          faults,
          rows,      \* [Homes -> _connections_cache: a list and its asOf, or Unset]
          prompt,    \* [Homes -> _prompt_section_cache: is the toolkit active? or Unset]
          tools,     \* [Homes -> _dynamic_tools_cache: "all", "few" or Unset]
          pc,        \* [Threads -> where a thread is]
          work,      \* [Threads -> its way, the list it works with, asOf: changes
                     \*  when that was made, the list it cleans up (group), the
                     \*  accounts it still has to delete (doomed) and whether it
                     \*  has deleted any (removed)]
          late       \* something was deleted by a list older than a change

remote == <<accounts, opened, changes, late>>
caches == <<rows, prompt, tools>>
threads == <<pc, work>>
vars == <<scene, remote, faults, caches, threads>>

Threads == DOMAIN scene.home
Home == scene.home
Homes == {Home[t] : t \in Threads}
NoWork == [way |-> "call", list |-> <<>>, asOf |-> 0, group |-> Unset, doomed |-> {}, removed |-> FALSE]

Init ==
    /\ scene \in Scenes
    /\ accounts = <<>> /\ opened = 0 /\ changes = 0 /\ faults = 0 /\ late = FALSE
    /\ rows = [p \in Homes |-> Unset]
    /\ prompt = [p \in Homes |-> Unset]
    /\ tools = [p \in Homes |-> Unset]
    /\ pc = [t \in Threads |-> "idle"]
    /\ work = [t \in Threads |-> NoWork]

Active(as) == \E i \in DOMAIN as : as[i].status = "ACTIVE"
Cached(p) == rows[p] # Unset
----------------------------------------------------------------------------
(* Composio.                                                                *)

Change(s) == changes < scene.changes /\ changes' = changes + 1 /\ accounts' = s

\* The owner agrees, or an account expires or is revoked.
StatusChanges ==
    /\ \E i \in DOMAIN accounts, s \in {"ACTIVE", "EXPIRED"} :
         /\ s = "ACTIVE" => accounts[i].status = "INITIATED"
         /\ accounts[i].status # "EXPIRED"
         /\ Change([accounts EXCEPT ![i].status = s])
    /\ UNCHANGED <<opened, late, faults, caches, threads>>
----------------------------------------------------------------------------
(* The caches.                                                              *)

\* An entry is dropped _CACHE_TTL after it was set, or to make room.
AgeRowsUnused(p) ==
    /\ Cached(p) /\ \A t \in Threads : Home[t] = p => pc[t] = "idle"
    /\ rows' = [rows EXCEPT ![p] = Unset]
    /\ UNCHANGED <<remote, faults, prompt, tools, threads>>

AgeRows(p) ==
    /\ Cached(p)
    /\ rows' = [rows EXCEPT ![p] = Unset]
    /\ UNCHANGED <<remote, faults, prompt, tools, threads>>

AgePrompt(p) ==
    /\ prompt[p] # Unset
    /\ prompt' = [prompt EXCEPT ![p] = Unset]
    /\ UNCHANGED <<remote, faults, rows, tools, threads>>

AgeTools(p) ==
    /\ tools[p] # Unset
    /\ tools' = [tools EXCEPT ![p] = Unset]
    /\ UNCHANGED <<remote, faults, rows, prompt, threads>>

\* invalidate_connections_cache: the rows and the sections of the prompt, not
\* the tools.
Invalidated(p) ==
    /\ rows' = [rows EXCEPT ![p] = Unset]
    /\ prompt' = [prompt EXCEPT ![p] = Unset]
    /\ UNCHANGED tools
----------------------------------------------------------------------------
(* list_connections_summary.                                                *)

Goes(t, place) == pc' = [pc EXCEPT ![t] = place]
Done(t) == Goes(t, "idle") /\ work' = [work EXCEPT ![t] = NoWork]

Hit(t) ==
    /\ pc[t] = "get" /\ Cached(Home[t])
    /\ work' = [work EXCEPT ![t].list = rows[Home[t]].list, ![t].asOf = rows[Home[t]].asOf]
    /\ Goes(t, "touch")
    /\ UNCHANGED <<remote, faults, caches>>

\* TtlCache.get moves the entry it has found to the end. If another thread has
\* dropped it since, that raises and ends what the thread was about.
Touch(t) ==
    /\ pc[t] = "touch"
    /\ IF Cached(Home[t]) THEN Goes(t, "listed") /\ UNCHANGED work ELSE Done(t)
    /\ UNCHANGED <<remote, faults, caches>>

Miss(t) ==
    /\ pc[t] = "get" /\ ~Cached(Home[t])
    /\ Goes(t, "fetch")
    /\ UNCHANGED <<remote, faults, caches, work>>

Fetch(t) ==
    /\ pc[t] = "fetch"
    /\ work' = [work EXCEPT ![t].list = accounts, ![t].asOf = changes]
    /\ Goes(t, "store")
    /\ UNCHANGED <<remote, faults, caches>>

FetchFails(t) ==
    /\ pc[t] = "fetch"
    /\ Done(t)
    /\ UNCHANGED <<remote, faults, caches>>

Store(t) ==
    /\ pc[t] = "store"
    /\ rows' = [rows EXCEPT ![Home[t]] = [list |-> work[t].list, asOf |-> work[t].asOf]]
    /\ prompt' = [prompt EXCEPT ![Home[t]] = Unset]
    /\ Goes(t, "listed")
    /\ UNCHANGED <<remote, faults, tools, work>>
----------------------------------------------------------------------------
(* The ways.                                                                *)

\* A request or a turn begins; a section of the prompt that is cached is used
\* as it is.
Start(t, w) ==
    /\ pc[t] = "idle" /\ w \in scene.does[t]
    /\ w = "prompt" => prompt[Home[t]] = Unset
    /\ work' = [work EXCEPT ![t].way = w]
    /\ Goes(t, IF w \in {"overview", "connect"} THEN "invalidate" ELSE "get")
    /\ UNCHANGED <<remote, faults, caches>>

Invalidate(t) ==
    /\ pc[t] = "invalidate"
    /\ Invalidated(Home[t])
    /\ IF work[t].way = "opened" THEN Done(t) ELSE Goes(t, "get") /\ UNCHANGED work
    /\ UNCHANGED <<remote, faults>>

PrimaryNewest(as) == as[Len(as)].id

\* primary_connected_account_id: the last active account, or the last one.
Primary(as) ==
    LET active == {i \in DOMAIN as : as[i].status = "ACTIVE"}
        pool == IF active = {} THEN DOMAIN as ELSE active
    IN  as[CHOOSE i \in pool : \A j \in pool : j <= i].id

\* cleanup_duplicate_toolkit_connections: of a group of several, all but one
\* are deleted one by one; a deletion that fails is logged.
Group(t) ==
    /\ pc[t] = "listed" /\ work[t].way \in {"overview", "connect"} /\ work[t].group = Unset
    /\ Len(work[t].list) > 1
    /\ work' = [work EXCEPT ![t].group = [list |-> work[t].list, asOf |-> work[t].asOf]]
    /\ Goes(t, "get")
    /\ UNCHANGED <<remote, faults, caches>>

\* The one is chosen from another list, which may be newer or older.
Kept(t) == IF work[t].list = <<>> THEN Last(work[t].group.list).id ELSE Primary(work[t].list)
Choose(t) ==
    /\ pc[t] = "listed" /\ work[t].way \in {"overview", "connect"} /\ work[t].group # Unset
    /\ work' = [work EXCEPT ![t].doomed = {a.id : a \in ToSet(work[t].group.list)} \ {Kept(t)}]
    /\ Goes(t, "delete")
    /\ UNCHANGED <<remote, faults, caches>>

Oldest(t) == CHOOSE a \in work[t].doomed : \A b \in work[t].doomed : a <= b
Delete(t) ==
    /\ pc[t] = "delete" /\ work[t].doomed # {}
    /\ \E i \in DOMAIN accounts : accounts[i].id = Oldest(t) /\ accounts' = RemoveAt(accounts, i)
    /\ late' = (late \/ {work[t].asOf, work[t].group.asOf} # {changes})
    /\ work' = [work EXCEPT ![t].doomed = @ \ {Oldest(t)}, ![t].removed = TRUE]
    /\ UNCHANGED <<opened, changes, faults, caches, pc>>

DeleteFails(t) ==
    /\ pc[t] = "delete" /\ work[t].doomed # {}
    /\ work' = [work EXCEPT ![t].doomed = @ \ {Oldest(t)}]
    /\ UNCHANGED <<remote, faults, caches, pc>>

\* The overview looks again, and connecting opens an account if none is active.
Onwards(t) ==
    /\ work' = [work EXCEPT ![t] = [NoWork EXCEPT !.way = IF work[t].way = "overview" THEN "look" ELSE "open"]]
    /\ Goes(t, "get")

NothingToClean(t) ==
    /\ pc[t] = "listed" /\ work[t].way \in {"overview", "connect"} /\ work[t].group = Unset
    /\ Len(work[t].list) <= 1
    /\ Onwards(t)
    /\ UNCHANGED <<remote, faults, caches>>

Cleaned(t) ==
    /\ pc[t] = "delete" /\ work[t].doomed = {}
    /\ IF work[t].removed THEN Invalidated(Home[t]) ELSE UNCHANGED caches
    /\ Onwards(t)
    /\ UNCHANGED <<remote, faults>>

\* The overview is shown; or a tool is called. A call names no account: the
\* name of the tool, which is looked for among the toolkits, is never one.
Looked(t) ==
    /\ pc[t] = "listed" /\ work[t].way \in {"look", "call"}
    /\ Done(t)
    /\ UNCHANGED <<remote, faults, caches>>

AlreadyConnected(t) ==
    /\ pc[t] = "listed" /\ work[t].way = "open" /\ Active(work[t].list)
    /\ Done(t)
    /\ UNCHANGED <<remote, faults, caches>>

\* authorize, or link when Composio complains of several accounts: one more.
Open(t) ==
    /\ pc[t] = "listed" /\ work[t].way = "open" /\ ~Active(work[t].list)
    /\ Change(Append(accounts, [id |-> opened + 1, status |-> "INITIATED"]))
    /\ opened' = opened + 1
    /\ work' = [work EXCEPT ![t].way = "opened"]
    /\ Goes(t, "invalidate")
    /\ UNCHANGED <<late, faults, caches>>

OpenFails(t) ==
    /\ pc[t] = "listed" /\ work[t].way = "open" /\ ~Active(work[t].list)
    /\ Done(t)
    /\ UNCHANGED <<remote, faults, caches>>

\* The section says which toolkits are active.
SetPrompt(t) ==
    /\ pc[t] = "listed" /\ work[t].way = "prompt"
    /\ prompt' = [prompt EXCEPT ![Home[t]] = [active |-> Active(work[t].list)]]
    /\ Done(t)
    /\ UNCHANGED <<remote, faults, rows, tools>>

\* _build_dynamic_composio_tools_for_slugs: what a failed request did not bring
\* is left out, and the rest is cached like the whole.
LoadTools(t) ==
    /\ pc[t] = "listed" /\ work[t].way = "tools"
    /\ \/ (~Active(work[t].list) \/ tools[Home[t]] # Unset) /\ UNCHANGED <<tools, faults>>
       \/ /\ Active(work[t].list) /\ tools[Home[t]] = Unset
          /\ \E some \in {"all", "few"} :
               /\ some = "few" => faults < scene.faults
               /\ faults' = IF some = "few" THEN faults + 1 ELSE faults
               /\ tools' = [tools EXCEPT ![Home[t]] = [loaded |-> some]]
    /\ Done(t)
    /\ UNCHANGED <<remote, rows, prompt>>

Step(t) ==
    \/ Hit(t) \/ Touch(t) \/ Miss(t) \/ Fetch(t) \/ FetchFails(t) \/ Store(t)
    \/ Invalidate(t) \/ Group(t) \/ Choose(t) \/ Delete(t) \/ DeleteFails(t) \/ NothingToClean(t) \/ Cleaned(t)
    \/ Looked(t) \/ AlreadyConnected(t) \/ Open(t) \/ OpenFails(t)
    \/ SetPrompt(t) \/ LoadTools(t)

Next ==
    /\ UNCHANGED scene
    /\ \/ StatusChanges
       \/ \E t \in Threads : Step(t) \/ \E w \in Starts : Start(t, w)
       \/ \E p \in Homes : AgeRows(p) \/ AgePrompt(p) \/ AgeTools(p)
----------------------------------------------------------------------------
\* An account is listed once, a list is not newer than the accounts, and only
\* threads that clean up have accounts to delete.
TypeOK ==
    /\ \A i, j \in DOMAIN accounts : accounts[i].id = accounts[j].id => i = j
    /\ \A i \in DOMAIN accounts : accounts[i] \in [id : 1..opened, status : {"INITIATED", "ACTIVE", "EXPIRED"}]
    /\ changes \in 0..scene.changes /\ faults \in 0..scene.faults
    /\ \A t \in Threads : /\ work[t].way \in Ways /\ work[t].asOf <= changes
                          /\ work[t].doomed # {} => work[t].way \in {"overview", "connect"}
    /\ \A p \in Homes : Cached(p) => rows[p].asOf <= changes

\* However many cleanups run at a time, with lists of their own and with
\* deletions that fail, they leave an active account if there was one, as long
\* as the two lists of each were made after accounts last changed
\* (composio.py:259).
KeepsActive ==
    \A t \in Threads :
        work'[t].doomed # work[t].doomed /\ ~late' /\ Active(accounts) => Active(accounts')
ActiveKept == [][KeepsActive]_vars

\* What a process believes is in the end what Composio has, though lists that
\* were fetched before a change are stored after it, sections are built from
\* lists dropped since, and half a toolkit is cached (composio.py:170).
Agrees(p) ==
    /\ Cached(p) => rows[p].list = accounts
    /\ prompt[p] \in {Unset, [active |-> Active(accounts)]}
    /\ tools[p] # [loaded |-> "few"]
Believes == \A p \in Homes : Agrees(p)
BeliefsConverge == <>[]Believes
=============================================================================
