---------------------------- MODULE Conversations ----------------------------
(* A conversation in seven parts: the stream of a turn (ChatStream), what a  *)
(* turn goes through before it -- Admission, once for its limiter and once   *)
(* for its credits, ChatSession, OrgContext and SkillCatalog -- and the      *)
(* channel that needs no stream, IMessage. The parts share no state but the  *)
(* names of their variables: a behaviour is one of one part, and the         *)
(* variables of the others stay as they are.                                 *)
EXTENDS ChatStream

CONSTANTS Parts,            \* the parts considered
          LimiterSetup,     \* the constants of Admission for the limiter
          CreditsSetup,     \* and for the credits
          SessionScenes,    \* the conversations ChatSession looks at
          ContextSetup,     \* the constants of OrgContext
          CatalogSetup,     \* the constants of SkillCatalog
          PhoneScenes,      \* the deliveries IMessage looks at
          MaxBubbles        \* MAX_AUTO_BUBBLES

VARIABLES part, scene, pc,
          now, posts, clients, count, hits, entered, used, ledger, charged,
          suspended, limit, granted, patching, acts, highest, unchecked, peak,
          next, kept, heap, mine, answered, seen, rows, context, losses, calm, shuffled,
          claimed, local, link, threads, manager, prev, last, typing, stopped, bubbles, say, parts,
          ends, refused, faults, met, crossed, began,
          members, ever, profile, skills, changes, kept_profile, orgs, profiles, org_rows, index, work,
          overtaken, clock, edits, files, folders, root, stamp, catalog, shown, blurred

Limiter == INSTANCE Admission WITH
    client <- clients, Requests <- LimiterSetup.requests, Home <- LimiterSetup.home,
    Reserve <- LimiterSetup.reserve, Costs <- LimiterSetup.costs, Limit <- LimiterSetup.limit,
    Grants <- LimiterSetup.grants, Limits <- LimiterSetup.limits, MaxHits <- LimiterSetup.maxHits,
    Window <- LimiterSetup.window, Month <- LimiterSetup.month, MaxTime <- LimiterSetup.maxTime,
    MaxPosts <- LimiterSetup.maxPosts, MaxActs <- LimiterSetup.maxActs
Credits == INSTANCE Admission WITH
    client <- clients, Requests <- CreditsSetup.requests, Home <- CreditsSetup.home,
    Reserve <- CreditsSetup.reserve, Costs <- CreditsSetup.costs, Limit <- CreditsSetup.limit,
    Grants <- CreditsSetup.grants, Limits <- CreditsSetup.limits, MaxHits <- CreditsSetup.maxHits,
    Window <- CreditsSetup.window, Month <- CreditsSetup.month, MaxTime <- CreditsSetup.maxTime,
    MaxPosts <- CreditsSetup.maxPosts, MaxActs <- CreditsSetup.maxActs
Chat == INSTANCE ChatSession WITH Scenes <- SessionScenes
Context == INSTANCE OrgContext WITH
    saved <- kept_profile, rows <- org_rows, crossed <- overtaken,
    Slugs <- ContextSetup.slugs, Bundled <- ContextSetup.bundled, Orgs <- ContextSetup.orgs,
    Personal <- ContextSetup.personal, Scenes <- ContextSetup.scenes
Local == INSTANCE SkillCatalog WITH
    Slugs <- CatalogSetup.slugs, Bundled <- CatalogSetup.bundled, Sizes <- CatalogSetup.sizes,
    MaxTotal <- CatalogSetup.maxTotal, MaxTime <- CatalogSetup.maxTime, MaxEdits <- CatalogSetup.maxEdits
Phone == INSTANCE IMessage WITH Scenes <- PhoneScenes

\* The settings of both gates are numbers; a thread of OrgContext acts for a
\* user, and in an organisation, that exist.
ASSUME SetupAssumption ==
    /\ Limiter!Settings /\ Credits!Settings
    /\ ContextSetup.personal \in [Context!Users -> ContextSetup.orgs]
    /\ \A s \in ContextSetup.scenes : \A t \in DOMAIN s.home :
          /\ s.who[t] \in Context!Users /\ s.names[t] \in ContextSetup.orgs \cup {"none"}
          /\ s.does[t] \subseteq Context!Kinds

door == <<now, posts, clients, count, hits, entered, used, ledger, charged,
          suspended, limit, granted, patching, acts, highest, unchecked, peak>>
talk == <<next, kept, heap, mine, answered, seen, rows, context, losses, calm, shuffled>>
texting == <<claimed, local, link, threads, manager, prev, last, typing, stopped, bubbles, say, parts,
             ends, refused, faults, met, crossed, began>>
context_vars == <<members, ever, profile, skills, changes, kept_profile, orgs, profiles, org_rows, index,
                  work, overtaken>>
shelf == <<clock, edits, files, folders, root, stamp, catalog, shown, blurred>>
knowing == <<context_vars, shelf>>
all == <<part, scene, pc, vars, door, talk, texting, knowing>>

NoDoor ==
    /\ now = 0 /\ posts = 0 /\ clients = 0 /\ count = 0 /\ hits = 0 /\ entered = {}
    /\ used = 0 /\ ledger = 0 /\ charged = 0 /\ suspended = 0 /\ limit = 0 /\ granted = 0
    /\ patching = 0 /\ acts = 0 /\ highest = 0 /\ unchecked = 0 /\ peak = 0
NoTalk ==
    /\ next = 0 /\ kept = 0 /\ heap = 0 /\ mine = 0 /\ answered = 0 /\ seen = 0 /\ rows = 0
    /\ context = 0 /\ losses = 0 /\ calm = 0 /\ shuffled = 0
NoTexting ==
    /\ claimed = 0 /\ local = 0 /\ link = 0 /\ threads = 0 /\ manager = 0 /\ prev = 0 /\ last = 0
    /\ typing = 0 /\ stopped = 0 /\ bubbles = 0 /\ say = 0 /\ parts = 0 /\ ends = 0 /\ refused = 0 /\ faults = 0
    /\ met = 0 /\ crossed = 0 /\ began = 0
NoContext ==
    /\ members = 0 /\ ever = 0 /\ profile = 0 /\ skills = 0 /\ changes = 0 /\ kept_profile = 0 /\ orgs = 0
    /\ profiles = 0 /\ org_rows = 0 /\ index = 0 /\ work = 0 /\ overtaken = 0
NoShelf ==
    /\ clock = 0 /\ edits = 0 /\ files = 0 /\ folders = 0 /\ root = 0 /\ stamp = 0 /\ catalog = 0
    /\ shown = 0 /\ blurred = 0

PartInit ==
    /\ part \in Parts
    /\ Init /\ (part = "stream" \/ mode = "stream")
    /\ IF part = "stream" THEN scene = 0 /\ pc = 0 ELSE TRUE
    /\ IF part = "limiter" THEN scene = 0 /\ Limiter!Init
       ELSE IF part = "credits" THEN scene = 0 /\ Credits!Init ELSE NoDoor
    /\ IF part = "session" THEN Chat!Init ELSE NoTalk
    /\ IF part = "imessage" THEN Phone!Init ELSE NoTexting
    /\ IF part = "context" THEN pc = 0 /\ Context!Init ELSE NoContext
    /\ IF part = "catalog" THEN scene = 0 /\ Local!Init ELSE NoShelf

PartNext ==
    /\ UNCHANGED part
    /\ \/ part = "stream" /\ Next /\ UNCHANGED <<scene, pc, door, talk, texting, knowing>>
       \/ part = "limiter" /\ (Limiter!Tick \/ \E r \in LimiterSetup.requests : Limiter!Limiting(r)) /\ UNCHANGED <<scene, vars, talk, texting, knowing>>
       \/ part = "credits" /\ Credits!Next /\ UNCHANGED <<scene, vars, talk, texting, knowing>>
       \/ part = "session" /\ Chat!Next /\ UNCHANGED <<vars, door, texting, knowing>>
       \/ part = "imessage" /\ Phone!Next /\ UNCHANGED <<vars, door, talk, knowing>>
       \/ part = "context" /\ Context!Next /\ UNCHANGED <<pc, vars, door, talk, texting, shelf>>
       \/ part = "catalog" /\ Local!Next /\ UNCHANGED <<scene, vars, door, talk, texting, context_vars>>

PartSpec == PartInit /\ [][PartNext]_all
----------------------------------------------------------------------------
\* The limiter lets in no more than its two counters allow, though a request
\* refused by one is counted by the other, and the ledger ends no further above
\* its limit than the runs in flight together cost.
AdmissionBounded ==
    /\ part = "limiter" => Limiter!AdmissionBounded
    /\ part = "credits" => Credits!AdmissionBounded

\* A turn works on messages of its owner only, and is asked after the earlier
\* turns' answers, once, wherever they came from, and in order unless rows of
\* the database were read in another; the profile and
\* the skills it has are those of its owner and organisation, and the skills
\* listed in its prompt are there to be loaded.
OwnContext ==
    /\ part = "session" => Chat!OwnerIsolated /\ Chat!ContextIsHistory
    /\ part = "context" => Context!ContextIsOwn
    /\ part = "catalog" => Local!CatalogTrue

\* A text message starts one turn, and a turn sends its whole answer, once, but
\* for the messages that SendBlue refused.
AnsweredOnce == part = "imessage" => Phone!AnsweredOnce

\* What a turn of iMessage borrowed (the typing indicator, the context manager
\* of the agent) is given back however it ended.
GivenBack == part = "imessage" => Phone!GivenBack
=============================================================================
