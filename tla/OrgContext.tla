----------------------------- MODULE OrgContext -----------------------------
(* What a turn in the cloud knows of its organisation and its user: which    *)
(* organisation it acts for (integrations/supabase_tenant.py), the profile   *)
(* of the user there (supabase_personalization.py) and the skills of the     *)
(* organisation (supabase_skills.py), each read through a cache of the       *)
(* process, and the index of skills in its prompt with what SkillLoad finds  *)
(* for it (tools/skills.py). Meanwhile the settings pages read and change    *)
(* the same rows (api/skills_routes.py, api/personalization_routes.py).      *)
(*                                                                           *)
(* The tables and who is a member of what are external.                      *)
EXTENDS Naturals, FiniteSets

CONSTANTS Slugs,      \* names of skills
          Bundled,    \* those that come with the program
          Orgs,
          Personal,   \* [Users -> the organisation each has of its own]
          Scenes      \* bounds: the situations looked at

Unset == [none |-> TRUE]
Users == DOMAIN Personal

(* What a thread may be about: a turn of a chat or of an automation, the     *)
(* pages of skills and of the profile, and changes made there.               *)
Turns == {"chat", "automation"}
Changes == {"upsert", "delete", "put"}
Kinds == Turns \cup Changes \cup {"list", "get"}
Topics == {"profile", "skills"}

(* A scene says in which process a thread runs (home), for whom (who) and    *)
(* which organisation its requests name, if any (names), what it may be      *)
(* about (does), and how often rows and members change (changes).            *)

VARIABLES scene,
          members,     \* koraku_org_member: {<<user, organisation>>}
          ever,        \* all that were in there
          profile,     \* koraku_personalization: [Users \X Orgs -> version]; 0 is no row
          skills,      \* koraku_skill: [Orgs -> [slugs of its rows -> row]]
          changes,     \* how often they changed
          saved,       \* [Users \X Orgs -> the last version a put has answered for]
          orgs,        \* [Homes -> [Users -> _ORG_MEMBERSHIP_CACHE]]
          profiles,    \* [Homes -> [Users \X Orgs -> _PERSONALIZATION_CACHE]]
          rows,        \* [Homes -> [Orgs -> _SKILLS_CACHE]]
          index,       \* [Homes -> [SUBSET Slugs -> _skill_catalog_cache]]
          work,        \* [Threads -> what the thread is about]
          crossed      \* {<<process, <<user, organisation>>>>} whose profile was saved
                       \*  in another process, or while a thread of it was storing it

tables == <<members, ever, profile, skills, changes>>
ghosts == <<saved, crossed>>
caches == <<orgs, profiles, rows, index>>
vars == <<scene, tables, caches, work, ghosts>>

Threads == DOMAIN scene.home
Home == scene.home
Who == scene.who
Homes == {Home[t] : t \in Threads}

\* Where the thread is, for which organisation, the slugs listed in the prompt
\* of a turn, the version a put has written, the stages of the two reads and
\* what they brought.
Idle == [kind |-> "idle", at |-> "idle", org |-> "none", listed |-> {}, wrote |-> 0,
         stage |-> [x \in Topics |-> "no"], got |-> [x \in Topics |-> Unset]]

Init ==
    /\ scene \in Scenes
    /\ members = scene.members \cup {<<u, Personal[u]>> : u \in Users}
    /\ ever = members
    /\ profile = [k \in Users \X Orgs |-> 0]
    /\ skills = [o \in Orgs |-> [s \in {} |-> Unset]]
    /\ changes = 0
    /\ orgs = [p \in Homes |-> [u \in Users |-> Unset]]
    /\ profiles = [p \in Homes |-> [k \in Users \X Orgs |-> Unset]]
    /\ rows = [p \in Homes |-> [o \in Orgs |-> Unset]]
    /\ index = [p \in Homes |-> [ss \in SUBSET Slugs |-> Unset]]
    /\ work = [t \in Threads |-> Idle]
    /\ saved = profile
    /\ crossed = {}

Change == changes < scene.changes /\ changes' = changes + 1
----------------------------------------------------------------------------
(* Which organisation: resolve_org_id_sync, on the event loop.              *)

\* Somebody joins an organisation or leaves it.
MembersChange ==
    /\ Change
    /\ \E m \in Users \X Orgs :
         /\ m[2] # Personal[m[1]]
         /\ members' = IF m \in members THEN members \ {m} ELSE members \cup {m}
    /\ ever' = ever \cup members'
    /\ UNCHANGED <<profile, skills, caches, work, ghosts>>

MemberOf(u) == {o \in Orgs : <<u, o>> \in members}

\* _member_org_ids_sync: the cached list, or the table, or none if it cannot be
\* read.
Lists(t, list) ==
    LET p == Home[t]
        u == Who[t]
    IN  \/ orgs[p][u] # Unset /\ list = orgs[p][u].list /\ UNCHANGED orgs
        \/ orgs[p][u] = Unset /\ list = MemberOf(u) /\ orgs' = [orgs EXCEPT ![p][u] = [list |-> list]]
        \/ orgs[p][u] = Unset /\ list = {} /\ UNCHANGED orgs

\* What a request is about starts with its reads, or with the change.
Enters(t, k, o) ==
    work' = [work EXCEPT ![t] =
        [Idle EXCEPT !.kind = k, !.org = o,
                     !.at = IF k \in Changes THEN "write" ELSE "reading",
                     !.stage = [profile |-> IF k \in Turns \cup {"get"} THEN "get" ELSE "no",
                                skills |-> IF k \in {"chat", "list"} THEN "get" ELSE "no"]]]

\* A request that names an organisation is refused (403) unless the list has it.
Named(t, k) ==
    /\ work[t].at = "idle" /\ k # "automation" /\ scene.names[t] # "none"
    /\ \E list \in SUBSET Orgs :
         /\ Lists(t, list)
         /\ IF scene.names[t] \in list THEN Enters(t, k, scene.names[t]) ELSE UNCHANGED work
    /\ UNCHANGED <<tables, profiles, rows, index, ghosts>>

\* ensure_personal_org_sync.
PersonalOrg(t) == Personal[Who[t]]

\* One that names none acts for the personal one; if that cannot be had, for
\* the first of the list, the default ones come first; else it is refused (503).
Unnamed(t, k) ==
    /\ work[t].at = "idle" /\ k # "automation" /\ scene.names[t] = "none"
    /\ \/ Enters(t, k, PersonalOrg(t)) /\ UNCHANGED orgs
       \/ \E list \in SUBSET Orgs :
            /\ Lists(t, list)
            /\ \/ list = {} /\ UNCHANGED work
               \/ \E o \in list : (PersonalOrg(t) \in list => o = PersonalOrg(t)) /\ Enters(t, k, o)
    /\ UNCHANGED <<tables, profiles, rows, index, ghosts>>

\* prepare_automation_agent_context: a run acts for the organisation the
\* automation was made in, or else for the personal one.
AutomationStarts(t, k) ==
    /\ work[t].at = "idle" /\ k = "automation"
    /\ Enters(t, k, IF scene.names[t] = "none" THEN PersonalOrg(t) ELSE scene.names[t])
    /\ UNCHANGED <<tables, caches, ghosts>>
----------------------------------------------------------------------------
(* The reads, in threads: fetch_personalization_sync and                     *)
(* fetch_org_skills_sync.                                                    *)

Key(t) == <<Who[t], work[t].org>>
Cache(t, x) == IF x = "profile" THEN profiles[Home[t]][Key(t)] ELSE rows[Home[t]][work[t].org]

Stage(t, x, s) == work' = [work EXCEPT ![t].stage[x] = s]
Brings(t, x, s, v) == work' = [work EXCEPT ![t].stage[x] = s, ![t].got[x] = v]

\* An entry is found, and moved to the end of the cache; if another thread has
\* dropped it since, that raises.
Hit(t, x) ==
    /\ work[t].stage[x] = "get" /\ Cache(t, x) # Unset
    /\ Brings(t, x, "touch", Cache(t, x))
    /\ UNCHANGED <<tables, caches, ghosts>>

Touch(t, x) ==
    /\ work[t].stage[x] = "touch"
    /\ IF Cache(t, x) # Unset THEN Stage(t, x, "done") ELSE Brings(t, x, "raised", Unset)
    /\ UNCHANGED <<tables, caches, ghosts>>

Miss(t, x) ==
    /\ work[t].stage[x] = "get" /\ Cache(t, x) = Unset
    /\ Stage(t, x, "fetch")
    /\ UNCHANGED <<tables, caches, ghosts>>

\* The list of the settings page has the skills that are switched off, too.
Table(t, x) ==
    LET o == work[t].org
        all == skills[o]
        listed == {s \in DOMAIN all : work[t].kind = "list" \/ all[s].enabled}
    IN  IF x = "profile" THEN [of |-> Key(t), version |-> profile[Key(t)]]
                         ELSE [of |-> o, rows |-> [s \in listed |-> all[s]]]

Fetch(t, x) ==
    /\ work[t].stage[x] = "fetch"
    /\ Brings(t, x, "store", Table(t, x))
    /\ UNCHANGED <<tables, caches, ghosts>>

FetchFails(t, x) ==
    /\ work[t].stage[x] = "fetch"
    /\ Stage(t, x, "done")
    /\ UNCHANGED <<tables, caches, ghosts>>

\* The key of the skills does not say which of the two lists it is.
Store(t, x) ==
    /\ work[t].stage[x] = "store"
    /\ IF x = "profile"
       THEN profiles' = [profiles EXCEPT ![Home[t]][Key(t)] = work[t].got[x]] /\ UNCHANGED rows
       ELSE rows' = [rows EXCEPT ![Home[t]][work[t].org] = work[t].got[x]] /\ UNCHANGED profiles
    /\ Stage(t, x, "done")
    /\ UNCHANGED <<tables, orgs, index, ghosts>>

Read(t) == \A x \in Topics : work[t].stage[x] \in {"no", "done", "raised"}

\* The run of an automation reads one after the other, and fails if the first
\* raised; the turn of a chat goes on without what it did not get.
ThenSkills(t) ==
    /\ work[t].kind = "automation" /\ work[t].at = "reading" /\ work[t].stage["skills"] = "no" /\ Read(t)
    /\ IF work[t].stage["profile"] = "raised"
       THEN work' = [work EXCEPT ![t] = Idle] ELSE Stage(t, "skills", "get")
    /\ UNCHANGED <<tables, caches, ghosts>>
----------------------------------------------------------------------------
(* The prompt of a turn, and SkillLoad.                                     *)

\* bind_org_skills: the rows a turn has found are its own until it ends.
Bound(t) == IF work[t].got["skills"] = Unset THEN [s \in {} |-> Unset] ELSE work[t].got["skills"].rows

\* A line for each row, known by its slug.
OrgLines(found) == DOMAIN found

\* _load_skill_index_uncached: those of the organisation, and the bundled ones
\* they do not replace.
IndexOf(found) == OrgLines(found) \cup Bundled

\* load_skill_prompt_section: the index is cached under the names of the
\* organisation's skills, by all turns of the process, and never dropped.
IndexKey(found) == DOMAIN found
IndexShown(p, found) ==
    LET cached == index[p][IndexKey(found)]
    IN  IF cached = Unset THEN [slugs |-> IndexOf(found)] ELSE cached

\* build_tiered_system_prompt.
Prepare(t) ==
    LET p == Home[t]
        shown == IndexShown(p, Bound(t))
    IN  /\ work[t].kind \in Turns /\ work[t].at = "reading" /\ Read(t) /\ work[t].stage["skills"] # "no"
        /\ index' = [index EXCEPT ![p][IndexKey(Bound(t))] = shown]
        /\ work' = [work EXCEPT ![t].at = "running", ![t].listed = shown.slugs]
        /\ UNCHANGED <<tables, orgs, profiles, rows, ghosts>>

\* resolve_skill_body: the bundled skill if the row has no body.
LoadSkill(t, s) ==
    IF s \in DOMAIN Bound(t) /\ Bound(t)[s].body THEN "org"
    ELSE IF s \in Bundled THEN "bundled" ELSE "error"

\* Without a profile the prompt has an empty one.
Snippets(t) == IF work[t].got["profile"] = Unset THEN [of |-> Key(t), version |-> 0] ELSE work[t].got["profile"]

TurnEnds(t) ==
    /\ work[t].at = "running"
    /\ work' = [work EXCEPT ![t] = Idle]
    /\ UNCHANGED <<tables, caches, ghosts>>

\* skills_list, personalization_get: an answer, or an error (502) without one.
PageAnswered(t) ==
    /\ work[t].kind \in {"list", "get"} /\ Read(t)
    /\ work' = [work EXCEPT ![t] = Idle]
    /\ UNCHANGED <<tables, caches, ghosts>>
----------------------------------------------------------------------------
(* The changes, in threads: first the row, then the entry of the own cache.  *)

WriteRows(t, new) ==
    /\ work[t].at = "write"
    /\ Change
    /\ skills' = [skills EXCEPT ![work[t].org] = new]
    /\ work' = [work EXCEPT ![t].at = "invalidate"]
    /\ UNCHANGED <<members, ever, profile, caches, ghosts>>

UpsertSkill(t) ==
    LET old == skills[work[t].org]
    IN  /\ work[t].kind = "upsert"
        /\ \E s \in Slugs, row \in [enabled : BOOLEAN, body : BOOLEAN] :
             WriteRows(t, [r \in DOMAIN old \cup {s} |-> IF r = s THEN row ELSE old[r]])

DeleteSkill(t) ==
    LET old == skills[work[t].org]
    IN  /\ work[t].kind = "delete"
        /\ \E s \in Slugs : WriteRows(t, [r \in DOMAIN old \ {s} |-> old[r]])

\* A thread of the process has read the profile and not stored it yet.
Storing(p, k) == \E t \in Threads : Home[t] = p /\ Key(t) = k /\ work[t].stage["profile"] = "store"

Drops(p, k) ==
    /\ profiles' = [profiles EXCEPT ![p][k] = Unset]
    /\ crossed' = IF Storing(p, k) THEN crossed ELSE crossed \ {<<p, k>>}

\* upsert_personalization_sync.
WriteProfile(t) ==
    LET k == Key(t)
    IN  /\ work[t].at = "write" /\ work[t].kind = "put"
        /\ Change
        /\ profile' = [profile EXCEPT ![k] = @ + 1]
        /\ crossed' = crossed \cup {<<p, k>> : p \in {q \in Homes :
                           Storing(q, k) \/ (q # Home[t] /\ profiles[q][k] # Unset)}}
        /\ work' = [work EXCEPT ![t].at = "invalidate", ![t].wrote = profile'[k]]
        /\ UNCHANGED <<members, ever, skills, saved, caches>>

\* The slug is not one (400), or the call fails (502), before it or after the
\* row was changed: without changing the caches.
WriteFails(t) ==
    /\ work[t].at \in {"write", "invalidate"}
    /\ work' = [work EXCEPT ![t] = Idle]
    /\ UNCHANGED <<tables, caches, ghosts>>

InvalidateSkills(t) ==
    /\ work[t].at = "invalidate" /\ work[t].kind # "put"
    /\ rows' = [rows EXCEPT ![Home[t]][work[t].org] = Unset]
    /\ work' = [work EXCEPT ![t] = Idle]
    /\ UNCHANGED <<tables, orgs, profiles, index, ghosts>>

InvalidateProfile(t) ==
    LET k == Key(t)
    IN  /\ work[t].at = "invalidate" /\ work[t].kind = "put"
        /\ Drops(Home[t], k)
        /\ saved' = [saved EXCEPT ![k] = IF work[t].wrote > @ THEN work[t].wrote ELSE @]
        /\ work' = [work EXCEPT ![t] = Idle]
        /\ UNCHANGED <<tables, orgs, rows, index>>
----------------------------------------------------------------------------
\* Entries age, the ones of profiles only to make room.
Expire(p) ==
    /\ \/ \E u \in Users : orgs' = [orgs EXCEPT ![p][u] = Unset] /\ UNCHANGED <<profiles, rows, crossed>>
       \/ \E k \in Users \X Orgs : Drops(p, k) /\ UNCHANGED <<orgs, rows>>
       \/ \E o \in Orgs : rows' = [rows EXCEPT ![p][o] = Unset] /\ UNCHANGED <<orgs, profiles, crossed>>
    /\ UNCHANGED <<tables, index, work, saved>>

Begin(t, k) == Named(t, k) \/ Unnamed(t, k) \/ AutomationStarts(t, k)
Reads(t, x) == Hit(t, x) \/ Touch(t, x) \/ Miss(t, x) \/ Fetch(t, x) \/ FetchFails(t, x) \/ Store(t, x)
Step(t) ==
    \/ ThenSkills(t) \/ Prepare(t) \/ TurnEnds(t) \/ PageAnswered(t)
    \/ UpsertSkill(t) \/ DeleteSkill(t) \/ WriteProfile(t) \/ WriteFails(t)
    \/ InvalidateSkills(t) \/ InvalidateProfile(t)

Next ==
    /\ UNCHANGED scene
    /\ \/ MembersChange
       \/ \E t \in Threads :
            \/ Step(t)
            \/ \E k \in scene.does[t] : Begin(t, k)
            \/ \E x \in Topics : Reads(t, x)
       \/ \E p \in Homes : Expire(p)
----------------------------------------------------------------------------
\* Every read of a turn brought rows of its own organisation, the profile that
\* of its own user in it, and that organisation is one the user was let into;
\* only the run of an automation is told its organisation (supabase_tenant.py:87).
OwnRows ==
    \A t \in Threads :
        /\ Snippets(t).of = Key(t)
        /\ work[t].got["skills"] # Unset => work[t].got["skills"].of = work[t].org
        /\ work[t].kind \notin {"idle", "automation"} => Key(t) \in ever

\* Turns of several organisations share an index, and the rows may change while
\* a turn runs: still its prompt lists all skills it has, and SkillLoad finds
\* what is listed, unless that is a skill of the organisation without a body
\* (skills.py:287).
ListedLoads ==
    \A t \in Threads : work[t].at = "running" =>
        /\ DOMAIN Bound(t) \subseteq work[t].listed
        /\ \A s \in work[t].listed : LoadSkill(t, s) = "error" => s \in DOMAIN Bound(t)

\* A profile is kept until it is saved again (the default of the cache is no
\* expiry): what a process keeps is then no older than the last save that was
\* answered, unless that was made in another process or while a thread was
\* storing what it had read before (supabase_personalization.py:146).
SavedIsSeen ==
    \A p \in Homes, k \in Users \X Orgs :
        profiles[p][k] # Unset /\ <<p, k>> \notin crossed => profiles[p][k].version >= saved[k]

\* What a turn may rely on of what it knows of its organisation.
ContextIsOwn == OwnRows /\ ListedLoads /\ SavedIsSeen
=============================================================================
