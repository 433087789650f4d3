---------------------------- MODULE ChatSession ----------------------------
(* Where a turn gets the conversation from and where it leaves it:           *)
(* core/session_store.py, the hydration of a session from the history of the *)
(* browser or the rows of the thread (supabase_chat_history.py) and the save *)
(* at the end of a turn (chat_routes.py).                                    *)
(*                                                                           *)
(* All turns name the same session. The memory store hands every turn the    *)
(* same object, Redis a copy. A message is <<turn, "q" or "a">>.             *)
EXTENDS Naturals, SequencesExt, FiniteSets

CONSTANTS Scenes         \* bounds: the conversations looked at

(* A scene says which store is used, who owns each turn, whether all turns   *)
(* ask the same, whether the history of the browser is preferred             *)
(* (chat_hydrate_prefer_client_history), whether runs are detached (the      *)
(* browser saves the place of the answer with the question), how many turns  *)
(* run together, how many rows of a thread are read                          *)
(* (chat_history_supabase_limit) and how often the store forgets or a call   *)
(* fails.                                                                    *)
VARIABLES scene,
          next,      \* the turn posted next
          pc,        \* [turns -> where the turn is]
          kept,      \* the session in the store (of an object in memory, which), or NoSession
          heap,      \* [turns -> the session object the turn created or copied]
          mine,      \* [turns -> the turn whose object it works on]
          answered,  \* turns that ended with an answer
          seen,      \* turns whose answer the browser has
          rows,      \* chat_message of the thread
          context,   \* [turns -> the messages before its question, once asked]
          losses,    \* times the store forgot, or a call failed
          calm,      \* no turns overlapped, no call failed, the browser and the rows missed nothing
          shuffled   \* rows were read in another order than they were written in

vars == <<scene, next, pc, kept, heap, mine, answered, seen, rows, context, losses, calm, shuffled>>

Turns == DOMAIN scene.owner
Owner(t) == scene.owner[t]
Memory == scene.store = "memory"
NoSession == [owner |-> "none", msgs |-> <<>>, object |-> 0]
NoContext == <<"none">>

Init ==
    /\ scene \in Scenes
    /\ next = 1
    /\ pc = [t \in Turns |-> "new"]
    /\ kept = NoSession
    /\ heap = [t \in Turns |-> NoSession]
    /\ mine = [t \in Turns |-> t]
    /\ answered = {} /\ seen = {}
    /\ rows = <<>>
    /\ context = [t \in Turns |-> NoContext]
    /\ losses = 0
    /\ calm = TRUE /\ shuffled = FALSE

Go(t, where) == pc' = [pc EXCEPT ![t] = where]
Active == {t \in Turns : pc[t] \notin {"new", "done"}}
Session(t) == heap[mine[t]]
SetMessages(t, msgs) == heap' = [heap EXCEPT ![mine[t]].msgs = msgs]
Fails(outcomes) == /\ outcomes => losses < scene.losses
                   /\ losses' = losses + (IF outcomes THEN 1 ELSE 0)
                   /\ calm' = (calm /\ ~outcomes)
----------------------------------------------------------------------------
(* The browser.                                                             *)

\* The numbers of a set in their order.
InOrder(S) == [k \in 1..Cardinality(S) |-> CHOOSE i \in S : Cardinality({j \in S : j <= i}) = k]

\* The questions of the owner of the thread, the first turn's, up to turn n.
Questions(n) == InOrder({t \in 1..n : Owner(t) = Owner(1)})
Asked == Questions(next - 1)
Pair(t) == IF t \in seen THEN << <<t, "q">>, <<t, "a">> >> ELSE << <<t, "q">> >>
ClientHistory(t) ==
    IF Owner(t) # Owner(1) THEN <<>>
    ELSE FlattenSeq([i \in DOMAIN Questions(t - 1) |-> Pair(Questions(t - 1)[i])])

Post(t) ==
    /\ t = next /\ Cardinality(Active) < scene.together
    /\ next' = next + 1
    /\ Go(t, "posted")
    /\ calm' = (calm /\ Active = {} /\ {u \in answered : Owner(u) = Owner(t)} \subseteq seen)
    /\ UNCHANGED <<scene, kept, heap, mine, answered, seen, rows, context, losses, shuffled>>

ShowsAnswer(t) ==
    /\ t \in answered \ seen
    /\ seen' = seen \cup {t}
    /\ UNCHANGED <<scene, next, pc, kept, heap, mine, answered, rows, context, losses, calm, shuffled>>

\* persistThreadToServer: the whole list; an answer not there yet only while
\* a detached run streams it ("p").
Row(t) == IF t \notin seen /\ scene.detached /\ pc[t] # "done" THEN << <<t, "q">>, <<t, "p">> >> ELSE Pair(t)
Persist ==
    /\ Asked # <<>>
    /\ rows' = FlattenSeq([i \in DOMAIN Asked |-> Row(Asked[i])])
    /\ rows' # rows
    /\ UNCHANGED <<scene, next, pc, kept, heap, mine, answered, seen, context, losses, calm, shuffled>>
----------------------------------------------------------------------------
(* get_or_create.                                                           *)

Fresh(t) == [owner |-> Owner(t), msgs |-> <<>>, object |-> t]
UsableByAll(s, t) == s # NoSession
Usable(s, t) == s # NoSession /\ s.owner = Owner(t)

Stored(t) == IF Memory THEN [Session(t) EXCEPT !.object = mine[t], !.msgs = <<>>] ELSE Session(t)

\* What the store has: an object, in memory, or a copy. Turns do this in
\* threads of their own and nothing locks the store: others come between. A
\* read of Redis that fails finds none.
Look(t, fails) ==
    /\ pc[t] = "posted"
    /\ fails => ~Memory
    /\ IF fails \/ ~Usable(kept, t)
       THEN Go(t, IF fails \/ kept = NoSession THEN "missed" ELSE "foreign") /\ UNCHANGED <<heap, mine>>
       ELSE /\ Go(t, "found")
            /\ IF Memory THEN mine' = [mine EXCEPT ![t] = kept.object] /\ UNCHANGED heap
               ELSE heap' = [heap EXCEPT ![t] = [kept EXCEPT !.object = t]] /\ UNCHANGED mine
    /\ Fails(fails)
    /\ UNCHANGED <<scene, next, kept, answered, seen, rows, context, shuffled>>

\* Another owner's session is deleted, or what is there by now...
Delete(t, fails) ==
    /\ pc[t] = "foreign"
    /\ fails => ~Memory
    /\ kept' = IF fails THEN kept ELSE NoSession
    /\ Fails(fails)
    /\ Go(t, "missed")
    /\ UNCHANGED <<scene, next, heap, mine, answered, seen, rows, context, shuffled>>

\* ... a new one is made, and saved over what is there by now...
Create(t, fails) ==
    /\ pc[t] = "missed"
    /\ fails => ~Memory
    /\ heap' = [heap EXCEPT ![t] = Fresh(t)]
    /\ kept' = IF fails THEN kept ELSE Fresh(t)
    /\ Fails(fails)
    /\ Go(t, "got")
    /\ UNCHANGED <<scene, next, mine, answered, seen, rows, context, shuffled>>

\* ... as one that was found is, touched.
Touch(t, fails) ==
    /\ pc[t] = "found"
    /\ fails => ~Memory
    /\ kept' = IF fails THEN kept ELSE Stored(t)
    /\ Fails(fails)
    /\ Go(t, "got")
    /\ UNCHANGED <<scene, next, heap, mine, answered, seen, rows, context, shuffled>>

\* The TTL, the eviction of the memory store, or a restart.
Forget ==
    /\ kept # NoSession /\ losses < scene.losses
    /\ kept' = NoSession
    /\ losses' = losses + 1
    /\ UNCHANGED <<scene, next, pc, heap, mine, answered, seen, rows, context, calm, shuffled>>
----------------------------------------------------------------------------
(* hydrate_session_messages_from_db.                                        *)

Hydrate(t) ==
    /\ pc[t] = "got"
    /\ IF Session(t).msgs # <<>> THEN Go(t, "ready") /\ UNCHANGED heap
       ELSE IF scene.prefer /\ ClientHistory(t) # <<>>
       THEN Go(t, "ready") /\ SetMessages(t, ClientHistory(t))
       ELSE Go(t, "fetching") /\ UNCHANGED heap
    /\ UNCHANGED <<scene, next, kept, mine, answered, seen, rows, context, losses, calm, shuffled>>

\* Pairs at the end that ask the same and have no answer are the turn's own.
SameText(t, u) == t = u \/ scene.same
OwnPair(t, s, i) ==
    /\ i > 1
    /\ s[i][2] = "p" /\ s[i - 1][2] = "q" /\ SameText(t, s[i - 1][1])
Trim(t, s) ==
    LET even(n) == (Len(s) - n) % 2 = 0
        cuts == {n \in 0..Len(s) : even(n) /\ \A i \in (n + 1)..Len(s) : even(i) => OwnPair(t, s, i)}
    IN  SubSeq(s, 1, CHOOSE n \in cuts : \A k \in cuts : n <= k)
Mapped(s) == LET own == InOrder({i \in DOMAIN s : s[i][2] # "p"}) IN [k \in DOMAIN own |-> s[own[k]]]

\* The rows are read by created_at, which those of one insert share, whatever
\* their order was: any of the orders, and of a long thread any so many rows.
Reordered(s, p) == [i \in DOMAIN s |-> s[p[i]]]
Orders(s) == {order \in {Reordered(s, p) : p \in Permutations(DOMAIN s)} : ToSet(order) = ToSet(s)}
Latest(s) == LET cut == Len(s) - scene.limit IN IF cut \in 1..Len(s) THEN SubSeq(s, cut + 1, Len(s)) ELSE s

\* The rows have arrived: they replace the messages, whatever these are by
\* now; when there are none, or the thread is another user's, the browser's.
Fetched(t, fails) ==
    /\ pc[t] = "fetching"
    /\ fails => losses < scene.losses
    /\ \E order \in Orders(rows) :
          LET found == IF fails \/ Owner(t) # Owner(1) THEN <<>> ELSE Mapped(Trim(t, Latest(order)))
              missing == {u \in answered : Owner(u) = Owner(t) /\ <<u, "a">> \notin ToSet(Latest(order))}
          IN  /\ IF found # <<>> THEN SetMessages(t, found)
                 ELSE IF ClientHistory(t) # <<>> THEN SetMessages(t, ClientHistory(t))
                 ELSE IF fails \/ Owner(t) # Owner(1) THEN UNCHANGED heap
                 ELSE SetMessages(t, <<>>)
              /\ calm' = (calm /\ ~fails /\ (found = <<>> \/ (missing = {} /\ Len(rows) <= scene.limit)))
              /\ shuffled' = (shuffled \/ (found # <<>> /\ order # rows))
    /\ losses' = losses + (IF fails THEN 1 ELSE 0)
    /\ Go(t, "ready")
    /\ UNCHANGED <<scene, next, kept, mine, answered, seen, rows, context>>
----------------------------------------------------------------------------
(* The turn: the question, the answer if there is one, the save.            *)

Ask(t) ==
    /\ pc[t] = "ready"
    /\ context' = [context EXCEPT ![t] = Session(t).msgs]
    /\ SetMessages(t, Append(Session(t).msgs, <<t, "q">>))
    /\ Go(t, "asked")
    /\ UNCHANGED <<scene, next, kept, mine, answered, seen, rows, losses, calm, shuffled>>

Answer(t) ==
    /\ pc[t] = "asked"
    /\ SetMessages(t, Append(Session(t).msgs, <<t, "a">>))
    /\ answered' = answered \cup {t}
    /\ Go(t, "saving")
    /\ UNCHANGED <<scene, next, kept, mine, seen, rows, context, losses, calm, shuffled>>

NoAnswer(t) ==
    /\ pc[t] = "asked"
    /\ Go(t, "saving")
    /\ UNCHANGED <<scene, next, kept, heap, mine, answered, seen, rows, context, losses, calm, shuffled>>

Refers(s, u) == Memory /\ s.object = u
\* session.touch and save of the whole session; a SETEX that fails is logged.
\* (Objects nobody refers to any more and contexts that are over are dropped.)
Save(t, fails) ==
    /\ pc[t] = "saving"
    /\ fails => ~Memory
    /\ kept' = IF fails THEN kept ELSE Stored(t)
    /\ heap' = [u \in Turns |-> IF Refers(kept', u) \/ u \in {mine[v] : v \in Active \ {t}}
                              THEN heap[u] ELSE NoSession]
    /\ context' = [context EXCEPT ![t] = NoContext]
    /\ Fails(fails)
    /\ Go(t, "done")
    /\ UNCHANGED <<scene, next, mine, answered, seen, rows, shuffled>>

Next ==
    \/ Persist \/ Forget
    \/ \E t \in Turns :
           \/ Post(t) \/ ShowsAnswer(t) \/ Hydrate(t)
           \/ Ask(t) \/ Answer(t) \/ NoAnswer(t)
           \/ \E fails \in BOOLEAN :
                  \/ Look(t, fails) \/ Delete(t, fails) \/ Create(t, fails) \/ Touch(t, fails)
                  \/ Fetched(t, fails) \/ Save(t, fails)

Spec == Init /\ [][Next]_vars
----------------------------------------------------------------------------
\* The session a turn works on holds nothing of another owner's turns, though
\* their turns name the same session at the same time, save over each other
\* and replace what the store holds (session_store.py:57).
OwnerIsolated ==
    \A t \in Turns : \A m \in ToSet(Session(t).msgs) : pc[t] # "new" => Owner(m[1]) = Owner(t)

\* While turns follow one another, nothing fails, the browser keeps up and the
\* thread is no longer than what is read of it, a turn is asked after every
\* earlier answer, once, wherever the conversation came from. As long as no
\* rows came in another order than they were written in, the answers come in
\* the order of the turns, each after its question, and the turn's own question
\* is not in there yet -- unless the browser saved the question without the
\* place of its answer (supabase_chat_history.py:47 and persistence.ts:97 agree
\* on pairs only).
Earlier(t) == SelectSeq([i \in 1..(t - 1) |-> i], LAMBDA u : u \in answered /\ Owner(u) = Owner(t))
AnswersOf(s) == SelectSeq(s, LAMBDA m : m[2] = "a")
ContextIsHistory ==
    \A t \in Turns : calm /\ pc[t] = "asked" =>
        LET answers == AnswersOf(context[t])
            earlier == [i \in DOMAIN Earlier(t) |-> <<Earlier(t)[i], "a">>]
        IN  /\ ToSet(answers) = ToSet(earlier) /\ Len(answers) = Len(earlier)
            /\ ~shuffled =>
                  /\ answers = earlier
                  /\ \A i \in DOMAIN context[t] :
                        context[t][i][2] = "a" => i > 1 /\ context[t][i - 1] = <<context[t][i][1], "q">>
                  /\ scene.detached => <<t, "q">> \notin ToSet(context[t])
=============================================================================
