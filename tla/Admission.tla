----------------------------- MODULE Admission -----------------------------
(* Who may start a run and what it is charged: core/rate_limit.py over       *)
(* core/redis_async.py, credits/service.py and credits/store.py over the SQL *)
(* functions of the usage ledger, and what operators change of the credits   *)
(* meanwhile (integrations/supabase_admin.py).                               *)
(*                                                                           *)
(* A request of one caller is served by one process of the API, enters       *)
(* through the rate limiter and the credit check, runs, and is settled when  *)
(* it ends. A run may be posted again under its id.                          *)
EXTENDS Naturals, Sequences, FiniteSetsExt

CONSTANTS Requests,
          Home,          \* [Requests -> the process that serves it]
          Reserve,       \* [Requests -> credit_reserve_for_task_class]
          Costs,         \* what a run may use (compute_credits)
          Limit,         \* credits_limit of a new period
          Grants,        \* what operators may grant
          Limits,        \* the limits they may set
          MaxHits,       \* chat_rate_limit_per_minute; 0 is no limit
          Window,        \* window_seconds
          Month,         \* bound: length of a period of the ledger
          MaxTime,       \* bound on the clock
          MaxPosts,      \* bound on the times a run is posted
          MaxActs        \* bound on what operators do

VARIABLES now,
          pc,          \* [Requests -> where the request is]
          posts,       \* [Requests -> times it was posted]
          client,      \* [processes -> the cached client of redis_async]
          count,       \* [buckets -> the counter in Redis]
          hits,        \* [processes -> times in the deque of _hits]
          entered,     \* what a limit let in: [who, post, at, by]
          suspended,   \* koraku_org_admin_state
          used,        \* [periods -> credits_used]
          limit,       \* [periods -> credits_limit]
          ledger,      \* keys of runs in koraku_usage_ledger
          charged,     \* [periods -> credits of its rows of runs there]
          granted,     \* [periods -> credits of its rows of grants there]
          patching,    \* the period an operator is about to change, if any
          acts,        \* what operators did
          highest,     \* the highest limit there was
          unchecked,   \* requests the credit check let in without a summary
          peak         \* most requests that were let in and not yet ended at once

books == <<used, ledger, charged>>
plan == <<suspended, limit, granted, patching, acts, highest>>
credit == <<books, plan, unchecked, peak>>
vars == <<now, pc, posts, client, count, hits, entered, credit>>

Processes == {Home[r] : r \in Requests}
Bucket(t) == t \div Window
Period(t) == t \div Month
Periods == 0..Period(MaxTime)

\* What the code gives its settings: the limits, grants, reserves of the task
\* classes and the costs of runs are numbers and the costs have a bound; a
\* window and a period are not empty.
Settings ==
    /\ IsFiniteSet(Requests)
    /\ Reserve \in [Requests -> Nat]
    /\ Costs \in SUBSET Nat
    /\ \E n \in Costs : \A c \in Costs : c <= n
    /\ Limit \in Nat /\ Limits \in SUBSET Nat /\ Grants \in SUBSET Nat
    /\ MaxHits \in Nat
    /\ Window \in Nat \ {0} /\ Month \in Nat \ {0}
    /\ MaxTime \in Nat

Init ==
    /\ now = 0
    /\ pc = [r \in Requests |-> "new"]
    /\ posts = [r \in Requests |-> 1]
    /\ client = [p \in Processes |-> "unchecked"]
    /\ count = [b \in 0..Bucket(MaxTime) |-> 0]
    /\ hits = [p \in Processes |-> <<>>]
    /\ entered = {}
    /\ suspended = FALSE
    /\ used = [m \in Periods |-> 0]
    /\ limit = [m \in Periods |-> Limit]
    /\ ledger = {}
    /\ charged = [m \in Periods |-> 0]
    /\ granted = [m \in Periods |-> 0]
    /\ patching = {}
    /\ acts = 0
    /\ highest = Limit
    /\ unchecked = {}
    /\ peak = 0

Go(r, where) == pc' = [pc EXCEPT ![r] = where]
Enters(r, by) == entered' = entered \cup {[who |-> r, post |-> posts[r], at |-> now, by |-> by]}
----------------------------------------------------------------------------
(* enforce_rate_limit.                                                      *)

\* The deque of the process: from its left end hits older than the window go; a
\* full one is 429.
Recent(p) ==
    LET old == Max({0} \cup {i \in DOMAIN hits[p] : \A j \in 1..i : hits[p][j] + Window < now})
    IN  SubSeq(hits[p], old + 1, Len(hits[p]))
EnforceInMemory(r, by) ==
    LET p == Home[r]
    IN  IF Len(Recent(p)) >= MaxHits
        THEN Go(r, "429") /\ hits' = [hits EXCEPT ![p] = Recent(p)] /\ UNCHANGED entered
        ELSE /\ Go(r, "admitted")
             /\ hits' = [hits EXCEPT ![p] = Append(Recent(p), now)]
             /\ Enters(r, by)

NoLimit(r) ==
    /\ pc[r] = "new" /\ MaxHits = 0
    /\ Go(r, "admitted")
    /\ UNCHANGED <<now, posts, client, count, hits, entered, credit>>

\* get_client: the first caller pings; until its answer, and for ever after a
\* failure, the others find no client.
Ping(r) ==
    /\ pc[r] = "new" /\ MaxHits > 0 /\ client[Home[r]] = "unchecked"
    /\ client' = [client EXCEPT ![Home[r]] = "none"]
    /\ Go(r, "pinging")
    /\ UNCHANGED <<now, posts, count, hits, entered, credit>>

Pinged(r) ==
    /\ pc[r] = "pinging"
    /\ client' = [client EXCEPT ![Home[r]] = "ok"]
    /\ Go(r, "counting")
    /\ UNCHANGED <<now, posts, count, hits, entered, credit>>

PingFails(r) ==
    /\ pc[r] = "pinging"
    /\ EnforceInMemory(r, "fallback")
    /\ UNCHANGED <<now, posts, client, count, credit>>

NoClient(r) ==
    /\ pc[r] = "new" /\ MaxHits > 0 /\ client[Home[r]] = "none"
    /\ EnforceInMemory(r, "fallback")
    /\ UNCHANGED <<now, posts, client, count, credit>>

HasClient(r) ==
    /\ pc[r] = "new" /\ MaxHits > 0 /\ client[Home[r]] = "ok"
    /\ Go(r, "counting")
    /\ UNCHANGED <<now, posts, client, count, hits, entered, credit>>

\* INCR. The 429 of a count over the limit is raised inside the try and caught
\* by it, like any failure: the request is counted again in memory.
Count(r) ==
    LET b == Bucket(now)
    IN  /\ pc[r] = "counting"
        /\ count' = [count EXCEPT ![b] = @ + 1]
        /\ IF count'[b] <= MaxHits
           THEN Go(r, "admitted") /\ Enters(r, "redis") /\ UNCHANGED hits
           ELSE EnforceInMemory(r, "caught")
        /\ UNCHANGED <<now, posts, client, credit>>

\* The pipeline fails before or after Redis has counted the request.
CountFails(r) ==
    /\ pc[r] = "counting"
    /\ \E n \in {0, 1} : count' = [count EXCEPT ![Bucket(now)] = @ + n]
    /\ EnforceInMemory(r, "fallback")
    /\ UNCHANGED <<now, posts, client, credit>>
----------------------------------------------------------------------------
(* pre_check_org and settle_run.                                            *)

InFlight == {r \in Requests : pc[r] = "running"}
HasCreditLate(r) == used[Period(now)] <= limit[Period(now)] + Reserve[r]
HasCredit(r) == used[Period(now)] + Reserve[r] <= limit[Period(now)]
Starts(r) == Go(r, "running") /\ peak' = Max({peak, Cardinality(InFlight) + 1})

\* A suspension that cannot be read is none.
ReadSuspension(r) ==
    /\ pc[r] = "admitted"
    /\ Go(r, "checking") \/ (suspended /\ Go(r, "refused"))
    /\ UNCHANGED <<now, posts, client, count, hits, entered, credit>>

CheckPasses(r) ==
    /\ pc[r] = "checking" /\ HasCredit(r)
    /\ Starts(r)
    /\ UNCHANGED <<now, posts, client, count, hits, entered, books, plan, unchecked>>

\* No summary: the check lets the request in.
CheckFailsOpen(r) ==
    /\ pc[r] = "checking"
    /\ Starts(r)
    /\ unchecked' = unchecked \cup {r}
    /\ UNCHANGED <<now, posts, client, count, hits, entered, books, plan>>

CheckRefuses(r) ==
    /\ pc[r] = "checking" /\ ~HasCredit(r)
    /\ Go(r, "refused")
    /\ UNCHANGED <<now, posts, client, count, hits, entered, credit>>

\* The suspension is read again to tell 403 from 402.
Refuse(r) ==
    /\ pc[r] = "refused"
    /\ Go(r, "402") \/ (suspended /\ Go(r, "403"))
    /\ UNCHANGED <<now, posts, client, count, hits, entered, credit>>

\* koraku_credit_settle: one row per key of the organisation, added up in the
\* period in which the run is settled.
Settle(r) ==
    /\ pc[r] = "running"
    /\ \E c \in Costs :
           LET new == c > 0 /\ r \notin ledger
               bill == IF new THEN c ELSE 0
           IN  /\ used' = [used EXCEPT ![Period(now)] = @ + bill]
               /\ charged' = [charged EXCEPT ![Period(now)] = @ + bill]
               /\ ledger' = IF new THEN ledger \cup {r} ELSE ledger
    /\ Go(r, "ended")
    /\ UNCHANGED <<now, posts, client, count, hits, entered, plan, unchecked, peak>>

\* The call fails, or the generator of a client that left never gets to it.
NotSettled(r) ==
    /\ pc[r] = "running"
    /\ Go(r, "ended")
    /\ UNCHANGED <<now, posts, client, count, hits, entered, credit>>

\* The same id again, to resume the run or after its buffer was dropped.
PostAgain(r) ==
    /\ pc[r] = "ended" /\ posts[r] < MaxPosts
    /\ posts' = [posts EXCEPT ![r] = @ + 1]
    /\ Go(r, "new")
    /\ UNCHANGED <<now, client, count, hits, entered, credit>>

Tick ==
    /\ now < MaxTime
    /\ now' = now + 1
    /\ UNCHANGED <<pc, posts, client, count, hits, entered, credit>>

----------------------------------------------------------------------------
(* The operators, in requests of their own.                                 *)

Acts == acts < MaxActs /\ acts' = acts + 1
requests == <<now, pc, posts, client, count, hits, entered, ledger, charged, unchecked, peak>>

\* update_org_admin_state_sync.
SetState ==
    /\ Acts
    /\ suspended' \in BOOLEAN
    /\ UNCHANGED <<requests, used, limit, granted, patching, highest>>

\* koraku_credit_adjust: a grant is taken off what the period has used, which
\* is never negative. Its key is new with every request, so one that is sent
\* again after its answer was lost is granted again.
Grant ==
    /\ Acts
    /\ \E g \in Grants :
         /\ used' = [used EXCEPT ![Period(now)] = Max({0, @ - g})]
         /\ granted' = [granted EXCEPT ![Period(now)] = @ + g]
    /\ UNCHANGED <<requests, suspended, limit, patching, highest>>

\* update_org_period_sync reads which period runs, and changes that one, be it
\* over by then.
ReadPeriod ==
    /\ Acts
    /\ patching = {} /\ patching' = {Period(now)}
    /\ UNCHANGED <<requests, suspended, used, limit, granted, highest>>

PatchPeriod ==
    /\ \E m \in patching, l \in Limits :
         /\ limit' = [limit EXCEPT ![m] = l]
         /\ highest' = Max({highest, l})
    /\ patching' = {}
    /\ UNCHANGED <<requests, suspended, used, granted, acts>>

PatchFails ==
    /\ patching # {} /\ patching' = {}
    /\ UNCHANGED <<requests, suspended, used, limit, granted, acts, highest>>
----------------------------------------------------------------------------
Limiting(r) ==
    NoLimit(r) \/ Ping(r) \/ Pinged(r) \/ PingFails(r) \/ NoClient(r) \/ HasClient(r) \/ Count(r) \/ CountFails(r)
Charging(r) ==
    \/ ReadSuspension(r) \/ CheckPasses(r) \/ CheckFailsOpen(r) \/ CheckRefuses(r) \/ Refuse(r)
    \/ Settle(r) \/ NotSettled(r) \/ PostAgain(r)
Operating == SetState \/ Grant \/ ReadPeriod \/ PatchPeriod \/ PatchFails
Next ==
    \/ Tick \/ Operating
    \/ \E r \in Requests : Limiting(r) \/ Charging(r)

Spec == Init /\ [][Next]_vars
----------------------------------------------------------------------------
\* The limiter as a whole: in one bucket of the clock no more requests are let
\* in than once through Redis and once through the memory of every process
\* (rate_limit.py:122: a request over the limit of Redis is counted again).
Admitted(b) == {e \in entered : Bucket(e.at) = b}
RateBounded ==
    \A b \in DOMAIN count : Cardinality(Admitted(b)) <= MaxHits * (1 + Cardinality(Processes))

\* Nothing is reserved between the check and the bill (store.py:163), so runs
\* in parallel overdraw together: a period ends no further above the highest
\* limit there was than the runs that were in flight at once, or came in
\* unchecked, cost; runs one after the other overdraw by one run, less its
\* reserve.
Dearest == Max(Costs)
Spare == Max({0} \cup {highest - Reserve[r] : r \in {q \in Requests : Reserve[q] <= highest}})
OverdraftBounded ==
    \A m \in DOMAIN used : used[m] <= Spare + Dearest * (peak + Cardinality(unchecked))

\* What a period is said to have used is what its rows in the ledger explain:
\* every bill once, less the grants, as far as there was something to grant
\* (supabase_admin.py:236).
LedgerExplains ==
    \A m \in DOMAIN used : charged[m] <= used[m] + granted[m] /\ used[m] <= charged[m]

\* What admission promises of both its gates and of its books.
AdmissionBounded == RateBounded /\ OverdraftBounded /\ LedgerExplains

\* "Raise 429 when a principal exceeds the configured requests per window"
\* (rate_limit.py:91), as long as no command of Redis has failed.
WindowKept ==
    (\A e \in entered : e.by \in {"redis", "caught"})
        => \A b \in DOMAIN count : Cardinality(Admitted(b)) <= MaxHits
=============================================================================
