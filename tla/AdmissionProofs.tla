-------------------------- MODULE AdmissionProofs --------------------------
(***************************************************************************)
(* Proofs about Admission for any requests, processes, reserves, limits,   *)
(* windows and periods: what the two counters of the limiter let in in one *)
(* bucket of the clock, how far a period of the ledger ends above its      *)
(* limit, and that what it is said to have used is what the ledger says.   *)
(***************************************************************************)
EXTENDS Admission, Integers, TLAPS, FiniteSetTheorems

(***************************************************************************)
(* The inductive invariant.                                                *)
(***************************************************************************)
Places == {"new", "pinging", "counting", "admitted", "429", "checking", "refused", "402", "403", "running", "ended"}

Types ==
    /\ now \in 0..MaxTime
    /\ pc \in [Requests -> Places]
    /\ count \in [0..Bucket(MaxTime) -> Nat]
    /\ hits \in [Processes -> Seq(Nat)]
    /\ \A e \in entered : e.who \in Requests /\ e.at \in 0..now
    /\ used \in [Periods -> Nat] /\ limit \in [Periods -> Nat]
    /\ charged \in [Periods -> Nat] /\ granted \in [Periods -> Nat]
    /\ patching \in SUBSET Periods /\ highest \in Nat
    /\ ledger \in SUBSET Requests /\ unchecked \in SUBSET Requests
    /\ peak \in Nat

\* What Redis let in in bucket b, and what the memory of process p let in.
ByRedis(b) == {e \in entered : e.by = "redis" /\ Bucket(e.at) = b}
ByMemory(p) == {e \in entered : e.by # "redis" /\ Home[e.who] = p}
Lately(p) == {e \in ByMemory(p) : e.at + Window >= now}
InBucket(p, b) == {e \in ByMemory(p) : Bucket(e.at) = b}

\* Every request the process let in within the last window has a hit of its own
\* in the deque, and in no bucket of the clock were there more than MaxHits.
MemoryInv ==
    \A p \in Processes :
        /\ Len(hits[p]) <= MaxHits
        /\ \E f \in Injection(Lately(p), DOMAIN hits[p]) : \A e \in Lately(p) : hits[p][f[e]] = e.at
        /\ \A b \in Nat : \E f : f \in Injection(InBucket(p, b), 1..MaxHits)

\* Every request Redis let in has a value of the counter of its own.
RedisInv ==
    \A b \in 0..Bucket(MaxTime) :
        \E f : f \in Injection(ByRedis(b), {n \in 1..count[b] : n <= MaxHits})

\* Runs that may still be billed; they were in flight or not checked.
Unbilled == (InFlight \cup unchecked) \ ledger
Ceiling == Spare + Dearest * (peak + Cardinality(unchecked))

\* A period's bill stays below the ceiling also when all that is unbilled is
\* billed to the period that runs.
CreditInv ==
    /\ Cardinality(InFlight) <= peak
    /\ \A m \in Periods :
         /\ m < Period(now) => used[m] <= Ceiling
         /\ m = Period(now) => used[m] + Dearest * Cardinality(Unbilled) <= Ceiling
         /\ m > Period(now) => used[m] = 0

\* No limit is above the highest, and the books agree with the ledger.
BooksInv == (\A m \in Periods : limit[m] <= highest) /\ LedgerExplains

IInv == Types /\ MemoryInv /\ RedisInv /\ CreditInv /\ BooksInv
USE DEF Periods
----------------------------------------------------------------------------
(* Numbers.                                                                 *)

(* A set of numbers with a bound has a greatest member. *)
LEMMA Greatest ==
    ASSUME NEW S \in SUBSET Nat, S # {}, NEW n \in Nat, \A s \in S : s <= n
    PROVE  Max(S) \in S /\ \A s \in S : s <= Max(S)
<1> DEFINE T == {n - s : s \in S}
<1>1. T \subseteq Nat /\ T # {}
  <2>1. \A s \in S : n - s \in Nat
    OBVIOUS
  <2>2. PICK s \in S : TRUE
    OBVIOUS
  <2>3. n - s \in T
    OBVIOUS
  <2> QED
    BY <2>1, <2>3
<1>2. PICK t \in T : \A u \in T : ~ (<<u, t>> \in OpToRel(<, Nat))
  <2> HIDE DEF T
  <2> QED
    BY Zenon, <1>1, NatLessThanWellFounded, WFMin
<1>3. \A u \in T : ~ (u < t)
  BY <1>1, <1>2 DEF OpToRel
<1>4. PICK m \in S : t = n - m
  OBVIOUS
<1>5. \A s \in S : m >= s
  <2> SUFFICES ASSUME NEW s \in S PROVE m >= s
    OBVIOUS
  <2>1. n - s \in T
    OBVIOUS
  <2> HIDE DEF T
  <2>2. ~ (n - s < n - m)
    BY <1>3, <1>4, <2>1
  <2> QED
    BY <2>2
<1>6. Max(S) \in S /\ \A s \in S : Max(S) >= s
  BY <1>5 DEF Max
<1> QED
  BY <1>6

(* Two times of one bucket are less than a window apart. *)
LEMMA SameBucket ==
    ASSUME Settings, NEW s \in Nat, NEW t \in Nat, Bucket(s) = Bucket(t)
    PROVE  s + Window >= t
<1>1. Window \in Nat \ {0}
  BY DEF Settings
<1>2. s = Window * (s \div Window) + (s % Window) /\ s % Window \in 0..(Window - 1)
  BY <1>1
<1>3. t = Window * (t \div Window) + (t % Window) /\ t % Window \in 0..(Window - 1)
  BY <1>1
<1> QED
  BY <1>1, <1>2, <1>3 DEF Bucket

(* Later times are in later buckets and periods. *)
LEMMA DivGrows ==
    ASSUME NEW d \in Nat \ {0}, NEW s \in Nat, NEW t \in Nat, s <= t
    PROVE  s \div d \in Nat /\ t \div d \in Nat /\ s \div d <= t \div d
<1>1. s = d * (s \div d) + (s % d) /\ s % d \in 0..(d - 1) /\ s \div d \in Nat
  OBVIOUS
<1>2. t = d * (t \div d) + (t % d) /\ t % d \in 0..(d - 1) /\ t \div d \in Nat
  OBVIOUS
<1> QED
  BY <1>1, <1>2

(* A product grows with its factor. *)
LEMMA TimesGrows ==
    ASSUME NEW d \in Nat, NEW a \in Nat, NEW b \in Nat, a <= b
    PROVE  d * a \in Nat /\ d * b \in Nat /\ d * a <= d * b
OBVIOUS

(* The clock is in the buckets and periods that are counted. *)
LEMMA ClockInRange ==
    ASSUME Settings, Types
    PROVE  /\ now \in Nat
           /\ Bucket(now) \in 0..Bucket(MaxTime)
           /\ Period(now) \in Periods
<1>1. now \in Nat /\ MaxTime \in Nat /\ now <= MaxTime
  BY DEF Settings, Types
<1>2. /\ now \div Window \in Nat /\ MaxTime \div Window \in Nat /\ now \div Window <= MaxTime \div Window
      /\ now \div Month \in Nat /\ MaxTime \div Month \in Nat /\ now \div Month <= MaxTime \div Month
  BY <1>1, DivGrows DEF Settings
<1> QED
  BY <1>1, <1>2 DEF Bucket, Period, Periods
----------------------------------------------------------------------------
(* The limiter.                                                             *)

(* The deque drops hits from its front, all of them older than the window. *)
LEMMA RecentFacts ==
    ASSUME Settings, Types, NEW p \in Processes
    PROVE  \E k \in 0..Len(hits[p]) :
              /\ Recent(p) \in Seq(Nat) /\ Len(Recent(p)) = Len(hits[p]) - k
              /\ \A i \in 1..(Len(hits[p]) - k) : Recent(p)[i] = hits[p][i + k]
              /\ \A i \in 1..k : hits[p][i] + Window < now
<1> DEFINE S == {0} \cup {i \in DOMAIN hits[p] : \A j \in 1..i : hits[p][j] + Window < now}
           k == Max(S)
<1>1. hits[p] \in Seq(Nat) /\ Len(hits[p]) \in Nat /\ DOMAIN hits[p] = 1..Len(hits[p])
  BY DEF Types
<1>2. k \in S
  <2>1. S \in SUBSET Nat /\ S # {} /\ \A i \in S : i <= Len(hits[p])
    BY <1>1
  <2> HIDE DEF S
  <2> QED
    BY <1>1, <2>1, Greatest
<1>3. k \in 0..Len(hits[p]) /\ \A i \in 1..k : hits[p][i] + Window < now
  <2>1. ASSUME NEW x \in S PROVE x \in 0..Len(hits[p]) /\ \A i \in 1..x : hits[p][i] + Window < now
    <3>1. CASE x = 0
      BY <1>1, <3>1
    <3>2. CASE x # 0
      BY <1>1, <3>2
    <3> QED
      BY <3>1, <3>2
  <2> HIDE DEF k, S
  <2> QED
    BY <1>2, <2>1
<1>4. Recent(p) = SubSeq(hits[p], k + 1, Len(hits[p]))
  BY DEF Recent
<1> HIDE DEF k
<1>5. /\ Recent(p) \in Seq(Nat) /\ Len(Recent(p)) = Len(hits[p]) - k
      /\ \A i \in 1..(Len(hits[p]) - k) : Recent(p)[i] = hits[p][i + k]
  BY <1>1, <1>3, <1>4
<1> QED
  BY <1>3, <1>5

(* The requests of the last window keep their places when the front goes. *)
LEMMA PlacesKept ==
    ASSUME Settings, Types, MemoryInv, NEW p \in Processes
    PROVE  /\ Recent(p) \in Seq(Nat) /\ Len(Recent(p)) <= Len(hits[p])
           /\ \E f \in Injection(Lately(p), DOMAIN Recent(p)) :
                 \A e \in Lately(p) : Recent(p)[f[e]] = e.at
<1>1. PICK k \in 0..Len(hits[p]) :
              /\ Recent(p) \in Seq(Nat) /\ Len(Recent(p)) = Len(hits[p]) - k
              /\ \A i \in 1..(Len(hits[p]) - k) : Recent(p)[i] = hits[p][i + k]
              /\ \A i \in 1..k : hits[p][i] + Window < now
  BY RecentFacts
<1>2. PICK f \in Injection(Lately(p), DOMAIN hits[p]) : \A e \in Lately(p) : hits[p][f[e]] = e.at
  BY DEF MemoryInv
<1>3. /\ f \in [Lately(p) -> DOMAIN hits[p]]
      /\ \A d, e \in Lately(p) : f[d] = f[e] => d = e
  BY <1>2 DEF Injection, IsInjective
<1>4. DOMAIN hits[p] = 1..Len(hits[p]) /\ Len(hits[p]) \in Nat /\ now \in Nat
      /\ DOMAIN Recent(p) = 1..(Len(hits[p]) - k) /\ Window \in Nat
      /\ \A e \in Lately(p) : e.at \in Nat /\ e.at + Window >= now
  BY <1>1 DEF Types, Settings, Lately, ByMemory
<1>5. ASSUME NEW e \in Lately(p) PROVE f[e] \in (k + 1)..Len(hits[p])
  <2>1. f[e] \in 1..Len(hits[p]) /\ hits[p][f[e]] = e.at
    BY <1>2, <1>3, <1>4
  <2>2. ~ (hits[p][f[e]] + Window < now)
    BY <1>4, <2>1
  <2> QED
    BY <1>1, <2>1, <2>2
<1> DEFINE g == [e \in Lately(p) |-> f[e] - k]
<1>6. ASSUME NEW e \in Lately(p) PROVE g[e] \in DOMAIN Recent(p) /\ Recent(p)[g[e]] = e.at /\ g[e] = f[e] - k
  <2>1. PICK n \in (k + 1)..Len(hits[p]) : n = f[e]
    BY <1>5
  <2>2. g[e] = n - k
    BY <2>1
  <2> HIDE DEF g
  <2>3. n - k \in 1..(Len(hits[p]) - k) /\ (n - k) + k = n
    BY <1>4, <2>1
  <2>4. Recent(p)[n - k] = hits[p][(n - k) + k]
    BY <1>1, <2>3
  <2>5. hits[p][n] = e.at
    BY <1>2, <2>1
  <2> QED
    BY <1>4, <2>1, <2>2, <2>3, <2>4, <2>5
<1>7. \A d, e \in Lately(p) : g[d] = g[e] => d = e
  BY <1>3, <1>5, <1>6
<1>8. g \in [Lately(p) -> DOMAIN Recent(p)]
  BY <1>6
<1> HIDE DEF g
<1>9. g \in Injection(Lately(p), DOMAIN Recent(p))
  BY <1>7, <1>8 DEF Injection, IsInjective
<1> QED
  BY <1>1, <1>4, <1>6, <1>9

(* An injection of a set injects its subsets. *)
LEMMA SubInjection ==
    ASSUME NEW S, NEW T, NEW f \in Injection(S, T), NEW A \in SUBSET S, NEW B, T \subseteq B
    PROVE  \E h \in Injection(A, B) : \A e \in A : h[e] = f[e]
<1>1. f \in [S -> T] /\ \A d, e \in S : f[d] = f[e] => d = e
  BY DEF Injection, IsInjective
<1> DEFINE g == [e \in A |-> f[e]]
<1>2. g \in [A -> B]
  BY <1>1
<1>3. \A d, e \in A : g[d] = g[e] => d = e
  BY <1>1
<1> HIDE DEF g
<1>4. g \in Injection(A, B)
  BY <1>2, <1>3 DEF Injection, IsInjective
<1> QED
  BY <1>4 DEF g

(* One more member and one more place. *)
LEMMA MoreInjection ==
    ASSUME NEW S, NEW T, NEW f \in Injection(S, T), NEW x, NEW y, y \notin T
    PROVE  [e \in S \cup {x} |-> IF e = x THEN y ELSE f[e]] \in Injection(S \cup {x}, T \cup {y})
<1>1. f \in [S -> T] /\ \A d, e \in S : f[d] = f[e] => d = e
  BY DEF Injection, IsInjective
<1> DEFINE g == [e \in S \cup {x} |-> IF e = x THEN y ELSE f[e]]
<1>2. g \in [S \cup {x} -> T \cup {y}]
  BY <1>1
<1>3. \A d, e \in S \cup {x} : g[d] = g[e] => d = e
  BY <1>1
<1> HIDE DEF g
<1>4. g \in Injection(S \cup {x}, T \cup {y})
  BY <1>2, <1>3 DEF Injection, IsInjective
<1> QED
  BY <1>4 DEF g

(* A request that is counted in memory. *)
LEMMA MemoryStep ==
    ASSUME Settings, Types, MemoryInv, NEW r \in Requests, NEW by, by # "redis",
           EnforceInMemory(r, by), UNCHANGED now
    PROVE  /\ MemoryInv'
           /\ hits' \in [Processes -> Seq(Nat)] /\ (Go(r, "429") \/ Go(r, "admitted"))
           /\ entered \subseteq entered'
           /\ \A e \in entered' : e \in entered \/ (e.who = r /\ e.at = now /\ e.by = by)
<1> DEFINE p == Home[r]
           new == [who |-> r, post |-> posts[r], at |-> now, by |-> by]
<1>1. /\ p \in Processes /\ now \in Nat /\ MaxHits \in Nat
      /\ hits \in [Processes -> Seq(Nat)]
  BY DEF Processes, Types, Settings
<1>2. /\ Recent(p) \in Seq(Nat) /\ Len(Recent(p)) <= Len(hits[p])
      /\ \E f \in Injection(Lately(p), DOMAIN Recent(p)) :
            \A e \in Lately(p) : Recent(p)[f[e]] = e.at
      /\ Len(hits[p]) <= MaxHits
  BY <1>1, PlacesKept DEF MemoryInv
<1>3. \/ /\ Go(r, "429") /\ hits' = [hits EXCEPT ![p] = Recent(p)] /\ entered' = entered
      \/ /\ Len(Recent(p)) < MaxHits /\ Go(r, "admitted")
         /\ hits' = [hits EXCEPT ![p] = Append(Recent(p), now)]
         /\ entered' = entered \cup {new}
  BY <1>1, <1>2 DEF EnforceInMemory, Enters
<1>4. Go(r, "429") \/ Go(r, "admitted")
  BY <1>3
<1>5. hits' \in [Processes -> Seq(Nat)] /\ \A q \in Processes \ {p} : hits'[q] = hits[q]
  <2>1. Append(Recent(p), now) \in Seq(Nat)
    BY <1>1, <1>2
  <2> QED
    BY <1>1, <1>2, <1>3, <2>1
<1>6. new.who = r /\ new.at = now /\ new.by = by
  OBVIOUS
<1> HIDE DEF new, p
<1>7. entered \subseteq entered' /\ \A e \in entered' : e \in entered \/ e = new
  BY <1>3
<1>8. ASSUME NEW q \in Processes, q # p
      PROVE  ByMemory(q)' = ByMemory(q) /\ Lately(q)' = Lately(q) /\ \A b : InBucket(q, b)' = InBucket(q, b)
  <2>1. ByMemory(q)' = ByMemory(q)
    BY <1>6, <1>7, <1>8 DEF ByMemory, p
  <2> QED
    BY <2>1 DEF Lately, InBucket
<1>9. /\ Len(hits'[p]) <= MaxHits
      /\ \E f \in Injection(Lately(p)', DOMAIN hits'[p]) : \A e \in Lately(p)' : hits'[p][f[e]] = e.at
  <2>1. CASE hits' = [hits EXCEPT ![p] = Recent(p)] /\ entered' = entered
    <3>1. hits'[p] = Recent(p) /\ Lately(p)' = Lately(p)
      BY <1>1, <2>1 DEF Lately, ByMemory
    <3>2. Len(Recent(p)) \in Nat /\ Len(hits[p]) \in Nat
      BY <1>1, <1>2
    <3>3. Len(Recent(p)) <= MaxHits
      BY <1>1, <1>2, <3>2
    <3> QED
      BY <1>2, <3>1, <3>3
  <2>2. CASE /\ Len(Recent(p)) < MaxHits
             /\ hits' = [hits EXCEPT ![p] = Append(Recent(p), now)]
             /\ entered' = entered \cup {new}
    <3> DEFINE n == Len(Recent(p)) + 1
    <3>1. hits'[p] = Append(Recent(p), now)
      BY <1>1, <2>2
    <3>2. /\ Len(Recent(p)) \in Nat /\ DOMAIN Recent(p) = 1..Len(Recent(p)) /\ n \in Nat
          /\ Len(hits'[p]) = n /\ DOMAIN hits'[p] = 1..n
          /\ hits'[p][n] = now /\ \A i \in 1..Len(Recent(p)) : hits'[p][i] = Recent(p)[i]
      BY <1>1, <1>2, <3>1
    <3>3. DOMAIN hits'[p] = DOMAIN Recent(p) \cup {n} /\ n \notin DOMAIN Recent(p)
      BY <3>2
    <3>4. n <= MaxHits
      BY <1>1, <2>2, <3>2
    <3> HIDE DEF n
    <3>5. Lately(p)' = Lately(p) \cup {new}
      <4>1. ByMemory(p)' = ByMemory(p) \cup {new}
        BY <1>6, <2>2 DEF ByMemory, p
      <4>2. new.at + Window >= now
        BY <1>1, <1>6 DEF Settings
      <4> QED
        BY <4>1, <4>2 DEF Lately
    <3>6. PICK f \in Injection(Lately(p), DOMAIN Recent(p)) : \A e \in Lately(p) : Recent(p)[f[e]] = e.at
      BY <1>2
    <3> DEFINE g == [e \in Lately(p) \cup {new} |-> IF e = new THEN n ELSE f[e]]
    <3>7. /\ g \in Injection(Lately(p) \cup {new}, DOMAIN Recent(p) \cup {n})
          /\ g[new] = n /\ \A e \in Lately(p) \ {new} : g[e] = f[e]
      <4>1. g \in Injection(Lately(p) \cup {new}, DOMAIN Recent(p) \cup {n})
        BY <3>3, <3>6, MoreInjection
      <4> QED
        BY <4>1
    <3> HIDE DEF g
    <3>8. ASSUME NEW e \in Lately(p)' PROVE hits'[p][g[e]] = e.at
      <4>1. CASE e = new
        BY <1>6, <3>2, <3>7, <4>1
      <4>2. CASE e # new
        <5>1. e \in Lately(p) /\ g[e] = f[e]
          BY <3>5, <3>7, <4>2
        <5>2. f[e] \in DOMAIN Recent(p)
          BY <5>1 DEF Injection
        <5> QED
          BY <3>2, <3>6, <5>1, <5>2
      <4> QED
        BY <4>1, <4>2
    <3>9. g \in Injection(Lately(p)', DOMAIN hits'[p])
      BY <3>3, <3>5, <3>7
    <3> QED
      BY <3>2, <3>4, <3>8, <3>9
  <2> QED
    BY <1>3, <2>1, <2>2
<1>10. ASSUME NEW b \in Nat PROVE \E g : g \in Injection(InBucket(p, b)', 1..MaxHits)
  <2>1. CASE b = Bucket(now)
    <3>1. PICK f : f \in Injection(Lately(p)', DOMAIN hits'[p])
      BY <1>9
    <3>2. InBucket(p, b)' \in SUBSET Lately(p)'
      <4> SUFFICES ASSUME NEW e \in InBucket(p, b)' PROVE e \in Lately(p)'
        OBVIOUS
      <4>1. e \in ByMemory(p)' /\ e \in entered' /\ Bucket(e.at) = Bucket(now)
        BY <2>1 DEF InBucket, ByMemory
      <4>2. e.at \in Nat
        BY <1>1, <1>6, <1>7, <4>1 DEF Types
      <4>3. e.at + Window >= now
        BY <1>1, <4>1, <4>2, SameBucket
      <4> QED
        BY <4>1, <4>3 DEF Lately
    <3>3. DOMAIN hits'[p] \subseteq 1..MaxHits
      <4>1. hits'[p] \in Seq(Nat)
        BY <1>1, <1>5
      <4>2. DOMAIN hits'[p] = 1..Len(hits'[p]) /\ Len(hits'[p]) \in Nat
        BY <4>1
      <4>3. Len(hits'[p]) <= MaxHits /\ MaxHits \in Nat
        BY <1>1, <1>9
      <4> QED
        BY <4>2, <4>3
    <3>4. PICK A : A = InBucket(p, b)'
      OBVIOUS
    <3>5. A \in SUBSET Lately(p)'
      BY <3>2, <3>4
    <3>6. \E g : g \in Injection(A, 1..MaxHits)
      BY <3>1, <3>3, <3>5, SubInjection
    <3> QED
      BY <3>4, <3>6
  <2>2. CASE b # Bucket(now)
    <3>1. InBucket(p, b)' = InBucket(p, b)
      BY <1>6, <1>7, <2>2 DEF InBucket, ByMemory
    <3> QED
      BY <1>1, <3>1 DEF MemoryInv
  <2> QED
    BY <2>1, <2>2
<1>11. MemoryInv'
  <2> SUFFICES ASSUME NEW q \in Processes
               PROVE  /\ Len(hits'[q]) <= MaxHits
                      /\ \E f \in Injection(Lately(q)', DOMAIN hits'[q]) : \A e \in Lately(q)' : hits'[q][f[e]] = e.at
                      /\ \A b \in Nat : \E f : f \in Injection(InBucket(q, b)', 1..MaxHits)
    BY DEF MemoryInv
  <2>1. CASE q = p
    BY <1>9, <1>10, <2>1
  <2>2. CASE q # p
    <3>1. hits'[q] = hits[q] /\ Lately(q)' = Lately(q) /\ \A b : InBucket(q, b)' = InBucket(q, b)
      BY <1>5, <1>8, <2>2
    <3>2. /\ Len(hits[q]) <= MaxHits
          /\ \E f \in Injection(Lately(q), DOMAIN hits[q]) : \A e \in Lately(q) : hits[q][f[e]] = e.at
          /\ \A b \in Nat : \E f : f \in Injection(InBucket(q, b), 1..MaxHits)
      BY DEF MemoryInv
    <3> QED
      BY Zenon, <3>1, <3>2
  <2> QED
    BY <2>1, <2>2
<1> QED
  BY <1>4, <1>5, <1>6, <1>7, <1>11

(* Counters that only grow, and no request let in by them. *)
LEMMA RedisKept ==
    ASSUME Types, RedisInv, entered \subseteq entered',
           \A e \in entered' : e \in entered \/ e.by # "redis",
           count' \in [0..Bucket(MaxTime) -> Nat],
           \A b \in 0..Bucket(MaxTime) : count'[b] >= count[b]
    PROVE  RedisInv'
<1> SUFFICES ASSUME NEW b \in 0..Bucket(MaxTime)
             PROVE  \E f : f \in Injection(ByRedis(b)', {n \in 1..count'[b] : n <= MaxHits})
  BY DEF RedisInv
<1>1. ByRedis(b)' = ByRedis(b)
  BY DEF ByRedis
<1>2. PICK f : f \in Injection(ByRedis(b), {n \in 1..count[b] : n <= MaxHits})
  BY DEF RedisInv
<1>3. count[b] \in Nat /\ count'[b] \in Nat /\ count'[b] >= count[b]
  BY DEF Types
<1>4. {n \in 1..count[b] : n <= MaxHits} \subseteq {n \in 1..count'[b] : n <= MaxHits}
  BY <1>3
<1> QED
  BY <1>1, <1>2, <1>4, SubInjection

(* A request that Redis lets in has the value INCR gave it. *)
LEMMA RedisStep ==
    ASSUME Settings, Types, RedisInv, NEW r \in Requests, UNCHANGED now,
           count' = [count EXCEPT ![Bucket(now)] = @ + 1], count'[Bucket(now)] <= MaxHits,
           Enters(r, "redis")
    PROVE  RedisInv'
<1> DEFINE new == [who |-> r, post |-> posts[r], at |-> now, by |-> "redis"]
           m == count[Bucket(now)] + 1
<1>1. Bucket(now) \in 0..Bucket(MaxTime) /\ count \in [0..Bucket(MaxTime) -> Nat] /\ now \in Nat
  BY ClockInRange DEF Types
<1>2. entered' = entered \cup {new} /\ new.by = "redis" /\ new.at = now
  BY DEF Enters
<1>3. count'[Bucket(now)] = m /\ m \in Nat /\ m <= MaxHits /\ count[Bucket(now)] \in Nat
  BY <1>1
<1> HIDE DEF new
<1> SUFFICES ASSUME NEW b \in 0..Bucket(MaxTime)
             PROVE  \E f : f \in Injection(ByRedis(b)', {n \in 1..count'[b] : n <= MaxHits})
  BY DEF RedisInv
<1>4. PICK f : f \in Injection(ByRedis(b), {n \in 1..count[b] : n <= MaxHits})
  BY DEF RedisInv
<1>5. CASE b = Bucket(now)
  <2>1. ByRedis(b)' = ByRedis(b) \cup {new}
    BY <1>2, <1>5 DEF ByRedis
  <2>2. {n \in 1..count'[b] : n <= MaxHits} = {n \in 1..count[b] : n <= MaxHits} \cup {m}
    BY <1>3, <1>5
  <2>3. m \notin {n \in 1..count[b] : n <= MaxHits}
    BY <1>3, <1>5
  <2> HIDE DEF m
  <2> DEFINE g == [e \in ByRedis(b) \cup {new} |-> IF e = new THEN m ELSE f[e]]
  <2>4. g \in Injection(ByRedis(b) \cup {new}, {n \in 1..count[b] : n <= MaxHits} \cup {m})
    BY <1>4, <2>3, MoreInjection
  <2> QED
    BY <2>1, <2>2, <2>4
<1>6. CASE b # Bucket(now)
  <2>1. ByRedis(b)' = ByRedis(b)
    BY <1>2, <1>6 DEF ByRedis
  <2>2. count'[b] = count[b]
    BY <1>1, <1>6
  <2> QED
    BY <1>4, <2>1, <2>2
<1> QED
  BY <1>5, <1>6

(* Steps the limiter does not see. *)
LEMMA LimiterKept ==
    ASSUME MemoryInv, RedisInv, UNCHANGED <<now, count, hits, entered>>
    PROVE  MemoryInv' /\ RedisInv'
<1>1. ASSUME NEW p PROVE Lately(p)' = Lately(p) /\ \A b : InBucket(p, b)' = InBucket(p, b)
  BY DEF Lately, InBucket, ByMemory
<1>2. ASSUME NEW b PROVE ByRedis(b)' = ByRedis(b)
  BY DEF ByRedis
<1>3. MemoryInv'
  <2> SUFFICES ASSUME NEW q \in Processes
               PROVE  /\ Len(hits'[q]) <= MaxHits
                      /\ \E f \in Injection(Lately(q)', DOMAIN hits'[q]) : \A e \in Lately(q)' : hits'[q][f[e]] = e.at
                      /\ \A b \in Nat : \E f : f \in Injection(InBucket(q, b)', 1..MaxHits)
    BY DEF MemoryInv
  <2>1. hits'[q] = hits[q] /\ Lately(q)' = Lately(q) /\ \A b : InBucket(q, b)' = InBucket(q, b)
    BY <1>1
  <2>2. /\ Len(hits[q]) <= MaxHits
        /\ \E f \in Injection(Lately(q), DOMAIN hits[q]) : \A e \in Lately(q) : hits[q][f[e]] = e.at
        /\ \A b \in Nat : \E f : f \in Injection(InBucket(q, b), 1..MaxHits)
    BY DEF MemoryInv
  <2> QED
    BY Zenon, <2>1, <2>2
<1>4. RedisInv'
  BY <1>2 DEF RedisInv
<1> QED
  BY <1>3, <1>4

(* A limiting step starts and ends no run. *)
LEMMA CreditKept ==
    ASSUME CreditInv, NEW r \in Requests, Types, NEW w, w # "running", pc[r] # "running", Go(r, w),
           UNCHANGED <<now, credit>>
    PROVE  CreditInv' /\ (BooksInv => BooksInv')
<1>1. InFlight' = InFlight
  BY DEF InFlight, Go, Types
<1>2. UNCHANGED <<now, used, ledger, charged, limit, granted, highest, unchecked, peak>>
  BY DEF credit, books, plan
<1>3. Unbilled' = Unbilled /\ Ceiling' = Ceiling
  BY <1>1, <1>2 DEF Unbilled, Ceiling, Spare
<1> QED
  BY <1>1, <1>2, <1>3 DEF CreditInv, BooksInv, LedgerExplains

LEMMA LimitingStep ==
    ASSUME Settings, IInv, NEW r \in Requests, Limiting(r)
    PROVE  IInv'
<1>1. /\ now \in Nat /\ Bucket(now) \in 0..Bucket(MaxTime)
      /\ Types /\ MemoryInv /\ RedisInv /\ CreditInv /\ BooksInv
      /\ count \in [0..Bucket(MaxTime) -> Nat]
  BY ClockInRange DEF IInv, Types
<1>2. UNCHANGED <<now, credit>> /\ pc[r] # "running"
  BY DEF Limiting, NoLimit, Ping, Pinged, PingFails, NoClient, HasClient, Count, CountFails
<1>3. CASE NoLimit(r) \/ Ping(r) \/ Pinged(r) \/ HasClient(r)
  <2>1. PICK w \in {"admitted", "pinging", "counting"} : Go(r, w)
    BY <1>3 DEF NoLimit, Ping, Pinged, HasClient
  <2>2. UNCHANGED <<count, hits, entered>>
    BY <1>3 DEF NoLimit, Ping, Pinged, HasClient
  <2>3. Types'
    BY <1>1, <1>2, <2>1, <2>2 DEF Types, Go, Places, credit, books, plan
  <2>4. MemoryInv' /\ RedisInv'
    BY <1>1, <1>2, <2>2, LimiterKept
  <2>5. CreditInv' /\ BooksInv'
    BY <1>1, <1>2, <2>1, CreditKept
  <2> QED
    BY <2>3, <2>4, <2>5 DEF IInv
<1>4. ASSUME NEW by, by # "redis", EnforceInMemory(r, by),
             count' \in [0..Bucket(MaxTime) -> Nat],
             \A b \in 0..Bucket(MaxTime) : count'[b] >= count[b]
      PROVE  IInv'
  <2>1. /\ MemoryInv' /\ hits' \in [Processes -> Seq(Nat)]
        /\ (Go(r, "429") \/ Go(r, "admitted"))
        /\ entered \subseteq entered'
        /\ \A e \in entered' : e \in entered \/ (e.who = r /\ e.at = now /\ e.by = by)
    BY <1>1, <1>2, <1>4, MemoryStep
  <2>2. RedisInv'
    BY <1>1, <1>4, <2>1, RedisKept
  <2>3. CreditInv' /\ BooksInv'
    BY <1>1, <1>2, <2>1, CreditKept
  <2>4. Types'
    <3>1. pc' \in [Requests -> Places]
      BY <1>1, <2>1 DEF Types, Go, Places
    <3>2. \A e \in entered' : e.who \in Requests /\ e.at \in 0..now'
      BY <1>1, <1>2, <2>1 DEF Types
    <3> QED
      BY <1>1, <1>2, <1>4, <2>1, <3>1, <3>2 DEF Types, credit, books, plan
  <2> QED
    BY <2>1, <2>2, <2>3, <2>4 DEF IInv
<1>5. CASE PingFails(r) \/ NoClient(r)
  <2>1. EnforceInMemory(r, "fallback") /\ count' = count
    BY <1>5 DEF PingFails, NoClient
  <2>2. \A b \in 0..Bucket(MaxTime) : count'[b] >= count[b]
    BY <1>1, <2>1
  <2> QED
    BY <1>1, <1>4, <2>1, <2>2
<1>6. CASE CountFails(r)
  <2>1. PICK n \in {0, 1} : count' = [count EXCEPT ![Bucket(now)] = @ + n]
    BY <1>6 DEF CountFails
  <2>2. count' \in [0..Bucket(MaxTime) -> Nat] /\ \A b \in 0..Bucket(MaxTime) : count'[b] >= count[b]
    BY <1>1, <2>1
  <2>3. EnforceInMemory(r, "fallback")
    BY <1>6 DEF CountFails
  <2> QED
    BY <1>4, <2>2, <2>3
<1>7. CASE Count(r)
  <2>1. count' = [count EXCEPT ![Bucket(now)] = @ + 1]
    BY <1>7 DEF Count
  <2>2. count' \in [0..Bucket(MaxTime) -> Nat] /\ \A b \in 0..Bucket(MaxTime) : count'[b] >= count[b]
    BY <1>1, <2>1
  <2>3. CASE count'[Bucket(now)] <= MaxHits
    <3>1. Go(r, "admitted") /\ Enters(r, "redis") /\ UNCHANGED hits
      BY <1>7, <2>3 DEF Count
    <3>2. RedisInv'
      BY <1>1, <1>2, <2>1, <2>3, <3>1, RedisStep
    <3>3. \A e \in entered' : e \in entered \/ (e.who = r /\ e.at = now /\ e.by = "redis")
      BY <3>1 DEF Enters
    <3>4. entered \subseteq entered'
      BY <3>1 DEF Enters
    <3>5. \A p \in Processes : ByMemory(p)' = ByMemory(p)
      BY <3>3, <3>4 DEF ByMemory
    <3>6. MemoryInv'
      <4>1. /\ MemoryInv /\ now' = now /\ hits' = hits
            /\ \A p \in Processes : ByMemory(p)' = ByMemory(p)
        BY <1>1, <1>2, <3>1, <3>5
      <4>2. \A p \in Processes : Lately(p)' = Lately(p)
        BY <4>1 DEF Lately
      <4>3. \A p \in Processes, b \in Nat : InBucket(p, b)' = InBucket(p, b)
        BY <4>1 DEF InBucket
      <4> QED
        BY <4>1, <4>2, <4>3 DEF MemoryInv
    <3>7. Types'
      <4>1. pc' \in [Requests -> Places]
        BY <1>1, <3>1 DEF Types, Go, Places
      <4>2. \A e \in entered' : e.who \in Requests /\ e.at \in 0..now'
        BY <1>1, <1>2, <3>3 DEF Types
      <4> QED
        BY <1>1, <1>2, <2>2, <3>1, <4>1, <4>2 DEF Types, credit, books, plan
    <3>8. CreditInv' /\ BooksInv'
      BY <1>1, <1>2, <3>1, CreditKept
    <3> QED
      BY <3>2, <3>6, <3>7, <3>8 DEF IInv
  <2>4. CASE ~(count'[Bucket(now)] <= MaxHits)
    <3>1. EnforceInMemory(r, "caught")
      BY <1>7, <2>4 DEF Count
    <3> QED
      BY <1>4, <2>2, <3>1
  <2> QED
    BY <2>3, <2>4
<1> QED
  BY <1>3, <1>5, <1>6, <1>7 DEF Limiting
----------------------------------------------------------------------------
(* The credits.                                                             *)

LEMMA MaxOfTwo ==
    ASSUME NEW a \in Nat, NEW b \in Nat
    PROVE  Max({a, b}) \in Nat /\ Max({a, b}) >= a /\ Max({a, b}) >= b
<1>1. {a, b} \in SUBSET Nat /\ {a, b} # {} /\ a + b \in Nat /\ \A s \in {a, b} : s <= a + b
  OBVIOUS
<1>2. Max({a, b}) \in {a, b} /\ \A s \in {a, b} : s <= Max({a, b})
  BY <1>1, Greatest
<1> QED
  BY <1>2

(* What is spare below a limit, which grows with it. *)
SpareAt(h) == Max({0} \cup {h - Reserve[r] : r \in {q \in Requests : Reserve[q] <= h}})

LEMMA SpareFacts ==
    ASSUME Settings, NEW h \in Nat
    PROVE  /\ SpareAt(h) \in Nat
           /\ \A r \in Requests : \A u \in Nat : u + Reserve[r] <= h => u <= SpareAt(h)
           /\ SpareAt(h) = 0 \/ \E r \in Requests : SpareAt(h) + Reserve[r] = h
<1> DEFINE S == {0} \cup {h - Reserve[r] : r \in {q \in Requests : Reserve[q] <= h}}
<1>1. \A r \in Requests : Reserve[r] \in Nat
  BY DEF Settings
<1>2. S \in SUBSET Nat /\ S # {} /\ \A s \in S : s <= h
  BY <1>1
<1>3. \A r \in Requests : Reserve[r] <= h => h - Reserve[r] \in S
  OBVIOUS
<1>4. \A s \in S : s = 0 \/ \E r \in Requests : s + Reserve[r] = h
  BY <1>1
<1>5. SpareAt(h) = Max(S)
  BY DEF SpareAt
<1> HIDE DEF S
<1>6. SpareAt(h) \in S /\ \A s \in S : s <= SpareAt(h)
  BY <1>2, <1>5, Greatest
<1>7. ASSUME NEW r \in Requests, NEW u \in Nat, u + Reserve[r] <= h PROVE u <= SpareAt(h)
  <2>1. Reserve[r] \in Nat /\ Reserve[r] <= h
    BY <1>1, <1>7
  <2>2. h - Reserve[r] <= SpareAt(h) /\ SpareAt(h) \in Nat
    BY <1>2, <1>3, <1>6, <2>1
  <2> QED
    BY <1>7, <2>1, <2>2
<1> QED
  BY <1>2, <1>4, <1>6, <1>7

LEMMA SpareGrows ==
    ASSUME Settings, NEW h \in Nat, NEW k \in Nat, h <= k
    PROVE  SpareAt(h) <= SpareAt(k)
<1>1. SpareAt(h) \in Nat /\ SpareAt(k) \in Nat
  BY SpareFacts
<1>2. CASE SpareAt(h) = 0
  BY <1>1, <1>2
<1>3. ASSUME NEW r \in Requests, SpareAt(h) + Reserve[r] = h PROVE SpareAt(h) <= SpareAt(k)
  <2>1. SpareAt(h) + Reserve[r] <= k
    BY <1>3
  <2> QED
    BY <1>1, <2>1, SpareFacts
<1> QED
  BY <1>2, <1>3, SpareFacts

(* No run costs more than the dearest; one that passed the check found no more  *)
(* used than was spare.                                                     *)
LEMMA Prices ==
    ASSUME Settings, highest \in Nat
    PROVE  /\ Dearest \in Nat /\ \A c \in Costs : c <= Dearest
           /\ Spare \in Nat
           /\ \A r \in Requests : \A u \in Nat : u + Reserve[r] <= highest => u <= Spare
<1>1. Dearest \in Nat /\ \A c \in Costs : c <= Dearest
  <2>1. PICK n \in Nat : \A c \in Costs : c <= n
    BY DEF Settings
  <2> QED
    BY <2>1, Greatest DEF Dearest, Settings
<1>2. Spare = SpareAt(highest)
  BY DEF Spare, SpareAt
<1> QED
  BY <1>1, <1>2, SpareFacts

(* Sets of requests are finite; two together are no larger than both. *)
LEMMA Sizes ==
    ASSUME Settings, NEW X \in SUBSET Requests, NEW Y \in SUBSET Requests
    PROVE  /\ IsFiniteSet(X) /\ Cardinality(X) \in Nat
           /\ X \subseteq Y => Cardinality(X) <= Cardinality(Y)
           /\ Cardinality(X \cup Y) <= Cardinality(X) + Cardinality(Y)
           /\ \A r \in Requests :
                /\ r \notin X => Cardinality(X \cup {r}) = Cardinality(X) + 1
                /\ r \in X => Cardinality(X \ {r}) = Cardinality(X) - 1
<1>1. IsFiniteSet(Requests)
  BY DEF Settings
<1>2. IsFiniteSet(X) /\ IsFiniteSet(Y)
  BY <1>1, FS_Subset
<1>3. Cardinality(X) \in Nat /\ Cardinality(Y) \in Nat
  BY <1>2, FS_CardinalityType
<1>4. X \subseteq Y => Cardinality(X) <= Cardinality(Y)
  BY <1>2, FS_Subset
<1>5. Cardinality(X \cup Y) <= Cardinality(X) + Cardinality(Y)
  <2>1. Cardinality(X \cup Y) = Cardinality(X) + Cardinality(Y) - Cardinality(X \cap Y)
    BY <1>2, FS_Union
  <2>2. Cardinality(X \cap Y) \in Nat
    BY <1>2, FS_Intersection, FS_CardinalityType
  <2> QED
    BY <1>3, <2>1, <2>2
<1>6. ASSUME NEW r \in Requests
      PROVE  /\ r \notin X => Cardinality(X \cup {r}) = Cardinality(X) + 1
             /\ r \in X => Cardinality(X \ {r}) = Cardinality(X) - 1
  <2>1. Cardinality(X \cup {r}) = IF r \in X THEN Cardinality(X) ELSE Cardinality(X) + 1
    BY Zenon, <1>2, FS_AddElement
  <2>2. Cardinality(X \ {r}) = IF r \in X THEN Cardinality(X) - 1 ELSE Cardinality(X)
    BY Zenon, <1>2, FS_RemoveElement
  <2> QED
    BY <2>1, <2>2
<1> QED
  BY <1>2, <1>3, <1>4, <1>5, <1>6

(* What the steps of the credits have in common. *)
LEMMA CreditStep ==
    ASSUME Settings, Types, CreditInv, Types', UNCHANGED <<now, highest>>,
           \A m \in Periods : m # Period(now) => used'[m] = used[m],
           peak' >= peak, unchecked \subseteq unchecked',
           Cardinality(InFlight') <= peak',
           used'[Period(now)] + Dearest * Cardinality(Unbilled') <= Ceiling'
    PROVE  CreditInv'
<1>1. /\ peak \in Nat /\ peak' \in Nat /\ Dearest \in Nat /\ Spare \in Nat
      /\ Cardinality(unchecked) \in Nat /\ Cardinality(unchecked') \in Nat
      /\ Cardinality(unchecked) <= Cardinality(unchecked')
  BY Prices, Sizes DEF Types
<1>2. Ceiling <= Ceiling' /\ Ceiling \in Nat /\ Ceiling' \in Nat
  <2>1. Dearest * (peak + Cardinality(unchecked)) <= Dearest * (peak' + Cardinality(unchecked'))
    BY <1>1, TimesGrows
  <2>2. Spare' = Spare
    BY DEF Spare
  <2> QED
    BY <1>1, <2>1, <2>2 DEF Ceiling
<1>3. ASSUME NEW m \in Periods
      PROVE  /\ m < Period(now) => used'[m] <= Ceiling'
             /\ m = Period(now) => used'[m] + Dearest * Cardinality(Unbilled') <= Ceiling'
             /\ m > Period(now) => used'[m] = 0
  <2>1. CASE m = Period(now)
    <3>1. Period(now) \in Nat
      BY ClockInRange
    <3> QED
      BY <2>1, <3>1
  <2>2. CASE m # Period(now)
    <3>1. used[m] \in Nat /\ used'[m] = used[m]
      BY <2>2 DEF Types
    <3>2. (m < Period(now) => used[m] <= Ceiling) /\ (m > Period(now) => used[m] = 0)
      BY DEF CreditInv
    <3> QED
      BY <1>2, <2>2, <3>1, <3>2
  <2> QED
    BY <2>1, <2>2
<1> QED
  BY <1>3 DEF CreditInv

(* A run starts: what was used left room for it, or it was not checked. *)
LEMMA StartStep ==
    ASSUME Settings, IInv, NEW r \in Requests, CheckPasses(r) \/ CheckFailsOpen(r)
    PROVE  IInv'
<1> DEFINE P == Period(now)
           a == Cardinality(InFlight)
           z == Cardinality(unchecked)
           u == Cardinality(Unbilled)
<1>1. /\ Types /\ MemoryInv /\ RedisInv /\ CreditInv
      /\ pc \in [Requests -> Places] /\ pc[r] = "checking" /\ pc' = [pc EXCEPT ![r] = "running"]
      /\ peak' = Max({peak, a + 1}) /\ peak \in Nat
      /\ InFlight \in SUBSET Requests /\ unchecked \in SUBSET Requests /\ Unbilled \in SUBSET Requests
      /\ highest \in Nat /\ BooksInv
      /\ UNCHANGED <<now, posts, client, count, hits, entered, books, plan>>
  BY DEF IInv, Types, CheckPasses, CheckFailsOpen, Starts, Go, InFlight, Unbilled
<1>same. UNCHANGED <<used, ledger, charged, suspended, limit, granted, patching, acts, highest>>
  BY <1>1 DEF books, plan
<1>books. BooksInv'
  BY <1>1, <1>same DEF BooksInv, LedgerExplains
<1>2. /\ a \in Nat /\ z \in Nat /\ u \in Nat /\ Dearest \in Nat /\ Spare \in Nat
      /\ peak \in Nat /\ P \in Periods
  BY <1>1, Sizes, Prices, ClockInRange
<1>3. InFlight' = InFlight \cup {r} /\ r \notin InFlight /\ InFlight' \in SUBSET Requests
  BY <1>1 DEF InFlight
<1>4. Cardinality(InFlight') = a + 1
  BY <1>1, <1>3, Sizes
<1>5. peak' \in Nat /\ peak' >= peak /\ peak' >= a + 1
  BY <1>1, <1>2, MaxOfTwo
<1>6. unchecked' \in SUBSET Requests /\ unchecked \subseteq unchecked'
  BY <1>1 DEF CheckPasses, CheckFailsOpen
<1>7. Types'
  BY <1>1, <1>5, <1>6, <1>same DEF Types, Places
<1>8. used[P] \in Nat /\ used'[P] = used[P] /\ used[P] + Dearest * u <= Ceiling /\ Spare' = Spare
  BY <1>1, <1>2, <1>same DEF Types, CreditInv, Spare
<1>top. PICK top : top = peak'
  OBVIOUS
<1>z1. PICK z1 : z1 = Cardinality(unchecked')
  OBVIOUS
<1>u1. PICK u1 : u1 = Cardinality(Unbilled')
  OBVIOUS
<1>9. /\ Unbilled' \in SUBSET Requests /\ z1 \in Nat /\ u1 \in Nat
      /\ top \in Nat /\ top >= peak /\ top >= a + 1
  <2>1. Unbilled' \in SUBSET Requests
    BY <1>3, <1>6 DEF Unbilled
  <2> QED
    BY <1>5, <1>6, <1>top, <1>z1, <1>u1, <2>1, Sizes
<1> HIDE DEF a, z, u
<1>10. CASE CheckPasses(r)
  <2>1. used[P] <= Spare
    <3>1. used[P] + Reserve[r] <= limit[P] /\ limit[P] <= highest
      BY <1>1, <1>2, <1>10 DEF CheckPasses, HasCredit, BooksInv
    <3>2. limit[P] \in Nat /\ Reserve[r] \in Nat
      BY <1>1, <1>2 DEF Types, Settings
    <3>3. used[P] + Reserve[r] <= highest
      BY <1>1, <1>8, <3>1, <3>2
    <3> QED
      BY <1>1, <1>8, <3>3, Prices
  <2>2. u1 <= top + z1
    <3>1. Unbilled' \subseteq InFlight' \cup unchecked'
      BY DEF Unbilled
    <3>2. InFlight' \cup unchecked' \in SUBSET Requests
      BY <1>3, <1>6
    <3>3. u1 <= Cardinality(InFlight' \cup unchecked')
      BY <1>9, <3>1, <3>2, <1>u1, Sizes
    <3>4. Cardinality(InFlight' \cup unchecked') <= Cardinality(InFlight') + z1
      BY <1>3, <1>6, <1>z1, Sizes
    <3>5. Cardinality(InFlight' \cup unchecked') \in Nat
      BY <3>2, Sizes
    <3>6. PICK n \in Nat : n = Cardinality(InFlight' \cup unchecked')
      BY <3>5
    <3>7. u1 <= n /\ n <= (a + 1) + z1
      BY <1>4, <3>3, <3>4, <3>6
    <3>8. z1 \in Nat /\ u1 \in Nat
      BY <1>9
    <3> QED
      BY <1>2, <1>9, <3>7, <3>8
  <2>3. Dearest * u1 \in Nat /\ Dearest * u1 <= Dearest * (top + z1)
    <3>1. z1 \in Nat /\ u1 \in Nat /\ top \in Nat /\ Dearest \in Nat
      BY <1>2, <1>5, <1>9
    <3>2. top + z1 \in Nat
      BY <3>1
    <3> QED
      BY <2>2, <3>1, <3>2, TimesGrows
  <2>4. used[P] + Dearest * u1 <= Spare + Dearest * (top + z1)
    <3>1. Dearest * (top + z1) \in Nat
      <4>1. z1 \in Nat /\ top \in Nat /\ Dearest \in Nat
        BY <1>2, <1>5, <1>9
      <4> QED
        BY <4>1
    <3> QED
      BY <1>2, <1>8, <2>1, <2>3, <3>1
  <2>5. Ceiling' = Spare + Dearest * (top + z1)
    BY <1>8, <1>top, <1>z1 DEF Ceiling
  <2> QED
    BY <1>1, <1>4, <1>5, <1>6, <1>7, <1>8, <2>4, <2>5, <1>u1, <1>same, <1>books, CreditStep, LimiterKept DEF IInv
<1>11. CASE CheckFailsOpen(r)
  <2>1. unchecked' = unchecked \cup {r}
    BY <1>11 DEF CheckFailsOpen
  <2>2. PICK d \in {0, 1} : z1 = z + d /\ u1 <= u + d
    <3>1. CASE r \in unchecked
      <4>1. unchecked' = unchecked /\ Unbilled' = Unbilled
        BY <1>1, <1>3, <1>same, <2>1, <3>1 DEF Unbilled
      <4>2. z1 = z + 0 /\ u1 <= u + 0
        BY <1>2, <1>z1, <1>u1, <4>1 DEF z, u
      <4> QED
        BY <4>2
    <3>2. CASE r \notin unchecked
      <4>1. z1 = z + 1
        BY <1>1, <2>1, <3>2, <1>z1, Sizes DEF z
      <4>2. Unbilled' \subseteq Unbilled \cup {r}
        BY <1>1, <1>3, <1>same, <2>1 DEF Unbilled
      <4>3. Unbilled \cup {r} \in SUBSET Requests
        BY <1>1
      <4>4. u1 <= Cardinality(Unbilled \cup {r})
        BY <1>9, <4>2, <4>3, <1>u1, Sizes
      <4>5. Cardinality(Unbilled \cup {r}) <= u + 1
        <5>1. CASE r \in Unbilled
          <6>1. Unbilled \cup {r} = Unbilled
            BY <5>1
          <6>2. Cardinality(Unbilled \cup {r}) = u
            BY Zenon, <6>1 DEF u
          <6> QED
            BY <1>2, <6>2
        <5>2. CASE r \notin Unbilled
          <6>1. Cardinality(Unbilled \cup {r}) = u + 1
            BY <1>1, <5>2, Sizes DEF u
          <6> QED
            BY <1>2, <6>1
        <5> QED
          BY <5>1, <5>2
      <4>6. Cardinality(Unbilled \cup {r}) \in Nat
        BY <4>3, Sizes
      <4>7. u1 <= u + 1
        BY <1>2, <1>9, <4>4, <4>5, <4>6
      <4> QED
        BY <4>1, <4>7
    <3> QED
      BY <3>1, <3>2
  <2>3. /\ Dearest * u1 <= Dearest * (u + d) /\ Dearest * (u + d) = Dearest * u + Dearest * d
        /\ Dearest * (peak + z) + Dearest * d = Dearest * (peak + z + d)
        /\ Dearest * (peak + z + d) <= Dearest * (top + z1)
    BY <1>1, <1>2, <1>5, <1>9, <2>2, TimesGrows
  <2>4. /\ Dearest * u1 \in Nat /\ Dearest * u \in Nat /\ Dearest * d \in Nat
        /\ Dearest * (peak + z) \in Nat /\ Dearest * (top + z1) \in Nat
    BY <1>1, <1>2, <1>5, <1>9, <2>2, TimesGrows
  <2>5. Ceiling = Spare + Dearest * (peak + z) /\ Ceiling' = Spare + Dearest * (top + z1)
    BY <1>8, <1>top, <1>z1 DEF Ceiling, z
  <2>6. used[P] + Dearest * u1 <= Ceiling'
    <3>1. PICK x \in Nat : x = Dearest * u1
      BY <2>4
    <3>2. PICK y \in Nat : y = Dearest * (top + z1)
      BY <2>4
    <3>3. x <= Dearest * u + Dearest * d /\ Dearest * (peak + z) + Dearest * d <= y
      BY <2>3, <3>1, <3>2
    <3>4. used[P] + x <= Spare + y
      BY <1>2, <1>8, <2>4, <2>5, <3>3
    <3> QED
      BY <2>5, <3>1, <3>2, <3>4
  <2> QED
    BY <1>1, <1>4, <1>5, <1>6, <1>7, <1>8, <2>6, <1>u1, <1>same, <1>books, CreditStep, LimiterKept DEF IInv
<1> QED
  BY <1>10, <1>11

(* A run that ends is billed what it used, at most once. *)
LEMMA SettleStep ==
    ASSUME Settings, IInv, NEW r \in Requests, Settle(r)
    PROVE  IInv'
<1> DEFINE P == Period(now)
           u == Cardinality(Unbilled)
           u1 == Cardinality(Unbilled')
<1>1. PICK c \in Costs :
         LET new == c > 0 /\ r \notin ledger
             bill == IF new THEN c ELSE 0
         IN  /\ used' = [used EXCEPT ![P] = @ + bill]
             /\ charged' = [charged EXCEPT ![P] = @ + bill]
             /\ ledger' = IF new THEN ledger \cup {r} ELSE ledger
  BY DEF Settle
<1>2. /\ Types /\ MemoryInv /\ RedisInv /\ CreditInv
      /\ pc \in [Requests -> Places] /\ pc[r] = "running" /\ pc' = [pc EXCEPT ![r] = "ended"]
      /\ used \in [Periods -> Nat] /\ peak \in Nat
      /\ InFlight \in SUBSET Requests /\ unchecked \in SUBSET Requests /\ Unbilled \in SUBSET Requests
      /\ ledger \in SUBSET Requests
      /\ highest \in Nat /\ BooksInv
      /\ charged \in [Periods -> Nat] /\ granted \in [Periods -> Nat] /\ limit \in [Periods -> Nat]
      /\ UNCHANGED <<now, posts, client, count, hits, entered, suspended, limit, granted, patching, acts,
                     highest, unchecked, peak>>
  BY DEF IInv, Types, Settle, Go, InFlight, Unbilled, plan
<1>3. /\ P \in Periods /\ c \in Nat /\ Dearest \in Nat /\ c <= Dearest /\ u \in Nat
      /\ Cardinality(InFlight) \in Nat
  BY <1>2, Prices, Sizes, ClockInRange DEF Settings
<1>4. InFlight' = InFlight \ {r} /\ r \in InFlight
  BY <1>2 DEF InFlight
<1>5. InFlight' \in SUBSET Requests /\ InFlight' \subseteq InFlight
  BY <1>2, <1>4
<1>6. Cardinality(InFlight') <= peak'
  <2>1. Cardinality(InFlight') \in Nat /\ Cardinality(InFlight') <= Cardinality(InFlight)
    BY <1>2, <1>5, Sizes
  <2> QED
    BY <1>2, <1>3, <2>1 DEF CreditInv
<1>7. Types'
  <2>1. /\ used' \in [Periods -> Nat] /\ charged' \in [Periods -> Nat]
        /\ ledger' \in SUBSET Requests
    BY <1>1, <1>2, <1>3
  <2> QED
    BY <1>2, <2>1 DEF Types, Places
<1>8. \A m \in Periods : m # P => used'[m] = used[m]
  BY <1>1, <1>2
<1>9. used[P] \in Nat /\ used[P] + Dearest * u <= Ceiling /\ Ceiling' = Ceiling
  BY <1>2, <1>3 DEF CreditInv, Ceiling, Spare
<1>10. Unbilled' \subseteq Unbilled /\ Unbilled' \in SUBSET Requests
  BY <1>1, <1>2, <1>5 DEF Unbilled
<1>11. u1 \in Nat /\ u1 <= u
  BY <1>2, <1>10, Sizes
<1>12. used'[P] + Dearest * u1 <= Ceiling
  <2>1. CASE c > 0 /\ r \notin ledger
    <3>1. used'[P] = used[P] + c /\ ledger' = ledger \cup {r}
      BY <1>1, <1>2, <1>3, <2>1
    <3>2. Unbilled' = Unbilled \ {r} \/ Unbilled' \subseteq Unbilled \ {r}
      BY <1>2, <1>5, <3>1 DEF Unbilled
    <3>3. r \in Unbilled
      BY <1>4, <2>1 DEF Unbilled
    <3>4. u1 <= Cardinality(Unbilled \ {r}) /\ Cardinality(Unbilled \ {r}) = u - 1
      <4>1. Unbilled \ {r} \in SUBSET Requests
        BY <1>2
      <4>2. u1 <= Cardinality(Unbilled \ {r})
        BY <1>10, <3>2, <4>1, Sizes
      <4>3. Cardinality(Unbilled \ {r}) = u - 1
        BY <1>2, <3>3, Sizes
      <4> QED
        BY <4>2, <4>3
    <3> HIDE DEF u, u1
    <3>5. u1 + 1 <= u
      BY <1>3, <1>11, <3>4
    <3>6. Dearest * (u1 + 1) <= Dearest * u /\ Dearest * (u1 + 1) = Dearest * u1 + Dearest
      BY <1>3, <1>11, <3>5, TimesGrows
    <3>7. Dearest * u1 \in Nat /\ Dearest * u \in Nat /\ Ceiling \in Int
      <4>1. Cardinality(unchecked) \in Nat /\ Spare \in Nat
        BY <1>2, Sizes, Prices
      <4> QED
        BY <1>2, <1>3, <1>11, <4>1, TimesGrows DEF Ceiling
    <3> QED
      BY <1>3, <1>9, <3>1, <3>6, <3>7
  <2>2. CASE ~(c > 0 /\ r \notin ledger)
    <3>1. used'[P] = used[P]
      BY <1>1, <1>2, <1>3, <2>2
    <3> HIDE DEF u, u1
    <3>2. Dearest * u1 \in Nat /\ Dearest * u \in Nat /\ Dearest * u1 <= Dearest * u
      BY <1>3, <1>11, TimesGrows
    <3>3. Ceiling \in Int
      <4>1. Cardinality(unchecked) \in Nat /\ Spare \in Nat
        BY <1>2, Sizes, Prices
      <4> QED
        BY <1>2, <1>3, <4>1, TimesGrows DEF Ceiling
    <3> QED
      BY <1>9, <3>1, <3>2, <3>3
  <2> QED
    BY <2>1, <2>2
<1> HIDE DEF u1
<1>13. used'[P] + Dearest * Cardinality(Unbilled') <= Ceiling'
  BY <1>9, <1>12 DEF u1
<1>14. CreditInv'
  BY <1>2, <1>6, <1>7, <1>8, <1>13, CreditStep
<1>15. BooksInv'
  <2> SUFFICES ASSUME NEW m \in Periods
               PROVE  /\ limit'[m] <= highest'
                      /\ charged'[m] <= used'[m] + granted'[m] /\ used'[m] <= charged'[m]
    BY <1>7 DEF BooksInv, LedgerExplains, Types
  <2>1. /\ limit[m] <= highest /\ charged[m] <= used[m] + granted[m] /\ used[m] <= charged[m]
        /\ limit[m] \in Nat /\ charged[m] \in Nat /\ used[m] \in Nat /\ granted[m] \in Nat
    BY <1>2 DEF BooksInv, LedgerExplains
  <2>2. PICK b \in Nat : /\ used'[m] = used[m] + b /\ charged'[m] = charged[m] + b
    <3>1. CASE m = P
      BY <1>1, <1>2, <1>3, <3>1
    <3>2. CASE m # P
      BY <1>1, <1>2, <2>1, <3>2
    <3> QED
      BY <3>1, <3>2
  <2> QED
    BY <1>2, <2>1, <2>2
<1> QED
  BY <1>2, <1>7, <1>14, <1>15, LimiterKept DEF IInv

(* Steps that start and bill no run. *)
LEMMA NoBillStep ==
    ASSUME Settings, IInv, NEW r \in Requests,
           ReadSuspension(r) \/ CheckRefuses(r) \/ Refuse(r) \/ NotSettled(r) \/ PostAgain(r)
    PROVE  IInv'
<1>1. /\ Types /\ MemoryInv /\ RedisInv /\ CreditInv
      /\ pc \in [Requests -> Places] /\ InFlight \in SUBSET Requests /\ Unbilled \in SUBSET Requests
      /\ unchecked \in SUBSET Requests /\ peak \in Nat
      /\ highest \in Nat /\ BooksInv
      /\ UNCHANGED <<now, count, hits, entered, used, ledger, charged, suspended, limit, granted, patching,
                     acts, highest, unchecked, peak>>
  BY DEF IInv, Types, InFlight, Unbilled, ReadSuspension, CheckRefuses, Refuse, NotSettled, PostAgain,
         credit, books, plan
<1>2. PICK w \in {"checking", "refused", "402", "403", "ended", "new"} : pc' = [pc EXCEPT ![r] = w]
  BY DEF ReadSuspension, CheckRefuses, Refuse, NotSettled, PostAgain, Go
<1>3. InFlight' \subseteq InFlight /\ InFlight' \in SUBSET Requests
  BY <1>1, <1>2 DEF InFlight
<1>4. Types'
  BY <1>1, <1>2 DEF Types, Places
<1>5. Unbilled' \subseteq Unbilled /\ Unbilled' \in SUBSET Requests /\ Ceiling' = Ceiling
  BY <1>1, <1>3 DEF Unbilled, Ceiling, Spare
<1>6. Cardinality(InFlight') <= peak'
  <2>1. Cardinality(InFlight') <= Cardinality(InFlight) /\ Cardinality(InFlight') \in Nat
        /\ Cardinality(InFlight) \in Nat
    BY <1>1, <1>3, Sizes
  <2> QED
    BY <1>1, <2>1 DEF CreditInv
<1>7. used'[Period(now)] + Dearest * Cardinality(Unbilled') <= Ceiling'
  <2>1. PICK u1 : u1 = Cardinality(Unbilled')
    OBVIOUS
  <2>2. PICK u : u = Cardinality(Unbilled)
    OBVIOUS
  <2>3. /\ u \in Nat /\ u1 \in Nat /\ u1 <= u /\ Dearest \in Nat /\ Spare \in Nat
        /\ Cardinality(unchecked) \in Nat /\ Period(now) \in Periods
    BY <1>1, <1>5, <2>1, <2>2, Sizes, Prices, ClockInRange
  <2>4. used[Period(now)] + Dearest * u <= Ceiling /\ used[Period(now)] \in Nat
    BY <1>1, <2>2, <2>3 DEF CreditInv, Types
  <2>5. Dearest * u1 \in Nat /\ Dearest * u \in Nat /\ Dearest * u1 <= Dearest * u
    BY <2>3, TimesGrows
  <2>6. Ceiling \in Int
    BY <1>1, <2>3, TimesGrows DEF Ceiling
  <2>7. used[Period(now)] + Dearest * u1 <= Ceiling
    BY <2>4, <2>5, <2>6
  <2> QED
    BY <1>1, <1>5, <2>1, <2>7
<1>8. CreditInv'
  BY <1>1, <1>4, <1>6, <1>7, CreditStep
<1>9. BooksInv'
  BY <1>1 DEF BooksInv, LedgerExplains
<1> QED
  BY <1>1, <1>4, <1>8, <1>9, LimiterKept DEF IInv

(* What the operators do changes no run: a grant lowers what was used, and a   *)
(* limit that is higher than all before it raises what is spare.            *)
LEMMA OperatingStep ==
    ASSUME Settings, IInv, Operating
    PROVE  IInv'
<1>1. /\ Types /\ MemoryInv /\ RedisInv /\ CreditInv /\ BooksInv
      /\ used \in [Periods -> Nat] /\ limit \in [Periods -> Nat]
      /\ charged \in [Periods -> Nat] /\ granted \in [Periods -> Nat] /\ highest \in Nat
      /\ unchecked \in SUBSET Requests /\ Unbilled \in SUBSET Requests /\ peak \in Nat
      /\ Period(now) \in Periods /\ Period(MaxTime) \in Nat
  <2>1. Period(MaxTime) \in Nat
    BY DivGrows DEF Settings, Period
  <2> QED
    BY <2>1, ClockInRange DEF IInv, Types, Unbilled, InFlight
<1>2. UNCHANGED <<now, pc, count, hits, entered, ledger, charged, unchecked, peak>>
  BY DEF Operating, SetState, Grant, ReadPeriod, PatchPeriod, PatchFails, requests
<1>3. /\ used' \in [Periods -> Nat]
      /\ \A m \in Periods : used'[m] <= used[m] /\ used[m] - used'[m] <= granted'[m] - granted[m]
      /\ granted' \in [Periods -> Nat]
  <2>1. CASE Grant
    <3>1. PICK g \in Grants : /\ used' = [used EXCEPT ![Period(now)] = Max({0, @ - g})]
                              /\ granted' = [granted EXCEPT ![Period(now)] = @ + g]
      BY <2>1 DEF Grant
    <3>2. g \in Nat
      BY DEF Settings
    <3>3. ASSUME NEW u \in Nat PROVE Max({0, u - g}) = IF u >= g THEN u - g ELSE 0
      <4>1. CASE u >= g
        <5>1. u - g \in Nat /\ 0 \in Nat
          BY <3>2, <4>1
        <5>2. Max({0, u - g}) \in {0, u - g} /\ Max({0, u - g}) >= u - g
          <6>1. {0, u - g} \in SUBSET Nat /\ {0, u - g} # {} /\ \A x \in {0, u - g} : x <= u - g
            BY <5>1
          <6> QED
            BY <5>1, <6>1, Greatest
        <5> QED
          BY <4>1, <5>1, <5>2
      <4>2. CASE u < g
        <5>1. 0 \in {0, u - g} /\ \A x \in {0, u - g} : 0 >= x
          BY <3>2, <4>2
        <5>2. \A y \in {0, u - g} : (\A x \in {0, u - g} : y >= x) => y = 0
          BY <3>2, <4>2
        <5>3. Max({0, u - g}) = 0
          BY <5>1, <5>2 DEF Max
        <5> QED
          BY <3>2, <4>2, <5>3
      <4> QED
        BY <3>2, <4>1, <4>2
    <3>4. ASSUME NEW m \in Periods
          PROVE  /\ used'[m] \in Nat /\ used'[m] <= used[m] /\ granted'[m] \in Nat
                 /\ used[m] - used'[m] <= granted'[m] - granted[m]
      <4>1. CASE m = Period(now)
        <5>1. used'[m] = (IF used[m] >= g THEN used[m] - g ELSE 0) /\ granted'[m] = granted[m] + g
          BY <1>1, <3>1, <3>3, <4>1
        <5>2. PICK u \in Nat, v \in Nat : u = used[m] /\ v = granted[m]
          BY <1>1
        <5>3. used'[m] = (IF u >= g THEN u - g ELSE 0) /\ granted'[m] = v + g
          BY <5>1, <5>2
        <5> QED
          BY <3>2, <5>2, <5>3
      <4>2. CASE m # Period(now)
        BY <1>1, <3>1, <4>2
      <4> QED
        BY <4>1, <4>2
    <3>5. used' \in [Periods -> Nat] /\ granted' \in [Periods -> Nat]
      BY <1>1, <3>1, <3>4
    <3>6. \A m \in Periods : used'[m] <= used[m]
      BY <3>4
    <3>7. \A m \in Periods : used[m] - used'[m] <= granted'[m] - granted[m]
      BY <3>4
    <3> QED
      BY <3>5, <3>6, <3>7
  <2>2. CASE ~Grant
    <3>1. used' = used /\ granted' = granted
      BY <2>2 DEF Operating, SetState, ReadPeriod, PatchPeriod, PatchFails
    <3>2. ASSUME NEW m \in Periods
          PROVE  used[m] <= used[m] /\ used[m] - used[m] <= granted[m] - granted[m]
      <4>1. used[m] \in Nat /\ granted[m] \in Nat
        BY <1>1
      <4> QED
        BY <4>1
    <3>3. used' \in [Periods -> Nat] /\ granted' \in [Periods -> Nat]
      BY <1>1, <3>1
    <3> QED
      BY <3>1, <3>2, <3>3
  <2> QED
    BY <2>1, <2>2
<1>4. /\ highest' \in Nat /\ highest <= highest' /\ patching' \in SUBSET Periods
      /\ limit' \in [Periods -> Nat] /\ \A m \in Periods : limit'[m] <= highest'
  <2>1. \A m \in Periods : limit[m] <= highest
    BY <1>1 DEF BooksInv
  <2>2. CASE PatchPeriod
    <3>1. PICK n \in patching, l \in Limits : limit' = [limit EXCEPT ![n] = l] /\ highest' = Max({highest, l})
      BY <2>2 DEF PatchPeriod
    <3>2. n \in Periods /\ l \in Nat /\ patching' = {}
      BY <1>1, <2>2 DEF Types, Settings, PatchPeriod
    <3>3. highest' \in Nat /\ highest' >= highest /\ highest' >= l
      BY <1>1, <3>1, <3>2, MaxOfTwo
    <3>4. limit' \in [Periods -> Nat]
      BY <1>1, <3>1, <3>2
    <3>5. ASSUME NEW m \in Periods PROVE limit'[m] <= highest'
      <4>1. CASE m = n
        BY <1>1, <3>1, <3>3, <4>1
      <4>2. CASE m # n
        <5>1. limit'[m] = limit[m] /\ limit[m] \in Nat
          BY <1>1, <3>1, <4>2
        <5> QED
          BY <1>1, <2>1, <3>3, <5>1
      <4> QED
        BY <4>1, <4>2
    <3> QED
      BY <3>2, <3>3, <3>4, <3>5
  <2>3. CASE ~PatchPeriod
    <3>1. limit' = limit /\ highest' = highest
      BY <2>3 DEF Operating, SetState, Grant, ReadPeriod, PatchFails
    <3>2. patching' \in SUBSET Periods
      BY <1>1, <2>3 DEF Types, Operating, SetState, Grant, ReadPeriod, PatchFails
    <3> QED
      BY <1>1, <2>1, <3>1, <3>2
  <2> QED
    BY <2>2, <2>3
<1>5. Types'
  BY <1>1, <1>2, <1>3, <1>4 DEF Types
<1>6. MemoryInv' /\ RedisInv'
  BY <1>1, <1>2, LimiterKept
<1>7. BooksInv'
  <2> SUFFICES ASSUME NEW m \in Periods
               PROVE  charged'[m] <= used'[m] + granted'[m] /\ used'[m] <= charged'[m]
    BY <1>3, <1>4 DEF BooksInv, LedgerExplains
  <2>1. /\ charged'[m] = charged[m] /\ charged[m] <= used[m] + granted[m] /\ used[m] <= charged[m]
        /\ charged[m] \in Nat /\ used[m] \in Nat /\ granted[m] \in Nat
        /\ used'[m] \in Nat /\ granted'[m] \in Nat
    BY <1>1, <1>2, <1>3 DEF BooksInv, LedgerExplains
  <2>2. used'[m] <= used[m] /\ used[m] - used'[m] <= granted'[m] - granted[m]
    BY <1>3
  <2> QED
    BY <2>1, <2>2
<1>8. Ceiling \in Nat /\ Ceiling' \in Nat /\ Ceiling <= Ceiling'
  <2>1. Spare = SpareAt(highest) /\ Spare' = SpareAt(highest')
    BY DEF Spare, SpareAt
  <2>2. Spare \in Nat /\ Spare' \in Nat /\ Spare <= Spare'
    BY <1>1, <1>4, <2>1, SpareFacts, SpareGrows
  <2>3. Dearest \in Nat /\ Cardinality(unchecked) \in Nat
    BY <1>1, Prices, Sizes
  <2>4. Dearest * (peak + Cardinality(unchecked)) \in Nat
    BY <1>1, <2>3
  <2>5. Ceiling = Spare + Dearest * (peak + Cardinality(unchecked))
        /\ Ceiling' = Spare' + Dearest * (peak + Cardinality(unchecked))
    BY <1>2 DEF Ceiling
  <2> QED
    BY <2>2, <2>4, <2>5
<1>9. InFlight' = InFlight /\ Unbilled' = Unbilled
  BY <1>2 DEF InFlight, Unbilled
<1>10. ASSUME NEW m \in Periods
       PROVE  /\ m < Period(now) => used'[m] <= Ceiling'
              /\ m = Period(now) => used'[m] + Dearest * Cardinality(Unbilled) <= Ceiling'
              /\ m > Period(now) => used'[m] = 0
  <2>1. /\ m < Period(now) => used[m] <= Ceiling
        /\ m = Period(now) => used[m] + Dearest * Cardinality(Unbilled) <= Ceiling
        /\ m > Period(now) => used[m] = 0
    BY <1>1 DEF CreditInv
  <2>2. used[m] \in Nat /\ used'[m] \in Nat /\ used'[m] <= used[m]
    BY <1>1, <1>3
  <2>3. Dearest \in Nat /\ Cardinality(Unbilled) \in Nat
    BY <1>1, Prices, Sizes
  <2>4. PICK x \in Nat : x = Dearest * Cardinality(Unbilled)
    BY <2>3
  <2>5. PICK p \in Nat : p = Period(now)
    BY <1>1
  <2>6. m \in Nat
    BY <1>1
  <2> QED
    BY <1>8, <2>1, <2>2, <2>4, <2>5, <2>6
<1>11. CreditInv'
  BY <1>1, <1>2, <1>9, <1>10 DEF CreditInv
<1> QED
  BY <1>5, <1>6, <1>7, <1>11 DEF IInv

(* Time passes: the window moves on, and a new period starts with no bill. *)
LEMMA TickStep ==
    ASSUME Settings, IInv, Tick
    PROVE  IInv'
<1>1. /\ Types /\ MemoryInv /\ RedisInv /\ CreditInv
      /\ now \in Nat /\ now < MaxTime /\ MaxTime \in Nat /\ now' = now + 1
      /\ highest \in Nat /\ BooksInv
      /\ UNCHANGED <<pc, posts, client, count, hits, entered, used, ledger, charged, suspended, limit,
                     granted, patching, acts, highest, unchecked, peak>>
  BY DEF IInv, Types, Tick, credit, books, plan, Settings
<1>2. Types'
  <2>1. now' \in 0..MaxTime /\ \A e \in entered' : e.who \in Requests /\ e.at \in 0..now'
    BY <1>1 DEF Types
  <2> QED
    BY <1>1, <2>1 DEF Types
<1>3. MemoryInv'
  <2> SUFFICES ASSUME NEW p \in Processes
               PROVE  /\ Len(hits'[p]) <= MaxHits
                      /\ \E f \in Injection(Lately(p)', DOMAIN hits'[p]) : \A e \in Lately(p)' : hits'[p][f[e]] = e.at
                      /\ \A b \in Nat : \E f : f \in Injection(InBucket(p, b)', 1..MaxHits)
    BY DEF MemoryInv
  <2>1. hits'[p] = hits[p] /\ ByMemory(p)' = ByMemory(p) /\ \A b : InBucket(p, b)' = InBucket(p, b)
    BY <1>1 DEF ByMemory, InBucket
  <2>2. Lately(p)' \in SUBSET Lately(p)
    <3>1. \A e \in ByMemory(p) : e.at \in Nat
      BY <1>1 DEF Types, ByMemory
    <3>2. \A e \in ByMemory(p) : e.at + Window >= now' => e.at + Window >= now
      BY <1>1, <3>1 DEF Settings
    <3> QED
      BY <2>1, <3>2 DEF Lately
  <2>3. PICK f \in Injection(Lately(p), DOMAIN hits[p]) : \A e \in Lately(p) : hits[p][f[e]] = e.at
    BY <1>1 DEF MemoryInv
  <2>4. PICK g \in Injection(Lately(p)', DOMAIN hits[p]) : \A e \in Lately(p)' : g[e] = f[e]
    BY <2>2, <2>3, SubInjection
  <2>5. \A e \in Lately(p)' : hits[p][g[e]] = e.at
    BY <2>2, <2>3, <2>4
  <2>6. Len(hits[p]) <= MaxHits /\ \A b \in Nat : \E h : h \in Injection(InBucket(p, b), 1..MaxHits)
    BY <1>1 DEF MemoryInv
  <2> QED
    BY <2>1, <2>4, <2>5, <2>6
<1>4. RedisInv'
  BY <1>1 DEF RedisInv, ByRedis
<1>5. InFlight' = InFlight /\ Unbilled' = Unbilled /\ Ceiling' = Ceiling /\ used' = used /\ peak' = peak
  BY <1>1 DEF InFlight, Unbilled, Ceiling, Spare
<1>6. /\ InFlight \in SUBSET Requests /\ unchecked \in SUBSET Requests /\ Unbilled \in SUBSET Requests
      /\ Unbilled \subseteq InFlight \cup unchecked /\ InFlight \cup unchecked \in SUBSET Requests
      /\ peak \in Nat
  BY <1>1 DEF Types, InFlight, Unbilled
<1> DEFINE u == Cardinality(Unbilled)
           z == Cardinality(unchecked)
<1>7. u \in Nat /\ z \in Nat /\ Dearest \in Nat /\ Spare \in Nat /\ u <= peak + z
  <2>1. u \in Nat /\ z \in Nat /\ Dearest \in Nat /\ Spare \in Nat
    BY <1>1, <1>6, Sizes, Prices
  <2>2. PICK n : n = Cardinality(InFlight \cup unchecked)
    OBVIOUS
  <2>3. u <= n /\ n <= Cardinality(InFlight) + z /\ n \in Nat /\ Cardinality(InFlight) \in Nat
    BY <1>6, <2>2, Sizes
  <2> HIDE DEF u, z
  <2> QED
    BY <1>1, <1>6, <2>1, <2>3 DEF CreditInv
<1>8. Ceiling = Spare + Dearest * (peak + z)
  BY DEF Ceiling
<1> HIDE DEF u, z
<1>9. /\ Dearest * u \in Nat /\ Ceiling \in Nat /\ Dearest * u <= Ceiling
  BY <1>6, <1>7, <1>8, TimesGrows
<1>10. Period(now) \in Nat /\ Period(now') \in Nat /\ Period(now) <= Period(now')
  BY <1>1, DivGrows DEF Period, Settings
<1>11. ASSUME NEW m \in Periods
       PROVE  /\ m < Period(now') => used[m] <= Ceiling
              /\ m = Period(now') => used[m] + Dearest * u <= Ceiling
              /\ m > Period(now') => used[m] = 0
  <2>1. /\ m < Period(now) => used[m] <= Ceiling
        /\ m = Period(now) => used[m] + Dearest * u <= Ceiling
        /\ m > Period(now) => used[m] = 0
        /\ used[m] \in Nat /\ m \in Nat
    <3>1. used[m] \in Nat /\ m \in Nat
      BY <1>1, ClockInRange DEF Types
    <3> QED
      BY <1>1, <3>1 DEF CreditInv, u
  <2>2. PICK x \in Nat : x = Dearest * u
    BY <1>9
  <2>3. PICK q \in Nat : q = Period(now')
    BY <1>10
  <2> QED
    BY <1>9, <1>10, <2>1, <2>2, <2>3
<1>12. CreditInv'
  BY <1>1, <1>5, <1>11 DEF CreditInv, u
<1>13. BooksInv'
  BY <1>1 DEF BooksInv, LedgerExplains
<1> QED
  BY <1>2, <1>3, <1>4, <1>12, <1>13 DEF IInv
----------------------------------------------------------------------------
(* The theorems. *)

LEMMA InitIInv == ASSUME Settings, Init PROVE IInv
<1>1. 0 <= MaxTime /\ MaxTime \in Nat /\ 0 \in Nat /\ MaxHits \in Nat
  BY DEF Settings
<1>2. Period(MaxTime) \in Nat /\ Bucket(MaxTime) \in Nat
  BY <1>1, DivGrows DEF Period, Bucket, Settings
<1>3. Types
  <2>1. <<>> \in Seq(Nat)
    OBVIOUS
  <2> QED
    BY <1>1, <1>2, <2>1 DEF Init, Types, Places, Settings
<1>4. \A T : \E f \in Injection({}, T) : TRUE
  <2> SUFFICES ASSUME NEW T PROVE \E f \in Injection({}, T) : TRUE
    OBVIOUS
  <2>1. [e \in {} |-> 0] \in Injection({}, T)
    BY DEF Injection, IsInjective
  <2> QED
    BY <2>1
<1>5. MemoryInv
  <2> SUFFICES ASSUME NEW p \in Processes
               PROVE  /\ Len(hits[p]) <= MaxHits
                      /\ \E f \in Injection(Lately(p), DOMAIN hits[p]) : \A e \in Lately(p) : hits[p][f[e]] = e.at
                      /\ \A b \in Nat : \E f : f \in Injection(InBucket(p, b), 1..MaxHits)
    BY DEF MemoryInv
  <2>1. hits[p] = <<>> /\ Lately(p) = {} /\ \A b : InBucket(p, b) = {}
    BY DEF Init, Lately, InBucket, ByMemory
  <2>2. Len(hits[p]) <= MaxHits
    BY <1>1, <2>1
  <2> QED
    BY <1>4, <2>1, <2>2
<1>6. RedisInv
  <2>1. \A b : ByRedis(b) = {}
    BY DEF Init, ByRedis
  <2> QED
    BY <1>4, <2>1 DEF RedisInv
<1>7. CreditInv
  <2>1. InFlight = {} /\ unchecked = {} /\ Unbilled = {} /\ peak = 0
    BY DEF Init, InFlight, Unbilled
  <2>2. Cardinality({}) = 0
    BY FS_EmptySet
  <2>3. Dearest \in Nat /\ Spare \in Nat
    BY <1>3, Prices DEF Types
  <2>4. Cardinality(InFlight) = 0 /\ Cardinality(Unbilled) = 0 /\ Cardinality(unchecked) = 0
    BY <2>1, <2>2
  <2>5. Dearest * 0 = 0 /\ Ceiling = Spare + Dearest * (0 + 0)
    BY <2>1, <2>3, <2>4 DEF Ceiling
  <2>6. Ceiling = Spare
    BY <2>3, <2>5
  <2>7. \A m \in Periods : used[m] = 0
    BY DEF Init
  <2> QED
    BY <2>1, <2>3, <2>4, <2>5, <2>6, <2>7 DEF CreditInv
<1>8. BooksInv
  BY <1>1, <1>2 DEF Init, BooksInv, LedgerExplains, Settings
<1> QED
  BY <1>3, <1>5, <1>6, <1>7, <1>8 DEF IInv

LEMMA NextIInv == ASSUME Settings, IInv, [Next]_vars PROVE IInv'
<1>1. CASE UNCHANGED vars
  <2>1. UNCHANGED <<now, pc, posts, client, count, hits, entered, used, ledger, charged, limit, granted,
                    patching, highest, unchecked, peak>>
    BY <1>1 DEF vars, credit, books, plan
  <2>2. MemoryInv' /\ RedisInv'
    BY <2>1, LimiterKept DEF IInv
  <2>3. Types'
    BY <2>1 DEF IInv, Types
  <2>4. InFlight' = InFlight /\ Unbilled' = Unbilled /\ Ceiling' = Ceiling
    BY <2>1 DEF InFlight, Unbilled, Ceiling, Spare
  <2> QED
    BY <2>1, <2>2, <2>3, <2>4 DEF IInv, CreditInv, BooksInv, LedgerExplains
<1>2. CASE Tick
  BY <1>2, TickStep
<1>3. CASE Operating
  BY <1>3, OperatingStep
<1>4. ASSUME NEW r \in Requests, Limiting(r) \/ Charging(r) PROVE IInv'
  <2>1. CASE Limiting(r)
    BY <2>1, LimitingStep
  <2>2. CASE CheckPasses(r) \/ CheckFailsOpen(r)
    BY <2>2, StartStep
  <2>3. CASE Settle(r)
    BY <2>3, SettleStep
  <2>4. CASE ReadSuspension(r) \/ CheckRefuses(r) \/ Refuse(r) \/ NotSettled(r) \/ PostAgain(r)
    BY <2>4, NoBillStep
  <2> QED
    BY <1>4, <2>1, <2>2, <2>3, <2>4 DEF Charging
<1> QED
  BY <1>1, <1>2, <1>3, <1>4 DEF Next

(* However requests, failures of Redis, bills and the clock interleave, the    *)
(* invariant holds.                                                         *)
THEOREM InductiveInvariant == ASSUME Settings PROVE Spec => []IInv
BY InitIInv, NextIInv, PTL DEF Spec

(* In one bucket Redis let in MaxHits requests at most, and so did each process. *)
LEMMA RateFollows == ASSUME Settings, IInv PROVE RateBounded
<1> SUFFICES ASSUME NEW b \in DOMAIN count
             PROVE  Cardinality(Admitted(b)) <= MaxHits * (1 + Cardinality(Processes))
  BY DEF RateBounded
<1>1. b \in 0..Bucket(MaxTime) /\ b \in Nat /\ MaxHits \in Nat /\ count[b] \in Nat
  <2>1. count \in [0..Bucket(MaxTime) -> Nat] /\ MaxHits \in Nat /\ Bucket(MaxTime) \in Nat
    BY DivGrows DEF IInv, Types, Settings, Bucket
  <2> QED
    BY <2>1
<1>2. IsFiniteSet(1..MaxHits) /\ Cardinality(1..MaxHits) = MaxHits
  <2>1. MaxHits \in Int /\ MaxHits >= 0
    BY <1>1
  <2>2. /\ IsFiniteSet(1..MaxHits)
        /\ Cardinality(1..MaxHits) = IF 1 > MaxHits THEN 0 ELSE MaxHits - 1 + 1
    BY <2>1, FS_Interval
  <2> QED
    BY <2>1, <2>2
<1>3. IsFiniteSet(Processes) /\ Cardinality(Processes) \in Nat
  <2> DEFINE f == [r \in Requests |-> Home[r]]
  <2>1. f \in Surjection(Requests, Processes)
    BY DEF Surjection, Processes
  <2> HIDE DEF f
  <2>2. IsFiniteSet(Processes)
    BY <2>1, FS_Surjection DEF Settings
  <2> QED
    BY <2>2, FS_CardinalityType
<1>4. IsFiniteSet(ByRedis(b)) /\ Cardinality(ByRedis(b)) \in Nat /\ Cardinality(ByRedis(b)) <= MaxHits
  <2>1. PICK f : f \in Injection(ByRedis(b), {n \in 1..count[b] : n <= MaxHits})
    BY <1>1 DEF IInv, RedisInv
  <2>2. {n \in 1..count[b] : n <= MaxHits} \subseteq 1..MaxHits
    BY <1>1
  <2>3. PICK h : h \in Injection(ByRedis(b), 1..MaxHits)
    <3>1. PICK A : A = ByRedis(b)
      OBVIOUS
    <3>2. A \in SUBSET A /\ f \in Injection(A, {n \in 1..count[b] : n <= MaxHits})
      BY <2>1, <3>1
    <3> QED
      BY <2>2, <3>1, <3>2, SubInjection
  <2>4. IsFiniteSet(ByRedis(b)) /\ Cardinality(ByRedis(b)) <= Cardinality(1..MaxHits)
    BY <1>2, <2>3, FS_Injection
  <2> QED
    BY <1>2, <2>4, FS_CardinalityType
<1> DEFINE M == {e \in entered : e.by # "redis" /\ Bucket(e.at) = b}
           F(p) == CHOOSE f : f \in Injection(InBucket(p, b), 1..MaxHits)
           g == [e \in M |-> <<Home[e.who], F(Home[e.who])[e]>>]
<1>5. \A p \in Processes : F(p) \in Injection(InBucket(p, b), 1..MaxHits)
  BY <1>1 DEF IInv, MemoryInv
<1>6. ASSUME NEW e \in M PROVE Home[e.who] \in Processes /\ e \in InBucket(Home[e.who], b)
  BY DEF IInv, Types, Processes, InBucket, ByMemory
<1> HIDE DEF M, F
<1>7. ASSUME NEW e \in M PROVE g[e] \in Processes \X (1..MaxHits)
  <2>1. F(Home[e.who])[e] \in 1..MaxHits
    BY <1>5, <1>6 DEF Injection
  <2> QED
    BY <1>6, <2>1
<1>8. ASSUME NEW d \in M, NEW e \in M, g[d] = g[e] PROVE d = e
  <2>1. Home[d.who] = Home[e.who] /\ F(Home[d.who])[d] = F(Home[e.who])[e]
    BY <1>8
  <2>2. PICK p \in Processes : p = Home[d.who]
    BY <1>6
  <2>3. d \in InBucket(p, b) /\ e \in InBucket(p, b) /\ F(p)[d] = F(p)[e]
    BY <1>6, <2>1, <2>2
  <2> QED
    BY <1>5, <2>3 DEF Injection, IsInjective
<1>9. g \in [M -> Processes \X (1..MaxHits)]
  BY <1>7
<1> HIDE DEF g
<1>10. g \in Injection(M, Processes \X (1..MaxHits))
  BY <1>8, <1>9 DEF Injection, IsInjective
<1>11. /\ IsFiniteSet(Processes \X (1..MaxHits))
       /\ Cardinality(Processes \X (1..MaxHits)) = Cardinality(Processes) * Cardinality(1..MaxHits)
  BY <1>2, <1>3, FS_Product
<1>12. IsFiniteSet(M) /\ Cardinality(M) <= Cardinality(Processes \X (1..MaxHits))
  BY <1>10, <1>11, FS_Injection
<1>13. Cardinality(M) \in Nat
  BY <1>12, FS_CardinalityType
<1>14. Cardinality(M) <= Cardinality(Processes) * MaxHits
  BY <1>2, <1>11, <1>12
<1>15. Admitted(b) = ByRedis(b) \cup M
  BY DEF Admitted, ByRedis, M
<1>16. Cardinality(Admitted(b)) <= Cardinality(ByRedis(b)) + Cardinality(M)
  <2>1. Cardinality(ByRedis(b) \cup M)
          = Cardinality(ByRedis(b)) + Cardinality(M) - Cardinality(ByRedis(b) \cap M)
    BY <1>4, <1>12, FS_Union
  <2>2. Cardinality(ByRedis(b) \cap M) \in Nat
    BY <1>4, FS_Intersection, FS_CardinalityType
  <2>3. PICK n : n = Cardinality(ByRedis(b) \cup M)
    OBVIOUS
  <2>4. n = Cardinality(Admitted(b))
    BY Zenon, <1>15, <2>3
  <2>5. n <= Cardinality(ByRedis(b)) + Cardinality(M)
    BY <1>4, <1>13, <2>1, <2>2, <2>3
  <2> QED
    BY <2>4, <2>5
<1>17. Cardinality(Admitted(b)) \in Nat
  <2>1. IsFiniteSet(Admitted(b))
    BY <1>4, <1>12, <1>15, FS_Union
  <2> QED
    BY <2>1, FS_CardinalityType
<1>18. MaxHits * (1 + Cardinality(Processes)) = MaxHits + Cardinality(Processes) * MaxHits
  BY <1>1, <1>3
<1>19. Cardinality(Processes) * MaxHits \in Nat
  BY <1>1, <1>3
<1> QED
  BY <1>1, <1>4, <1>13, <1>14, <1>16, <1>17, <1>18, <1>19

LEMMA OverdraftFollows == ASSUME Settings, IInv PROVE OverdraftBounded
<1> SUFFICES ASSUME NEW m \in DOMAIN used PROVE used[m] <= Ceiling
  BY DEF OverdraftBounded, Ceiling
<1>1. /\ m \in Periods /\ used[m] \in Nat /\ Period(now) \in Periods
      /\ unchecked \in SUBSET Requests /\ Unbilled \in SUBSET Requests /\ peak \in Nat
  BY ClockInRange DEF IInv, Types, Unbilled, InFlight
<1>2. /\ Dearest \in Nat /\ Spare \in Nat
      /\ Cardinality(unchecked) \in Nat /\ Cardinality(Unbilled) \in Nat
  BY <1>1, Sizes, Prices DEF IInv, Types
<1>3. Ceiling \in Nat /\ Dearest * Cardinality(Unbilled) \in Nat
  BY <1>1, <1>2, TimesGrows DEF Ceiling
<1>4. /\ m < Period(now) => used[m] <= Ceiling
      /\ m = Period(now) => used[m] + Dearest * Cardinality(Unbilled) <= Ceiling
      /\ m > Period(now) => used[m] = 0
  BY <1>1 DEF IInv, CreditInv
<1> QED
  BY <1>1, <1>3, <1>4

(* All of what admission promises. *)
LEMMA BoundFollows == ASSUME Settings, IInv PROVE AdmissionBounded
BY RateFollows, OverdraftFollows DEF AdmissionBounded, IInv, BooksInv

(* Both gates keep their bounds: a bucket of the clock lets in no more than    *)
(* Redis and the memories of the processes allow, and a period's bill ends no   *)
(* further above its limit than the runs in flight together, or let in          *)
(* unchecked, cost. And whatever operators grant and change meanwhile, a        *)
(* period's bill is what its rows in the ledger explain.                     *)
THEOREM Bounded == ASSUME Settings PROVE Spec => []AdmissionBounded
<1>1. IInv => AdmissionBounded
  BY BoundFollows
<1> QED
  BY <1>1, InductiveInvariant, PTL
----------------------------------------------------------------------------
=============================================================================
