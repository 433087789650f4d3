------------------------ MODULE RedisRunBufferProofs ------------------------
(***************************************************************************)
(* Proofs about RedisRunBuffer for any number of readers and of workers    *)
(* that write to the run, any length of the retained list and any run:     *)
(* types, and that no chunk is sent more than twice.                       *)
(***************************************************************************)
EXTENDS RedisRunBuffer, TLAPS, FiniteSetTheorems

(***************************************************************************)
(* The inductive invariant.                                                *)
(***************************************************************************)

\* INCR gives every chunk an id of its own, and keys that are gone stay gone.
LogInv ==
    /\ \A w \in Workers : wpc[w] = "push" => num[w] < seq /\ num[w] \notin ToSet(log)
    /\ \A w, v \in Workers : wpc[w] = "push" /\ wpc[v] = "push" /\ num[w] = num[v] => w = v
    /\ IF expired THEN \A w \in Workers : wpc[w] \in {"finished", "dead"}
                  ELSE \A s \in ToSet(log) : s < seq

\* No chunk is in s twice.
Once(s) == \A i, j \in DOMAIN s : s[i] = s[j] /\ s[i] \in Nat => i = j

\* The list holds chunks of the run, each once.
ListInv == Once(chunks) /\ ToSet(chunks) \subseteq ToSet(log)

\* What a list has still to give was counted by the cursor; the channel gives
\* every chunk once.
PendingInv(c) ==
    /\ Once(pending[c])
    /\ \A s \in ToSet(pending[c]) : s <= cursor[c]
InboxInv(c) ==
    /\ ToSet(inbox[c]) \subseteq ToSet(log) \cup {Nothing, DoneMsg}
    /\ Once(inbox[c])

\* What c was sent, at the positions in A from the list, at the others from the
\* channel: neither gives a chunk twice, and neither has one left it gave.
SplitBy(c, A) ==
    LET B == DOMAIN got[c] \ A
    IN  /\ \A i, j \in A : got[c][i] = got[c][j] => i = j
        /\ \A i, j \in B : got[c][i] = got[c][j] => i = j
        /\ \A i \in A : got[c][i] <= cursor[c] /\ got[c][i] \notin ToSet(pending[c])
        /\ \A i \in B : got[c][i] \in ToSet(log) /\ got[c][i] \notin ToSet(inbox[c])

ReaderInv(c) == PendingInv(c) /\ InboxInv(c) /\ \E A \in SUBSET DOMAIN got[c] : SplitBy(c, A)

IInv ==
    /\ TypeOK /\ LogInv /\ ListInv
    /\ \A c \in Conns : ReaderInv(c) /\ (cpc[c] = "new" => cursor[c] = -1)
----------------------------------------------------------------------------
(* Finite sets of integers and the sequences picked by them.                *)

(* An element of a finite set of integers is the k-th for exactly one k. *)
LEMMA Ranks ==
    ASSUME NEW S \in SUBSET Int, IsFiniteSet(S)
    PROVE  /\ Cardinality(S) \in Nat
           /\ \A k \in 1..Cardinality(S) : \E i \in S : Cardinality({j \in S : j <= i}) = k
<1> DEFINE n == Cardinality(S)
           Below(i) == {j \in S : j <= i}
           rank == [i \in S |-> Cardinality(Below(i))]
<1>1. n \in Nat
  BY FS_CardinalityType
<1>2. ASSUME NEW i \in S PROVE rank[i] \in 1..n
  <2>1. Below(i) \in SUBSET S
    OBVIOUS
  <2>2. IsFiniteSet(Below(i)) /\ Cardinality(Below(i)) <= n
    BY <2>1, FS_Subset
  <2>3. Cardinality(Below(i)) \in Nat
    BY <2>2, FS_CardinalityType
  <2>4. Below(i) # {}
    <3>1. i \in Below(i)
      OBVIOUS
    <3> QED
      BY <3>1
  <2>5. Cardinality(Below(i)) # 0
    BY <2>2, <2>4, FS_EmptySet
  <2>6. rank[i] = Cardinality(Below(i))
    OBVIOUS
  <2> HIDE DEF rank, Below
  <2> QED
    BY <1>1, <2>2, <2>3, <2>5, <2>6
<1>3. ASSUME NEW i \in S, NEW j \in S, rank[i] = rank[j] PROVE i = j
  <2> SUFFICES ASSUME NEW a \in S, NEW b \in S, a < b PROVE rank[a] # rank[b]
    <3>1. i < j \/ j < i \/ i = j
      OBVIOUS
    <3> QED
      BY <1>3, <3>1
  <2>1. Below(b) \in SUBSET S /\ Below(a) \in SUBSET Below(b)
    <3> HIDE DEF rank
    <3>1. \A k \in S : k <= a => k <= b
      OBVIOUS
    <3> QED
      BY <3>1
  <2>2. b \in Below(b) /\ b \notin Below(a)
    OBVIOUS
  <2>3. IsFiniteSet(Below(b))
    BY <2>1, FS_Subset
  <2>4. Cardinality(Below(a)) # Cardinality(Below(b))
    BY <2>1, <2>2, <2>3, FS_Subset
  <2> QED
    BY <2>4
<1>4. rank \in [S -> 1..n]
  BY <1>2
<1>5. rank \in Injection(S, 1..n)
  <2> HIDE DEF rank
  <2> QED
    BY <1>3, <1>4 DEF Injection, IsInjective
<1>6. IsFiniteSet(1..n) /\ Cardinality(1..n) = n
  BY <1>1, FS_Interval
<1>7. rank \in Surjection(S, 1..n)
  <2> HIDE DEF rank
  <2>1. Cardinality(S) = Cardinality(1..n)
    BY <1>6
  <2> QED
    BY <1>5, <1>6, <2>1, FS_Injection
<1>8. ASSUME NEW k \in 1..n PROVE \E i \in S : rank[i] = k
  <2> HIDE DEF rank
  <2> QED
    BY <1>7 DEF Surjection
<1> QED
  BY <1>1, <1>8

(* A finite set of integers has a greatest element. *)
LEMMA MaxOf ==
    ASSUME NEW S \in SUBSET Int, IsFiniteSet(S), S # {}
    PROVE  Max(S) \in S /\ \A x \in S : x <= Max(S)
<1>1. Cardinality(S) \in Nat /\ Cardinality(S) # 0
  BY FS_CardinalityType, FS_EmptySet
<1>2. Cardinality(S) \in 1..Cardinality(S)
  BY <1>1
<1>3. PICK i \in S : Cardinality({j \in S : j <= i}) = Cardinality(S)
  BY <1>2, Ranks
<1>4. {j \in S : j <= i} = S
  <2>1. {j \in S : j <= i} \in SUBSET S
    OBVIOUS
  <2> QED
    BY <1>3, <2>1, FS_Subset
<1>5. \A x \in S : i >= x
  BY <1>4
<1>6. Max(S) \in S /\ \A x \in S : Max(S) >= x
  BY <1>5 DEF Max
<1> QED
  BY <1>6

(* The elements of a finite sequence are finitely many. *)
LEMMA FiniteToSet ==
    ASSUME NEW T, NEW s \in Seq(T)
    PROVE  IsFiniteSet(ToSet(s)) /\ ToSet(s) \subseteq T
<1>1. IsFiniteSet(1..Len(s)) /\ DOMAIN s = 1..Len(s)
  BY FS_Interval
<1>2. s \in Surjection(1..Len(s), ToSet(s))
  BY <1>1 DEF Surjection, ToSet
<1>3. IsFiniteSet(ToSet(s))
  BY <1>1, <1>2, FS_Surjection
<1> QED
  BY <1>1, <1>3 DEF ToSet

(* What a replay reads: chunks of the list after a, none twice. *)
LEMMA ReplayReads ==
    ASSUME chunks \in Seq(Nat), Once(chunks), NEW a \in Int
    PROVE  /\ ReplayAfter(a) \in Seq(Nat)
           /\ Once(ReplayAfter(a))
           /\ \A s \in ToSet(ReplayAfter(a)) : s \in ToSet(chunks) /\ s > a
<1> DEFINE kept == {i \in DOMAIN chunks : chunks[i] > a}
           n == Cardinality(kept)
<1>1. kept \in SUBSET Int /\ IsFiniteSet(kept)
  <2>1. DOMAIN chunks = 1..Len(chunks) /\ IsFiniteSet(1..Len(chunks))
    BY FS_Interval
  <2>2. kept \in SUBSET (1..Len(chunks))
    BY <2>1
  <2>3. IsFiniteSet(kept)
    BY <2>1, <2>2, FS_Subset
  <2> QED
    BY <2>2, <2>3
<1>2. n \in Nat /\ \A k \in 1..n : \E i \in kept : Cardinality({j \in kept : j <= i}) = k
  <2> HIDE DEF kept
  <2> QED
    BY <1>1, Ranks
<1>3. ASSUME NEW k \in 1..n PROVE Nth(kept, k) \in kept /\ Cardinality({j \in kept : j <= Nth(kept, k)}) = k
  <2> HIDE DEF kept
  <2> QED
    BY <1>2 DEF Nth
<1>4. ReplayAfter(a) = [k \in 1..n |-> chunks[Nth(kept, k)]]
  BY DEF ReplayAfter
<1>5. \A i \in kept : i \in DOMAIN chunks /\ chunks[i] \in Nat /\ chunks[i] > a
  OBVIOUS
<1> HIDE DEF kept, n
<1>6. ReplayAfter(a) \in Seq(Nat)
  <2>1. \A k \in 1..n : chunks[Nth(kept, k)] \in Nat
    BY <1>3, <1>5
  <2>2. ReplayAfter(a) \in [1..n -> Nat]
    BY <1>4, <2>1
  <2>3. n \in Nat
    BY <1>2
  <2>4. \A f \in [1..n -> Nat] : f \in Seq(Nat)
    BY <2>3
  <2> QED
    BY <2>2, <2>4
<1>7. DOMAIN ReplayAfter(a) = 1..n /\ \A k \in 1..n : ReplayAfter(a)[k] = chunks[Nth(kept, k)]
  BY <1>4
<1>8. Once(ReplayAfter(a))
  <2> SUFFICES ASSUME NEW k \in 1..n, NEW m \in 1..n, ReplayAfter(a)[k] = ReplayAfter(a)[m]
               PROVE  k = m
    BY <1>7 DEF Once
  <2>1. Nth(kept, k) = Nth(kept, m)
    BY <1>3, <1>5, <1>7 DEF Once
  <2> QED
    BY <1>3, <2>1
<1>9. \A s \in ToSet(ReplayAfter(a)) : s \in ToSet(chunks) /\ s > a
  BY <1>3, <1>5, <1>7 DEF ToSet
<1> QED
  BY <1>6, <1>8, <1>9

(* The cursor after a replay counts what it was and all that was read. *)
LEMMA CursorCounts ==
    ASSUME NEW c, cursor[c] \in Int, NEW s \in Seq(Nat)
    PROVE  /\ CursorAfter(c, s) \in {cursor[c]} \cup ToSet(s)
           /\ CursorAfter(c, s) >= cursor[c]
           /\ \A x \in ToSet(s) : x <= CursorAfter(c, s)
           /\ CursorAfter(c, s) \in Int
<1>1. IsFiniteSet(ToSet(s)) /\ ToSet(s) \subseteq Nat
  BY FiniteToSet
<1>2. IsFiniteSet({cursor[c]} \cup ToSet(s))
  BY <1>1, FS_Singleton, FS_Union
<1>3. {cursor[c]} \cup ToSet(s) \in SUBSET Int /\ {cursor[c]} \cup ToSet(s) # {}
  BY <1>1
<1>4. /\ Max({cursor[c]} \cup ToSet(s)) \in {cursor[c]} \cup ToSet(s)
      /\ \A x \in {cursor[c]} \cup ToSet(s) : x <= Max({cursor[c]} \cup ToSet(s))
  BY <1>2, <1>3, MaxOf
<1> QED
  BY <1>3, <1>4 DEF CursorAfter

LEMMA CursorMoves ==
    ASSUME NEW c, cursor[c] \in Int, NEW s \in Nat
    PROVE  /\ CursorFromChunk(c, s) \in {cursor[c], s}
           /\ CursorFromChunk(c, s) >= cursor[c]
<1>1. IsFiniteSet({cursor[c], s}) /\ {cursor[c], s} \in SUBSET Int /\ {cursor[c], s} # {}
  <2>1. IsFiniteSet({cursor[c]} \cup {s})
    BY FS_Singleton, FS_Union
  <2>2. {cursor[c]} \cup {s} = {cursor[c], s}
    OBVIOUS
  <2> QED
    BY <2>1, <2>2
<1>2. /\ Max({cursor[c], s}) \in {cursor[c], s}
      /\ \A x \in {cursor[c], s} : x <= Max({cursor[c], s})
  BY <1>1, MaxOf
<1> QED
  BY <1>1, <1>2 DEF CursorFromChunk

(* Queues: what is in them after a push and after a pop. *)
LEMMA PushFacts ==
    ASSUME NEW T, NEW s \in Seq(T), NEW x \in T
    PROVE  /\ ToSet(Append(s, x)) = ToSet(s) \cup {x}
           /\ Once(s) /\ (x \in Nat => x \notin ToSet(s)) => Once(Append(s, x))
<1>1. DOMAIN Append(s, x) = 1..(Len(s) + 1) /\ DOMAIN s = 1..Len(s)
  OBVIOUS
<1>2. \A i \in 1..(Len(s) + 1) : Append(s, x)[i] = IF i = Len(s) + 1 THEN x ELSE s[i]
  OBVIOUS
<1>3. ToSet(Append(s, x)) = ToSet(s) \cup {x}
  BY <1>1, <1>2 DEF ToSet
<1>4. ASSUME Once(s), x \in Nat => x \notin ToSet(s) PROVE Once(Append(s, x))
  BY <1>1, <1>2, <1>4 DEF Once, ToSet
<1> QED
  BY <1>3, <1>4

LEMMA PopFacts ==
    ASSUME NEW T, NEW s \in Seq(T), s # <<>>
    PROVE  /\ Head(s) \in ToSet(s) /\ Head(s) \in T /\ Tail(s) \in Seq(T)
           /\ ToSet(Tail(s)) \subseteq ToSet(s)
           /\ Once(s) => Once(Tail(s)) /\ (Head(s) \in Nat => Head(s) \notin ToSet(Tail(s)))
<1>1. /\ DOMAIN s = 1..Len(s) /\ Len(s) \in Nat \ {0}
      /\ DOMAIN Tail(s) = 1..(Len(s) - 1) /\ Tail(s) \in Seq(T)
      /\ \A i \in 1..(Len(s) - 1) : Tail(s)[i] = s[i + 1] /\ i + 1 \in DOMAIN s
  OBVIOUS
<1>2. Head(s) = s[1] /\ 1 \in DOMAIN s
  BY <1>1
<1>3. ToSet(Tail(s)) \subseteq ToSet(s) /\ Head(s) \in ToSet(s) /\ Head(s) \in T
  BY <1>1, <1>2 DEF ToSet
<1>4. ASSUME Once(s) PROVE Once(Tail(s))
  BY <1>1, <1>4 DEF Once
<1>5. ASSUME Once(s), Head(s) \in Nat PROVE Head(s) \notin ToSet(Tail(s))
  <2> SUFFICES ASSUME NEW i \in 1..(Len(s) - 1), s[i + 1] = s[1] PROVE FALSE
    BY <1>1, <1>2 DEF ToSet
  <2>1. i + 1 = 1
    BY <1>1, <1>2, <1>5 DEF Once
  <2> QED
    BY <2>1
<1> QED
  BY <1>1, <1>3, <1>4, <1>5
----------------------------------------------------------------------------
(* The steps.                                                               *)

(* A reader that is sent nothing, while the run only grows. *)
LEMMA Unsent ==
    ASSUME TypeOK, NEW c \in Conns, ReaderInv(c), got'[c] = got[c],
           cursor'[c] \in Int, cursor'[c] >= cursor[c], ToSet(log) \subseteq ToSet(log'),
           PendingInv(c)', InboxInv(c)',
           \A s \in ToSet(pending'[c]) : s \in ToSet(pending[c]) \/ (s \in Nat /\ s > cursor[c]),
           \A s \in ToSet(log) : s \in ToSet(inbox'[c]) => s \in ToSet(inbox[c])
    PROVE  ReaderInv(c)'
<1>1. PICK A \in SUBSET DOMAIN got[c] : SplitBy(c, A)
  BY DEF ReaderInv
<1>2. got[c] \in Seq(Nat) /\ cursor[c] \in Int
  BY DEF TypeOK
<1>3. ASSUME NEW i \in A PROVE got[c][i] <= cursor'[c] /\ got[c][i] \notin ToSet(pending'[c])
  <2>1. got[c][i] \in Nat /\ got[c][i] <= cursor[c] /\ got[c][i] \notin ToSet(pending[c])
    BY <1>1, <1>2 DEF SplitBy
  <2> QED
    BY <1>2, <2>1
<1>4. SplitBy(c, A)'
  BY <1>1, <1>3 DEF SplitBy
<1> QED
  BY <1>4 DEF ReaderInv

(* A reader that a step does not touch. *)
LEMMA Untouched ==
    ASSUME TypeOK, NEW c \in Conns, ReaderInv(c), UNCHANGED log,
           UNCHANGED <<got[c], cursor[c], pending[c], inbox[c]>>
    PROVE  ReaderInv(c)'
BY DEF ReaderInv, PendingInv, InboxInv, SplitBy

(* What the steps of one reader have in common. *)
LEMMA ReaderStep ==
    ASSUME IInv, NEW c \in Conns, UNCHANGED <<seq, chunks, writer, log, expired>>,
           \A d \in Conns \ {c} : UNCHANGED <<got[d], cursor[d], pending[d], inbox[d], cpc[d]>>,
           TypeOK', ReaderInv(c)', cpc'[c] = "new" => cursor'[c] = -1
    PROVE  IInv'
<1>1. LogInv' /\ ListInv'
  BY DEF IInv, LogInv, ListInv, Once, writer
<1>2. ASSUME NEW d \in Conns, d # c PROVE ReaderInv(d)' /\ (cpc'[d] = "new" => cursor'[d] = -1)
  <2>1. UNCHANGED <<got[d], cursor[d], pending[d], inbox[d], cpc[d]>>
    BY <1>2
  <2>2. ReaderInv(d)'
    BY <2>1, Untouched DEF IInv
  <2> QED
    BY <2>1, <2>2 DEF IInv
<1> QED
  BY <1>1, <1>2 DEF IInv

(* A replay moves the cursor over what it read. *)
LEMMA ReplayStep ==
    ASSUME IInv, NEW c \in Conns, NEW p, Replay(c, p), UNCHANGED <<log, got, inbox>>
    PROVE  /\ ReaderInv(c)'
           /\ pending' \in [Conns -> Seq(Nat)] /\ cursor' \in [Conns -> Int]
           /\ cursor'[c] >= cursor[c] /\ cursor'[c] \in {-1} \cup ToSet(log)
           /\ \A d \in Conns \ {c} : UNCHANGED <<cursor[d], pending[d], cpc[d]>>
<1> DEFINE s == ReplayAfter(cursor[c])
<1>1. /\ pending \in [Conns -> Seq(Nat)] /\ cursor \in [Conns -> Int] /\ cursor[c] \in Int
      /\ cpc \in [Conns -> {"new", "open", "replayed", "attach", "tail", "polled", "behind",
                         "ending", "last", "lost", "closed", "cut", "gone"}]
      /\ cursor[c] \in {-1} \cup ToSet(log)
      /\ chunks \in Seq(Nat) /\ Once(chunks) /\ ToSet(chunks) \subseteq ToSet(log)
  BY DEF IInv, TypeOK, ListInv
<1>2. s \in Seq(Nat) /\ Once(s) /\ \A x \in ToSet(s) : x \in ToSet(chunks) /\ x > cursor[c]
  BY <1>1, ReplayReads
<1>3. /\ pending' = [pending EXCEPT ![c] = s]
      /\ cursor' = [cursor EXCEPT ![c] = CursorAfter(c, s)]
      /\ cpc' = [cpc EXCEPT ![c] = p]
  BY DEF Replay
<1> HIDE DEF s
<1>4. /\ CursorAfter(c, s) \in {cursor[c]} \cup ToSet(s) /\ CursorAfter(c, s) >= cursor[c]
      /\ CursorAfter(c, s) \in Int
      /\ \A x \in ToSet(s) : x <= CursorAfter(c, s)
  BY <1>1, <1>2, CursorCounts
<1>5. pending'[c] = s /\ cursor'[c] = CursorAfter(c, s)
  BY <1>1, <1>3
<1>6. \A d \in Conns \ {c} : UNCHANGED <<cursor[d], pending[d], cpc[d]>>
  BY <1>1, <1>3
<1>7. pending' \in [Conns -> Seq(Nat)] /\ cursor' \in [Conns -> Int]
  BY <1>1, <1>2, <1>3, <1>4
<1>8. cursor'[c] \in {-1} \cup ToSet(log)
  BY <1>1, <1>2, <1>4, <1>5
<1>9. ReaderInv(c)'
  <2>1. PendingInv(c)'
    BY <1>2, <1>4, <1>5 DEF PendingInv
  <2>2. InboxInv(c)'
    BY DEF IInv, ReaderInv, InboxInv
  <2>3. \A x \in ToSet(s) : x \in Nat /\ x > cursor[c]
    BY <1>2, FiniteToSet
  <2> QED
    BY <1>4, <1>5, <2>1, <2>2, <2>3, Unsent DEF IInv
<1> QED
  BY <1>4, <1>5, <1>6, <1>7, <1>8, <1>9

LEMMA ReplaysStep ==
    ASSUME IInv, NEW c \in Conns, FirstReplay(c) \/ CatchUp(c) \/ LastReplay(c)
    PROVE  IInv'
<1>1. PICK p \in {"replayed", "tail", "last", "lost"} : Replay(c, p)
  BY DEF FirstReplay, CatchUp, LastReplay
<1>2. UNCHANGED <<keys, writer, after, got, inbox, run>>
      /\ late' \in [Conns -> BOOLEAN] /\ joined' \in [Conns -> BOOLEAN]
  BY DEF FirstReplay, CatchUp, LastReplay, IInv, TypeOK
<1>3. /\ ReaderInv(c)'
      /\ pending' \in [Conns -> Seq(Nat)] /\ cursor' \in [Conns -> Int]
      /\ cursor'[c] >= cursor[c] /\ cursor'[c] \in {-1} \cup ToSet(log)
      /\ \A d \in Conns \ {c} : UNCHANGED <<cursor[d], pending[d], cpc[d]>>
  BY <1>1, <1>2, ReplayStep DEF run
<1>4. cpc' = [cpc EXCEPT ![c] = p]
  BY <1>1 DEF Replay
<1>5. TypeOK'
  <2>1. cpc' \in [Conns -> {"new", "open", "replayed", "attach", "tail", "polled", "behind",
                         "ending", "last", "lost", "closed", "cut", "gone"}]
    BY <1>1, <1>4 DEF IInv, TypeOK
  <2>2. ASSUME NEW d \in Conns
        PROVE  after'[d] \in -1..cursor'[d] /\ cursor'[d] \in {-1} \cup ToSet(log')
    <3>1. after'[d] = after[d] /\ log' = log /\ after[d] \in -1..cursor[d] /\ cursor[d] \in Int
      BY <1>2 DEF run, IInv, TypeOK
    <3>2. CASE d = c
      BY <1>3, <3>1, <3>2
    <3>3. CASE d # c
      BY <1>3, <3>1, <3>3 DEF IInv, TypeOK
    <3> QED
      BY <3>2, <3>3
  <2> QED
    BY <1>2, <1>3, <2>1, <2>2 DEF IInv, TypeOK, keys, writer, run
<1>6. cpc'[c] # "new"
  BY <1>1, <1>4 DEF IInv, TypeOK
<1> QED
  BY <1>2, <1>3, <1>5, <1>6, ReaderStep DEF keys, run

(* The client names a chunk it has, or none. *)
LEMMA OpenStep ==
    ASSUME IInv, NEW c \in Conns, Open(c)
    PROVE  IInv'
<1>1. PICK a \in {-1} \cup ToSet(log) : after' = [after EXCEPT ![c] = a] /\ cursor' = [cursor EXCEPT ![c] = a]
  BY DEF Open
<1>2. /\ cursor \in [Conns -> Int] /\ after \in [Conns -> Int] /\ cursor[c] = -1
      /\ cpc \in [Conns -> {"new", "open", "replayed", "attach", "tail", "polled", "behind",
                         "ending", "last", "lost", "closed", "cut", "gone"}]
      /\ ToSet(log) \subseteq Nat
  BY FiniteToSet DEF IInv, TypeOK, Open
<1>3. a \in Int /\ a >= -1
  BY <1>2
<1>4. cpc' = [cpc EXCEPT ![c] = "open"] /\ UNCHANGED <<keys, writer, pending, got, late, joined, inbox, run>>
  BY DEF Open
<1>5. cursor'[c] = a /\ after'[c] = a
  BY <1>1, <1>2
<1>6. TypeOK'
  <2>1. cpc' \in [Conns -> {"new", "open", "replayed", "attach", "tail", "polled", "behind",
                         "ending", "last", "lost", "closed", "cut", "gone"}]
    BY <1>2, <1>4
  <2>2. cursor' \in [Conns -> Int] /\ after' \in [Conns -> Int]
    BY <1>1, <1>2, <1>3
  <2>3. ASSUME NEW d \in Conns
        PROVE  after'[d] \in -1..cursor'[d] /\ cursor'[d] \in {-1} \cup ToSet(log')
    <3>1. CASE d = c
      BY <1>3, <1>4, <1>5, <3>1 DEF run
    <3>2. CASE d # c
      BY <1>1, <1>2, <1>4, <3>2 DEF run, IInv, TypeOK
    <3> QED
      BY <3>1, <3>2
  <2> QED
    BY <1>4, <2>1, <2>2, <2>3 DEF IInv, TypeOK, keys, writer, run
<1>7. ReaderInv(c)'
  <2>1. PendingInv(c)'
    <3>1. pending[c] \in Seq(Nat)
      BY DEF IInv, TypeOK
    <3>2. ToSet(pending[c]) \subseteq Nat
      BY <3>1, FiniteToSet
    <3> QED
      BY <1>2, <1>3, <1>4, <1>5, <3>2 DEF IInv, ReaderInv, PendingInv
  <2>2. InboxInv(c)'
    BY <1>4 DEF IInv, ReaderInv, InboxInv, run
  <2> QED
    BY <1>2, <1>3, <1>4, <1>5, <2>1, <2>2, Unsent DEF IInv, run
<1>8. \A d \in Conns \ {c} : UNCHANGED <<got[d], cursor[d], pending[d], inbox[d], cpc[d]>>
  BY <1>1, <1>2, <1>4
<1>9. cpc'[c] # "new"
  BY <1>2, <1>4
<1> QED
  BY <1>4, <1>6, <1>7, <1>8, <1>9, ReaderStep DEF keys, run

(* Steps that send nothing and leave the cursor: the channel is opened, read   *)
(* past what is no chunk, or closed.                                         *)
LEMMA QuietStep ==
    ASSUME IInv, NEW c \in Conns,
           \/ FirstMeta(c) \/ Attach(c) \/ ReceiveDone(c) \/ ReceiveNothing(c)
           \/ Poll(c) \/ End(c) \/ Disconnect(c)
    PROVE  IInv'
<1> DEFINE box == inbox'[c]
<1>1. /\ inbox \in [Conns -> Seq(Nat \cup {Nothing, DoneMsg})] /\ pending \in [Conns -> Seq(Nat)]
      /\ cursor \in [Conns -> Int]
      /\ cpc \in [Conns -> {"new", "open", "replayed", "attach", "tail", "polled", "behind",
                         "ending", "last", "lost", "closed", "cut", "gone"}]
      /\ inbox[c] \in Seq(Nat \cup {Nothing, DoneMsg})
      /\ ToSet(log) \subseteq Nat
  BY FiniteToSet DEF IInv, TypeOK
<1>2. UNCHANGED <<keys, writer, cursor, after, got, late, joined, run>>
  BY DEF FirstMeta, Attach, ReceiveDone, ReceiveNothing, Poll, End, Disconnect
<1>3. PICK p \in {"closed", "attach", "cut", "tail", "ending", "polled", "behind", "gone"} :
          cpc' = [cpc EXCEPT ![c] = p]
  <2>1. CASE FirstMeta(c) \/ Poll(c)
    BY <2>1 DEF FirstMeta, Poll
  <2>2. CASE Attach(c) \/ ReceiveDone(c) \/ ReceiveNothing(c) \/ Disconnect(c)
    BY <2>2 DEF Attach, ReceiveDone, ReceiveNothing, Disconnect
  <2>3. CASE End(c)
    <3>1. cpc' = [cpc EXCEPT ![c] = IF cpc[c] = "last" THEN "closed" ELSE "cut"]
      BY <2>3 DEF End
    <3> QED
      BY <3>1
  <2> QED
    BY <2>1, <2>2, <2>3
<1>4. PICK q : q \in {pending[c], <<>>} /\ pending' = [pending EXCEPT ![c] = q]
  <2>1. CASE Disconnect(c)
    BY <2>1 DEF Disconnect
  <2>2. CASE ~Disconnect(c)
    <3>1. pending' = pending
      BY <2>2 DEF FirstMeta, Attach, ReceiveDone, ReceiveNothing, Poll, End
    <3> QED
      BY <1>1, <3>1
  <2> QED
    BY <2>1, <2>2
<1>5. PICK b : /\ b = inbox[c] \/ b = <<>> \/ b = <<Nothing>> \/ (inbox[c] # <<>> /\ b = Tail(inbox[c]))
               /\ inbox' = [inbox EXCEPT ![c] = b]
  <2>1. CASE FirstMeta(c) \/ Poll(c)
    <3>1. inbox' = inbox
      BY <2>1 DEF FirstMeta, Poll
    <3> QED
      BY <1>1, <3>1
  <2>2. CASE Attach(c)
    BY <2>2 DEF Attach
  <2>3. CASE ReceiveDone(c)
    <3>1. inbox[c] # <<>>
      BY <2>3 DEF ReceiveDone, Message, Nothing, DoneMsg
    <3> QED
      BY <2>3, <3>1 DEF ReceiveDone
  <2>4. CASE ReceiveNothing(c)
    BY <2>4 DEF ReceiveNothing
  <2>5. CASE End(c) \/ Disconnect(c)
    BY <2>5 DEF End, Disconnect
  <2> QED
    BY <2>1, <2>2, <2>3, <2>4, <2>5
<1>6. inbox'[c] = b /\ pending'[c] = q /\ cpc'[c] = p
  BY <1>1, <1>3, <1>4, <1>5
<1>7. /\ b \in Seq(Nat \cup {Nothing, DoneMsg}) /\ Once(b)
      /\ ToSet(b) \subseteq ToSet(inbox[c]) \cup {Nothing}
  <2>1. CASE b = inbox[c]
    BY <1>1, <2>1 DEF IInv, ReaderInv, InboxInv
  <2>2. CASE b = <<>>
    BY <2>2 DEF Once, ToSet
  <2>3. CASE b = <<Nothing>>
    <3>1. b \in Seq({Nothing}) /\ Len(b) = 1 /\ b[1] = Nothing /\ DOMAIN b = {1}
      BY <2>3
    <3>2. Once(b)
      BY <3>1 DEF Once
    <3>3. ToSet(b) = {Nothing}
      BY <3>1 DEF ToSet
    <3>4. b \in Seq(Nat \cup {Nothing, DoneMsg})
      BY <2>3
    <3> QED
      BY <3>2, <3>3, <3>4
  <2>4. CASE inbox[c] # <<>> /\ b = Tail(inbox[c])
    <3>1. Once(inbox[c])
      BY DEF IInv, ReaderInv, InboxInv
    <3> QED
      BY <1>1, <2>4, <3>1, PopFacts
  <2> QED
    BY <1>5, <2>1, <2>2, <2>3, <2>4
<1>8. q \in Seq(Nat) /\ Once(q) /\ ToSet(q) \subseteq ToSet(pending[c])
  <2>1. CASE q = pending[c]
    BY <1>1, <2>1 DEF IInv, ReaderInv, PendingInv
  <2>2. CASE q = <<>>
    BY <2>2 DEF Once, ToSet
  <2> QED
    BY <1>4, <2>1, <2>2
<1>9. TypeOK'
  <2>1. cpc' \in [Conns -> {"new", "open", "replayed", "attach", "tail", "polled", "behind",
                         "ending", "last", "lost", "closed", "cut", "gone"}]
    BY <1>1, <1>3
  <2>2. inbox' \in [Conns -> Seq(Nat \cup {Nothing, DoneMsg})] /\ pending' \in [Conns -> Seq(Nat)]
    BY <1>1, <1>4, <1>5, <1>7, <1>8
  <2> QED
    BY <1>2, <2>1, <2>2 DEF IInv, TypeOK, keys, writer, run
<1>10. ReaderInv(c)'
  <2>1. PendingInv(c)'
    BY <1>2, <1>6, <1>8 DEF IInv, ReaderInv, PendingInv
  <2>2. InboxInv(c)'
    BY <1>2, <1>6, <1>7 DEF IInv, ReaderInv, InboxInv, run
  <2>3. \A s \in ToSet(log) : s \in ToSet(inbox'[c]) => s \in ToSet(inbox[c])
    BY <1>1, <1>6, <1>7 DEF Nothing
  <2>4. got'[c] = got[c] /\ cursor'[c] = cursor[c] /\ log' = log /\ cursor[c] \in Int
    BY <1>1, <1>2 DEF run
  <2>5. cursor'[c] \in Int /\ cursor'[c] >= cursor[c]
    BY <2>4
  <2>6. \A s \in ToSet(pending'[c]) : s \in ToSet(pending[c])
    BY <1>6, <1>8
  <2>7. TypeOK /\ ReaderInv(c)
    BY DEF IInv
  <2> QED
    BY <2>1, <2>2, <2>3, <2>4, <2>5, <2>6, <2>7, Unsent
<1>11. \A d \in Conns \ {c} : UNCHANGED <<got[d], cursor[d], pending[d], inbox[d], cpc[d]>>
  BY <1>1, <1>2, <1>3, <1>4, <1>5
<1>12. cpc'[c] # "new"
  BY <1>6
<1> QED
  BY <1>2, <1>9, <1>10, <1>11, <1>12, ReaderStep DEF keys, run
(* A chunk is sent from the list: A gets the new position. *)
LEMMA SendStep ==
    ASSUME IInv, NEW c \in Conns, Send(c)
    PROVE  IInv'
<1> DEFINE h == Head(pending[c])
           n == Len(got[c])
<1>1. /\ pending \in [Conns -> Seq(Nat)] /\ got \in [Conns -> Seq(Nat)]
      /\ pending[c] \in Seq(Nat) /\ got[c] \in Seq(Nat) /\ pending[c] # <<>>
      /\ cursor[c] \in Int
  BY DEF IInv, TypeOK, Send
<1>2. /\ got' = [got EXCEPT ![c] = Append(got[c], h)]
      /\ pending' = [pending EXCEPT ![c] = Tail(pending[c])]
      /\ UNCHANGED <<keys, writer, cpc, cursor, after, late, joined, inbox, run>>
  BY DEF Send
<1>3. PICK A \in SUBSET DOMAIN got[c] : SplitBy(c, A)
  BY DEF IInv, ReaderInv
<1>4. /\ h \in ToSet(pending[c]) /\ h \in Nat /\ Tail(pending[c]) \in Seq(Nat)
      /\ ToSet(Tail(pending[c])) \subseteq ToSet(pending[c])
      /\ Once(Tail(pending[c])) /\ h \notin ToSet(Tail(pending[c]))
      /\ h <= cursor[c]
  BY <1>1, PopFacts DEF IInv, ReaderInv, PendingInv
<1> HIDE DEF h
<1>5. got'[c] = Append(got[c], h) /\ pending'[c] = Tail(pending[c])
  BY <1>1, <1>2
<1>6. /\ n \in Nat /\ DOMAIN got[c] = 1..n /\ DOMAIN got'[c] = 1..(n + 1)
      /\ got'[c][n + 1] = h
      /\ \A i \in 1..n : got'[c][i] = got[c][i]
  BY <1>1, <1>4, <1>5
<1>7. TypeOK'
  <2>1. got' \in [Conns -> Seq(Nat)] /\ pending' \in [Conns -> Seq(Nat)]
    <3>1. Append(got[c], h) \in Seq(Nat)
      BY <1>1, <1>4
    <3> QED
      BY <1>1, <1>2, <1>4, <3>1
  <2> QED
    BY <1>2, <2>1 DEF IInv, TypeOK, keys, writer, run
<1>8. ReaderInv(c)'
  <2>1. PendingInv(c)'
    BY <1>2, <1>4, <1>5 DEF IInv, ReaderInv, PendingInv
  <2>2. InboxInv(c)'
    BY <1>2 DEF IInv, ReaderInv, InboxInv, run
  <2> HIDE DEF n
  <2> PICK A1 : A1 = A \cup {n + 1}
    OBVIOUS
  <2>3. A1 \in SUBSET DOMAIN got'[c] /\ A \subseteq 1..n /\ n + 1 \notin A
    BY <1>3, <1>6
  <2>4. DOMAIN got'[c] \ A1 = DOMAIN got[c] \ A
    BY <1>6, <2>3
  <2>5. ASSUME NEW i \in A PROVE got'[c][i] = got[c][i] /\ got[c][i] # h
    BY <1>3, <1>4, <1>6, <2>3 DEF SplitBy
  <2>6. SplitBy(c, A1)'
    <3>1. \A i, j \in A1 : got'[c][i] = got'[c][j] => i = j
      BY <1>3, <1>6, <2>5 DEF SplitBy
    <3>2. \A i, j \in DOMAIN got[c] \ A : got'[c][i] = got'[c][j] => i = j
      BY <1>3, <1>6 DEF SplitBy
    <3>3. \A i \in A1 : got'[c][i] <= cursor'[c] /\ got'[c][i] \notin ToSet(pending'[c])
      BY <1>2, <1>3, <1>4, <1>5, <1>6, <2>5 DEF SplitBy
    <3>4. \A i \in DOMAIN got[c] \ A : got'[c][i] \in ToSet(log') /\ got'[c][i] \notin ToSet(inbox'[c])
      BY <1>2, <1>3, <1>6 DEF SplitBy, run
    <3> QED
      BY <2>4, <3>1, <3>2, <3>3, <3>4 DEF SplitBy
  <2> QED
    BY <2>1, <2>2, <2>3, <2>6 DEF ReaderInv
<1>9. \A d \in Conns \ {c} : UNCHANGED <<got[d], cursor[d], pending[d], inbox[d], cpc[d]>>
  BY <1>1, <1>2
<1>10. cpc'[c] = "new" => cursor'[c] = -1
  BY <1>2 DEF IInv
<1> QED
  BY <1>2, <1>7, <1>8, <1>9, <1>10, ReaderStep DEF keys, run

(* A chunk is sent from the channel: the new position is not in A. *)
LEMMA ReceiveChunkStep ==
    ASSUME IInv, NEW c \in Conns, ReceiveChunk(c)
    PROVE  IInv'
<1> DEFINE m == Head(inbox[c])
           n == Len(got[c])
           k == CursorFromChunk(c, m)
<1>1. /\ inbox \in [Conns -> Seq(Nat \cup {Nothing, DoneMsg})] /\ got \in [Conns -> Seq(Nat)]
      /\ inbox[c] \in Seq(Nat \cup {Nothing, DoneMsg}) /\ got[c] \in Seq(Nat)
      /\ cursor \in [Conns -> Int] /\ cursor[c] \in Int
      /\ ToSet(log) \subseteq Nat
      /\ cursor[c] \in {-1} \cup ToSet(log) /\ after[c] \in -1..cursor[c]
  BY FiniteToSet DEF IInv, TypeOK
<1>2. inbox[c] # <<>> /\ Message(c) = m /\ m \notin {Nothing, DoneMsg}
  BY DEF ReceiveChunk, Message
<1>3. /\ got' = [got EXCEPT ![c] = Append(got[c], m)]
      /\ cursor' = [cursor EXCEPT ![c] = k]
      /\ inbox' = [inbox EXCEPT ![c] = Tail(inbox[c])]
      /\ UNCHANGED <<keys, writer, cpc, pending, after, late, joined, run>>
  BY <1>2 DEF ReceiveChunk
<1>4. PICK A \in SUBSET DOMAIN got[c] : SplitBy(c, A)
  BY DEF IInv, ReaderInv
<1>5. /\ m \in ToSet(inbox[c]) /\ Tail(inbox[c]) \in Seq(Nat \cup {Nothing, DoneMsg})
      /\ ToSet(Tail(inbox[c])) \subseteq ToSet(inbox[c])
      /\ Once(Tail(inbox[c])) /\ (m \in Nat => m \notin ToSet(Tail(inbox[c])))
  BY <1>1, <1>2, PopFacts DEF IInv, ReaderInv, InboxInv
<1>6. m \in ToSet(log) /\ m \in Nat
  BY <1>1, <1>2, <1>5 DEF IInv, ReaderInv, InboxInv
<1> HIDE DEF m
<1>7. k \in {cursor[c], m} /\ k >= cursor[c] /\ k \in Int
  BY <1>1, <1>6, CursorMoves
<1> HIDE DEF k
<1>8. got'[c] = Append(got[c], m) /\ cursor'[c] = k /\ inbox'[c] = Tail(inbox[c])
      /\ pending'[c] = pending[c] /\ log' = log
  BY <1>1, <1>3 DEF run
<1>9. /\ n \in Nat /\ DOMAIN got[c] = 1..n /\ DOMAIN got'[c] = 1..(n + 1)
      /\ got'[c][n + 1] = m
      /\ \A i \in 1..n : got'[c][i] = got[c][i] /\ got[c][i] \in Nat
  BY <1>1, <1>6, <1>8
<1>10. TypeOK'
  <2>1. got' \in [Conns -> Seq(Nat)]
    <3>1. Append(got[c], m) \in Seq(Nat)
      BY <1>1, <1>6
    <3> QED
      BY <1>1, <1>3, <3>1
  <2>2. cursor' \in [Conns -> Int] /\ inbox' \in [Conns -> Seq(Nat \cup {Nothing, DoneMsg})]
    BY <1>1, <1>3, <1>5, <1>7
  <2>3. ASSUME NEW d \in Conns
        PROVE  after'[d] \in -1..cursor'[d] /\ cursor'[d] \in {-1} \cup ToSet(log')
    <3>1. CASE d = c
      BY <1>1, <1>3, <1>6, <1>7, <1>8, <3>1
    <3>2. CASE d # c
      BY <1>1, <1>3, <1>8, <3>2 DEF IInv, TypeOK
    <3> QED
      BY <3>1, <3>2
  <2> QED
    BY <1>3, <2>1, <2>2, <2>3 DEF IInv, TypeOK, keys, writer, run
<1>11. ReaderInv(c)'
  <2>1. PendingInv(c)'
    <3>1. pending[c] \in Seq(Nat) /\ ToSet(pending[c]) \subseteq Nat
      BY FiniteToSet DEF IInv, TypeOK
    <3>2. Once(pending[c]) /\ \A s \in ToSet(pending[c]) : s <= cursor[c]
      BY DEF IInv, ReaderInv, PendingInv
    <3>3. \A s \in ToSet(pending[c]) : s <= k
      BY <1>1, <1>7, <3>1, <3>2
    <3> QED
      BY <1>8, <3>2, <3>3 DEF PendingInv
  <2>2. InboxInv(c)'
    BY <1>5, <1>8 DEF IInv, ReaderInv, InboxInv
  <2> HIDE DEF n
  <2>3. A \in SUBSET DOMAIN got'[c] /\ A \subseteq 1..n /\ n + 1 \notin A
    BY <1>4, <1>9
  <2>4. DOMAIN got'[c] \ A = (DOMAIN got[c] \ A) \cup {n + 1}
    BY <1>9, <2>3
  <2>5. ASSUME NEW i \in DOMAIN got[c] \ A PROVE got'[c][i] = got[c][i] /\ got[c][i] # m
    BY <1>4, <1>5, <1>9 DEF SplitBy
  <2>6. SplitBy(c, A)'
    <3>1. \A i, j \in A : got'[c][i] = got'[c][j] => i = j
      BY <1>4, <1>9, <2>3 DEF SplitBy
    <3>2. \A i, j \in (DOMAIN got[c] \ A) \cup {n + 1} : got'[c][i] = got'[c][j] => i = j
      BY <1>4, <1>9, <2>5 DEF SplitBy
    <3>3. ASSUME NEW i \in A PROVE got'[c][i] <= cursor'[c] /\ got'[c][i] \notin ToSet(pending'[c])
      <4>1. got'[c][i] = got[c][i] /\ got[c][i] \in Nat
        BY <1>9, <2>3
      <4>2. got[c][i] <= cursor[c] /\ got[c][i] \notin ToSet(pending[c])
        BY <1>4 DEF SplitBy
      <4> QED
        BY <1>1, <1>7, <1>8, <4>1, <4>2
    <3>4. \A i \in (DOMAIN got[c] \ A) \cup {n + 1} :
              got'[c][i] \in ToSet(log') /\ got'[c][i] \notin ToSet(inbox'[c])
      BY <1>4, <1>5, <1>6, <1>8, <1>9, <2>5 DEF SplitBy
    <3> QED
      BY <2>4, <3>1, <3>2, <3>3, <3>4 DEF SplitBy
  <2> QED
    BY <2>1, <2>2, <2>3, <2>6 DEF ReaderInv
<1>12. \A d \in Conns \ {c} : UNCHANGED <<got[d], cursor[d], pending[d], inbox[d], cpc[d]>>
  BY <1>1, <1>3
<1>13. cpc'[c] # "new"
  BY <1>3 DEF ReceiveChunk
<1> QED
  BY <1>3, <1>10, <1>11, <1>12, <1>13, ReaderStep DEF keys, run
(* What the steps that no reader takes have in common. *)
LEMMA WriterStep ==
    ASSUME IInv, UNCHANGED reader, TypeOK', LogInv', ListInv',
           ToSet(log) \subseteq ToSet(log'),
           \A c \in Conns : InboxInv(c)',
           \A c \in Conns : \A s \in ToSet(log) : s \in ToSet(inbox'[c]) => s \in ToSet(inbox[c])
    PROVE  IInv'
<1>1. ASSUME NEW c \in Conns PROVE ReaderInv(c)' /\ (cpc'[c] = "new" => cursor'[c] = -1)
  <2>1. got'[c] = got[c] /\ cursor'[c] = cursor[c] /\ pending'[c] = pending[c] /\ cpc'[c] = cpc[c]
    BY DEF reader
  <2>2. cursor[c] \in Int
    BY DEF IInv, TypeOK
  <2>3. PendingInv(c)'
    BY <2>1 DEF IInv, ReaderInv, PendingInv
  <2>4. cursor'[c] \in Int /\ cursor'[c] >= cursor[c]
    BY <2>1, <2>2
  <2>5. ReaderInv(c)'
    BY <2>1, <2>3, <2>4, Unsent DEF IInv
  <2> QED
    BY <2>1, <2>5 DEF IInv
<1> QED
  BY <1>1 DEF IInv

(* Steps of a worker that the list and the channel do not show. *)
LEMMA HiddenStep ==
    ASSUME IInv, NEW w \in Workers,
           \/ AppendCheck(w) \/ AppendNumber(w)
           \/ FinishMark(w) \/ FinishLoad(w) \/ FinishSave(w) \/ Crash(w)
    PROVE  IInv'
<1>1. UNCHANGED <<chunks, reader, inbox, log, expired>>
  BY DEF AppendCheck, AppendNumber, FinishMark, FinishLoad, FinishSave, Crash, keys, run
<1>2. TypeOK'
  <2>1. wpc' \in [Workers -> {"idle", "number", "push", "load", "save", "publish",
                           "finished", "dead"}]
    BY DEF AppendCheck, AppendNumber, FinishMark, FinishLoad, FinishSave, Crash, IInv, TypeOK
  <2>2. /\ seq' \in Nat /\ num' \in [Workers -> Nat] /\ doneCached' \in [Workers -> BOOLEAN]
        /\ doneKey' \in BOOLEAN /\ over' \in BOOLEAN /\ meta' \in {"none", "running", "done"}
    <3>1. CASE AppendCheck(w)
      BY <3>1 DEF AppendCheck, IInv, TypeOK, keys, run
    <3>2. CASE AppendNumber(w)
      BY <3>2 DEF AppendNumber, IInv, TypeOK, run
    <3>3. CASE FinishMark(w)
      BY <3>3 DEF FinishMark, IInv, TypeOK
    <3>4. CASE FinishLoad(w) \/ FinishSave(w) \/ Crash(w)
      BY <3>4 DEF FinishLoad, FinishSave, Crash, IInv, TypeOK, keys, run
    <3> QED
      BY <3>1, <3>2, <3>3, <3>4
  <2> QED
    BY <1>1, <2>1, <2>2 DEF IInv, TypeOK, reader
<1>3. LogInv'
  <2>1. CASE AppendNumber(w)
    <3>1. /\ wpc \in [Workers -> {"idle", "number", "push", "load", "save", "publish",
                           "finished", "dead"}]
          /\ num \in [Workers -> Nat] /\ seq \in Nat /\ ~expired
          /\ ToSet(log) \subseteq Nat
      BY <2>1, FiniteToSet DEF AppendNumber, IInv, TypeOK, LogInv
    <3>2. \A s \in ToSet(log) : s < seq
      BY <3>1 DEF IInv, LogInv
    <3>3. /\ num' = [num EXCEPT ![w] = seq] /\ seq' = seq + 1
          /\ wpc' = [wpc EXCEPT ![w] = "push"]
      BY <2>1 DEF AppendNumber
    <3>4. seq \notin ToSet(log)
      BY <3>1, <3>2
    <3>5. ASSUME NEW v \in Workers, wpc'[v] = "push"
          PROVE  num'[v] < seq' /\ num'[v] \notin ToSet(log) /\ (v # w => num'[v] < seq)
      BY <3>1, <3>3, <3>4, <3>5 DEF IInv, LogInv
    <3>6. ASSUME NEW v \in Workers, NEW u \in Workers, wpc'[v] = "push", wpc'[u] = "push",
                 num'[v] = num'[u]
          PROVE  v = u
      <4>1. CASE v # w /\ u # w
        BY <3>1, <3>3, <3>6, <4>1 DEF IInv, LogInv
      <4>2. CASE v = w \/ u = w
        BY <3>1, <3>3, <3>5, <3>6, <4>2
      <4> QED
        BY <4>1, <4>2
    <3>7. \A s \in ToSet(log) : s < seq'
      BY <3>1, <3>2, <3>3
    <3> QED
      BY <1>1, <3>1, <3>5, <3>6, <3>7 DEF LogInv
  <2>2. CASE ~AppendNumber(w)
    <3>1. UNCHANGED <<seq, num>>
      BY <2>2 DEF AppendCheck, FinishMark, FinishLoad, FinishSave, Crash, keys
    <3>2. \A v \in Workers : wpc'[v] = "push" => wpc[v] = "push"
      BY <2>2 DEF AppendCheck, FinishMark, FinishLoad, FinishSave, Crash, IInv, TypeOK
    <3>3. expired => \A v \in Workers : wpc'[v] \in {"finished", "dead"}
      BY <2>2 DEF AppendCheck, FinishMark, FinishLoad, FinishSave, Crash, IInv, TypeOK, LogInv
    <3> QED
      BY <1>1, <3>1, <3>2, <3>3 DEF IInv, LogInv
  <2> QED
    BY <2>1, <2>2
<1>4. ListInv' /\ \A c \in Conns : InboxInv(c)'
  BY <1>1 DEF IInv, ListInv, ReaderInv, InboxInv, Once
<1> QED
  BY <1>1, <1>2, <1>3, <1>4, WriterStep

(* What everyone who listens finds in the channel. *)
LEMMA PublishFacts ==
    ASSUME TypeOK, NEW m \in Nat \cup {Nothing, DoneMsg}, inbox' = Published(m)
    PROVE  /\ inbox' \in [Conns -> Seq(Nat \cup {Nothing, DoneMsg})]
           /\ \A c \in Conns :
                /\ ToSet(inbox'[c]) \subseteq ToSet(inbox[c]) \cup {m}
                /\ Once(inbox[c]) /\ (m \in Nat => m \notin ToSet(inbox[c])) => Once(inbox'[c])
<1>1. ASSUME NEW c \in Conns
      PROVE  /\ inbox[c] \in Seq(Nat \cup {Nothing, DoneMsg})
             /\ Append(inbox[c], m) \in Seq(Nat \cup {Nothing, DoneMsg})
             /\ inbox'[c] \in {inbox[c], Append(inbox[c], m)}
  BY DEF TypeOK, Published
<1>2. inbox' \in [Conns -> Seq(Nat \cup {Nothing, DoneMsg})]
  BY <1>1 DEF Published
<1>3. ASSUME NEW c \in Conns
      PROVE  /\ ToSet(inbox'[c]) \subseteq ToSet(inbox[c]) \cup {m}
             /\ Once(inbox[c]) /\ (m \in Nat => m \notin ToSet(inbox[c])) => Once(inbox'[c])
  <2>1. CASE inbox'[c] = inbox[c]
    BY <2>1
  <2>2. CASE inbox'[c] = Append(inbox[c], m)
    BY <1>1, <2>2, PushFacts
  <2> QED
    BY <1>1, <2>1, <2>2
<1> QED
  BY <1>2, <1>3

(* A chunk that is pushed is new to the list and to every channel. *)
LEMMA AppendPushStep ==
    ASSUME MaxChunksPerRun \in Nat, IInv, NEW w \in Workers, AppendPush(w)
    PROVE  IInv'
<1> DEFINE s == num[w]
<1>1. /\ wpc \in [Workers -> {"idle", "number", "push", "load", "save", "publish",
                           "finished", "dead"}]
      /\ num \in [Workers -> Nat] /\ s \in Nat /\ s \notin ToSet(log) /\ s < seq
      /\ log \in Seq(Nat) /\ chunks \in Seq(Nat) /\ Len(chunks) <= MaxChunksPerRun
      /\ Once(chunks) /\ ToSet(chunks) \subseteq ToSet(log) /\ ~expired
  BY DEF AppendPush, IInv, TypeOK, LogInv, ListInv
<1>2. /\ chunks' = Pushed(s) /\ inbox' = Published(s) /\ log' = Append(log, s)
      /\ wpc' = [wpc EXCEPT ![w] = "idle"]
      /\ UNCHANGED <<seq, doneKey, meta, doneCached, num, reader, over, expired>>
  BY DEF AppendPush
<1> HIDE DEF s
<1>3. log' \in Seq(Nat) /\ ToSet(log') = ToSet(log) \cup {s}
  <2>1. log \in Seq(Nat) /\ s \in Nat /\ log' = Append(log, s)
    BY <1>1, <1>2
  <2>2. Append(log, s) \in Seq(Nat)
    BY <2>1
  <2> QED
    BY <2>1, <2>2, PushFacts
<1>4. /\ chunks' \in Seq(Nat) /\ Len(chunks') <= MaxChunksPerRun
      /\ Once(chunks') /\ ToSet(chunks') \subseteq ToSet(log')
  <2>1. PICK l : l = Append(chunks, s)
    OBVIOUS
  <2>2. l \in Seq(Nat) /\ Len(l) = Len(chunks) + 1 /\ l # <<>>
    <3>1. chunks \in Seq(Nat) /\ s \in Nat
      BY <1>1
    <3>2. Append(chunks, s) \in Seq(Nat) /\ Len(Append(chunks, s)) = Len(chunks) + 1
      BY <3>1
    <3>3. Len(chunks) \in Nat
      BY <3>1
    <3> QED
      BY <2>1, <3>2, <3>3
  <2>3. Once(l) /\ ToSet(l) = ToSet(chunks) \cup {s}
    BY <1>1, <2>1, PushFacts
  <2>4. CASE Len(l) > MaxChunksPerRun
    <3>1. chunks' = Tail(l)
      BY <1>2, <2>1, <2>4 DEF Pushed
    <3>2. Tail(l) \in Seq(Nat) /\ ToSet(Tail(l)) \subseteq ToSet(l) /\ Once(Tail(l))
      BY <2>2, <2>3, PopFacts
    <3>3. Len(Tail(l)) = Len(chunks)
      BY <1>1, <2>2
    <3> QED
      BY <1>1, <1>3, <2>3, <3>1, <3>2, <3>3
  <2>5. CASE ~(Len(l) > MaxChunksPerRun)
    <3>1. chunks' = l
      BY <1>2, <2>1, <2>5 DEF Pushed
    <3> QED
      BY <1>1, <1>3, <2>2, <2>3, <2>5, <3>1
  <2> QED
    BY <2>4, <2>5
<1>5. /\ inbox' \in [Conns -> Seq(Nat \cup {Nothing, DoneMsg})]
      /\ \A c \in Conns :
           /\ ToSet(inbox'[c]) \subseteq ToSet(inbox[c]) \cup {s}
           /\ Once(inbox[c]) /\ (s \in Nat => s \notin ToSet(inbox[c])) => Once(inbox'[c])
  BY <1>1, <1>2, PublishFacts DEF IInv
<1>6. TypeOK'
  <2>1. wpc' \in [Workers -> {"idle", "number", "push", "load", "save", "publish",
                           "finished", "dead"}]
    BY <1>1, <1>2
  <2>2. \A c \in Conns : after'[c] \in -1..cursor'[c] /\ cursor'[c] \in {-1} \cup ToSet(log')
    BY <1>2, <1>3 DEF IInv, TypeOK, reader
  <2> QED
    BY <1>2, <1>3, <1>4, <1>5, <2>1, <2>2 DEF IInv, TypeOK, reader
<1>7. LogInv'
  <2>1. \A v \in Workers : wpc'[v] = "push" => v # w /\ wpc[v] = "push"
    BY <1>1, <1>2
  <2>2. \A v \in Workers : wpc'[v] = "push" => num[v] # s
    BY <2>1 DEF s, IInv, LogInv, AppendPush
  <2>3. \A x \in ToSet(log') : x < seq'
    BY <1>1, <1>2, <1>3 DEF IInv, LogInv
  <2>4. expired' = expired /\ num' = num /\ seq' = seq
    BY <1>2
  <2>5. \A v \in Workers : wpc'[v] = "push" => num[v] < seq /\ num[v] \notin ToSet(log')
    BY <1>3, <2>1, <2>2 DEF IInv, LogInv
  <2>6. \A v, u \in Workers : wpc'[v] = "push" /\ wpc'[u] = "push" /\ num[v] = num[u] => v = u
    BY <2>1 DEF IInv, LogInv
  <2> QED
    BY <1>1, <2>3, <2>4, <2>5, <2>6 DEF LogInv
<1>8. ASSUME NEW c \in Conns
      PROVE  InboxInv(c)' /\ \A x \in ToSet(log) : x \in ToSet(inbox'[c]) => x \in ToSet(inbox[c])
  <2>1. ToSet(inbox[c]) \subseteq ToSet(log) \cup {Nothing, DoneMsg} /\ Once(inbox[c])
    BY DEF IInv, ReaderInv, InboxInv
  <2>2. s \notin ToSet(inbox[c])
    <3>1. s # Nothing /\ s # DoneMsg
      BY <1>1 DEF Nothing, DoneMsg
    <3> QED
      BY <1>1, <2>1, <3>1
  <2>3. Once(inbox'[c]) /\ ToSet(inbox'[c]) \subseteq ToSet(inbox[c]) \cup {s}
    BY <1>5, <2>1, <2>2
  <2> QED
    BY <1>1, <1>3, <2>1, <2>3 DEF InboxInv
<1> QED
  BY <1>2, <1>3, <1>4, <1>6, <1>7, <1>8, WriterStep DEF ListInv

LEMMA FinishPublishStep ==
    ASSUME IInv, NEW w \in Workers, FinishPublish(w)
    PROVE  IInv'
<1>1. /\ inbox' = Published(DoneMsg) /\ wpc' = [wpc EXCEPT ![w] = "finished"]
      /\ UNCHANGED <<keys, doneCached, num, reader, run>>
  BY DEF FinishPublish
<1>2. ToSet(log) \subseteq Nat
  BY FiniteToSet DEF IInv, TypeOK
<1>3. /\ inbox' \in [Conns -> Seq(Nat \cup {Nothing, DoneMsg})]
      /\ \A c \in Conns :
           /\ ToSet(inbox'[c]) \subseteq ToSet(inbox[c]) \cup {DoneMsg}
           /\ Once(inbox[c]) /\ (DoneMsg \in Nat => DoneMsg \notin ToSet(inbox[c]))
                => Once(inbox'[c])
  BY <1>1, PublishFacts DEF IInv
<1>4. DoneMsg \notin Nat
  BY DEF DoneMsg
<1>5. TypeOK'
  BY <1>1, <1>3 DEF IInv, TypeOK, keys, reader, run
<1>6. LogInv' /\ ListInv'
  BY <1>1 DEF IInv, TypeOK, LogInv, ListInv, Once, keys, run
<1>7. \A c \in Conns : InboxInv(c)'
  BY <1>1, <1>3, <1>4 DEF IInv, ReaderInv, InboxInv, run
<1>8. \A c \in Conns : \A x \in ToSet(log) : x \in ToSet(inbox'[c]) => x \in ToSet(inbox[c])
  BY <1>2, <1>3, <1>4
<1> QED
  BY <1>1, <1>5, <1>6, <1>7, <1>8, WriterStep DEF run

LEMMA ExpireStep ==
    ASSUME MaxChunksPerRun \in Nat, IInv, Expire
    PROVE  IInv'
<1>1. /\ seq' = 0 /\ chunks' = <<>> /\ doneKey' = FALSE /\ meta' = "none" /\ expired' = TRUE
      /\ UNCHANGED <<writer, reader, inbox, log, over>>
      /\ \A w \in Workers : wpc[w] \in {"finished", "dead"}
  BY DEF Expire
<1>2. <<>> \in Seq(Nat) /\ Len(<<>>) = 0 /\ ToSet(<<>>) = {} /\ Once(<<>>)
  BY DEF ToSet, Once
<1>3. chunks' \in Seq(Nat) /\ Len(chunks') <= MaxChunksPerRun
  BY <1>1, <1>2
<1>4. TypeOK'
  BY <1>1, <1>3 DEF IInv, TypeOK, writer, reader
<1>5. LogInv'
  BY <1>1 DEF LogInv, writer
<1>6. ListInv'
  BY <1>1, <1>2 DEF ListInv
<1>7. \A c \in Conns : InboxInv(c)'
  BY <1>1 DEF IInv, ReaderInv, InboxInv
<1> QED
  BY <1>1, <1>4, <1>5, <1>6, <1>7, WriterStep
----------------------------------------------------------------------------
(* The theorems. *)

LEMMA InitIInv == ASSUME MaxChunksPerRun \in Nat, Init PROVE IInv
<1>1. <<>> \in Seq(Nat) /\ <<>> \in Seq(Nat \cup {Nothing, DoneMsg}) /\ Len(<<>>) = 0
      /\ ToSet(<<>>) = {} /\ Once(<<>>) /\ DOMAIN <<>> = {}
  BY DEF ToSet, Once
<1>2. TypeOK
  <2>1. chunks \in Seq(Nat) /\ Len(chunks) <= MaxChunksPerRun /\ log \in Seq(Nat)
    BY <1>1 DEF Init
  <2>2. /\ pending \in [Conns -> Seq(Nat)] /\ got \in [Conns -> Seq(Nat)]
        /\ inbox \in [Conns -> Seq(Nat \cup {Nothing, DoneMsg})]
    BY <1>1 DEF Init
  <2>3. /\ wpc \in [Workers -> {"idle", "number", "push", "load", "save", "publish",
                             "finished", "dead"}]
        /\ doneCached \in [Workers -> BOOLEAN] /\ num \in [Workers -> Nat]
        /\ seq \in Nat /\ meta \in {"none", "running", "done"}
        /\ doneKey \in BOOLEAN /\ over \in BOOLEAN /\ expired \in BOOLEAN
    BY DEF Init
  <2>4. /\ cpc \in [Conns -> {"new", "open", "replayed", "attach", "tail", "polled", "behind",
                         "ending", "last", "lost", "closed", "cut", "gone"}]
        /\ cursor \in [Conns -> Int] /\ after \in [Conns -> Int]
        /\ late \in [Conns -> BOOLEAN] /\ joined \in [Conns -> BOOLEAN]
        /\ \A c \in Conns : after[c] \in -1..cursor[c] /\ cursor[c] \in {-1} \cup ToSet(log)
    BY DEF Init
  <2> QED
    BY <2>1, <2>2, <2>3, <2>4 DEF TypeOK
<1>3. LogInv /\ ListInv
  BY <1>1 DEF Init, LogInv, ListInv
<1>4. ASSUME NEW c \in Conns PROVE ReaderInv(c) /\ cursor[c] = -1
  <2>1. pending[c] = <<>> /\ inbox[c] = <<>> /\ got[c] = <<>> /\ cursor[c] = -1
    BY DEF Init
  <2>2. SplitBy(c, {}) /\ {} \in SUBSET DOMAIN got[c]
    BY <1>1, <2>1 DEF SplitBy
  <2> QED
    BY <1>1, <2>1, <2>2 DEF ReaderInv, PendingInv, InboxInv
<1> QED
  BY <1>2, <1>3, <1>4 DEF IInv

LEMMA NextIInv == ASSUME MaxChunksPerRun \in Nat, IInv, [Next]_vars PROVE IInv'
<1>1. CASE UNCHANGED vars
  <2>1. UNCHANGED <<keys, writer, reader, inbox, run>>
    BY <1>1 DEF vars
  <2>2. TypeOK' /\ LogInv' /\ ListInv'
    BY <2>1 DEF IInv, TypeOK, LogInv, ListInv, Once, keys, writer, reader, run
  <2>3. \A c \in Conns : InboxInv(c)'
    BY <2>1 DEF IInv, ReaderInv, InboxInv, run
  <2> QED
    BY <2>1, <2>2, <2>3, WriterStep DEF run
<1>2. ASSUME NEW w \in Workers, Work(w) \/ Crash(w) PROVE IInv'
  <2>1. CASE AppendPush(w)
    BY <2>1, AppendPushStep
  <2>2. CASE FinishPublish(w)
    BY <2>2, FinishPublishStep
  <2>3. CASE ~AppendPush(w) /\ ~FinishPublish(w)
    BY <1>2, <2>3, HiddenStep DEF Work
  <2> QED
    BY <2>1, <2>2, <2>3
<1>3. CASE Expire
  BY <1>3, ExpireStep
<1>4. ASSUME NEW c \in Conns, Open(c) \/ Serve(c) \/ Disconnect(c) PROVE IInv'
  <2>1. CASE Open(c)
    BY <2>1, OpenStep
  <2>2. CASE FirstReplay(c) \/ CatchUp(c) \/ LastReplay(c)
    BY <2>2, ReplaysStep
  <2>3. CASE Send(c)
    BY <2>3, SendStep
  <2>4. CASE ReceiveChunk(c)
    BY <2>4, ReceiveChunkStep
  <2>5. CASE \/ FirstMeta(c) \/ Attach(c) \/ ReceiveDone(c) \/ ReceiveNothing(c)
             \/ Poll(c) \/ End(c) \/ Disconnect(c)
    BY <2>5, QuietStep
  <2> QED
    BY <1>4, <2>1, <2>2, <2>3, <2>4, <2>5 DEF Serve
<1> QED
  BY <1>1, <1>2, <1>3, <1>4 DEF Next

(* However the workers, the readers, their channels and the expiry of the keys *)
(* interleave, the invariant holds.                                         *)
THEOREM InductiveInvariant == ASSUME MaxChunksPerRun \in Nat PROVE Spec => []IInv
BY InitIInv, NextIInv, PTL DEF Spec

(* What was sent falls into a part from the list and one from the channel, and *)
(* a chunk is in each of them once.                                         *)
LEMMA TwiceAtMost == ASSUME IInv PROVE SentAtMostTwice
<1> SUFFICES ASSUME NEW c \in Conns, NEW s \in ToSet(got[c])
             PROVE  Cardinality({i \in DOMAIN got[c] : got[c][i] = s}) <= 2
  BY DEF SentAtMostTwice
<1> DEFINE P == {i \in DOMAIN got[c] : got[c][i] = s}
<1>1. PICK A \in SUBSET DOMAIN got[c] : SplitBy(c, A)
  BY DEF IInv, ReaderInv
<1>2. PICK x : \A i \in P : i \in A => i = x
  <2>1. \A i, j \in P : i \in A /\ j \in A => i = j
    BY <1>1 DEF SplitBy
  <2> QED
    BY <2>1
<1>3. PICK y : \A i \in P : i \notin A => i = y
  <2>1. \A i, j \in P : i \notin A /\ j \notin A => i = j
    BY <1>1 DEF SplitBy
  <2> QED
    BY <2>1
<1>4. P \subseteq {x} \cup {y}
  BY <1>2, <1>3
<1> HIDE DEF P
<1>5. IsFiniteSet({x}) /\ Cardinality({x}) = 1
  BY FS_Singleton
<1>6. IsFiniteSet({x} \cup {y})
  BY <1>5, FS_AddElement
<1>7. Cardinality({x} \cup {y}) = IF y \in {x} THEN Cardinality({x}) ELSE Cardinality({x}) + 1
  BY Zenon, <1>5, FS_AddElement
<1>8. IsFiniteSet(P) /\ Cardinality(P) <= Cardinality({x} \cup {y})
  BY <1>4, <1>6, FS_Subset
<1>9. Cardinality(P) \in Nat
  BY <1>8, FS_CardinalityType
<1>10. Cardinality(P) <= 2
  BY <1>5, <1>7, <1>8, <1>9
<1> QED
  BY <1>10 DEF P

(* The buffer's types hold, a cursor is at a chunk of the run, and however     *)
(* the replays and the channel overlap, a connection is sent no chunk more    *)
(* than twice.                                                              *)
THEOREM Sound == ASSUME MaxChunksPerRun \in Nat PROVE Spec => []RedisSound
<1>1. IInv => RedisSound
  BY TwiceAtMost DEF RedisSound, IInv
<1> QED
  BY <1>1, InductiveInvariant, PTL
----------------------------------------------------------------------------
=============================================================================
