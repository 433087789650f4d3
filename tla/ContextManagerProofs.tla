------------------------ MODULE ContextManagerProofs ------------------------
(***************************************************************************)
(* What the passes of process_messages do to a conversation, for any       *)
(* limits: they keep tool calls and their results together, and keep the   *)
(* question or put it into the summary.                                    *)
(***************************************************************************)
EXTENDS ContextManager, Integers, TLAPS, FiniteSetTheorems

(***************************************************************************)
(* Messages with ids from I: only the user's have results, which leave no  *)
(* room for text, and only the agent's have tool_use blocks.               *)
(***************************************************************************)
ResultsOf(I) == UNION {[D -> Nat] : D \in SUBSET I}
Messages(I) ==
    {m \in [by : {"user", "assistant"}, text : BOOLEAN, think : BOOLEAN, uses : SUBSET I,
            results : ResultsOf(I), asks : SUBSET Nat] :
        /\ DOMAIN m.results # {} => m.by = "user" /\ ~m.text
        /\ m.by = "user" => m.uses = {}}

\* Results stand behind the calls they answer, and every call that was not cut
\* off is answered by the next message; the first message is the user's.
Chained(s, cut) ==
    \A i \in DOMAIN s :
        /\ ResultsOnly(s[i]) => i > 1 /\ s[i - 1].uses = DOMAIN s[i].results
        /\ s[i].uses \ cut # {} => i < Len(s) /\ DOMAIN s[i + 1].results = s[i].uses
Dialogue(s, cut) == Chained(s, cut) /\ (s # <<>> => s[1].by = "user")

\* A readable message asks q, and how many readable ones there are from then on.
Asks(s, q, i) == s[i].text /\ q \in s[i].asks
Has(s, q) == \E i \in DOMAIN s : Asks(s, q, i)
Since(s, q) == {i \in DOMAIN s : s[i].text /\ \E j \in 1..i : q \in s[j].asks}
-----------------------------------------------------------------------------
(* Picked messages.                                                         *)

Rank(S, i) == Cardinality({j \in S : j <= i})

(* The ranks of the members of a finite set of numbers are 1, 2, ... in order. *)
LEMMA RankOrder ==
    ASSUME NEW S \in SUBSET Int, IsFiniteSet(S)
    PROVE  /\ \A i \in S : Rank(S, i) \in 1..Cardinality(S)
           /\ \A i, j \in S : i < j <=> Rank(S, i) < Rank(S, j)
<1> DEFINE Below(i) == {j \in S : j <= i}
<1>1. ASSUME NEW i \in Int PROVE IsFiniteSet(Below(i)) /\ Cardinality(Below(i)) <= Cardinality(S)
  <2>1. Below(i) \in SUBSET S
    OBVIOUS
  <2> QED
    BY <2>1, FS_Subset
<1>2. Cardinality(S) \in Nat /\ \A i \in Int : Cardinality(Below(i)) \in Nat
  BY <1>1, FS_CardinalityType
<1>3. ASSUME NEW i \in S PROVE Cardinality(Below(i)) # 0
  <2>1. i \in Below(i)
    OBVIOUS
  <2> QED
    BY <1>1, <2>1, FS_EmptySet
<1>4. ASSUME NEW i \in S, NEW j \in S, i < j PROVE Cardinality(Below(i)) < Cardinality(Below(j))
  <2>1. Below(i) \in SUBSET Below(j) /\ j \in Below(j) /\ j \notin Below(i)
    <3>1. \A k \in S : k <= i => k <= j
      BY <1>4
    <3>2. j <= j /\ ~(j <= i)
      BY <1>4
    <3> QED
      BY <3>1, <3>2
  <2>2. Cardinality(Below(i)) <= Cardinality(Below(j)) /\ Cardinality(Below(j)) # Cardinality(Below(i))
    BY <1>1, <2>1, FS_Subset
  <2> QED
    BY <1>2, <2>2
<1>5. \A i \in S : Rank(S, i) = Cardinality(Below(i)) /\ Rank(S, i) \in 1..Cardinality(S)
  <2>1. \A i \in S : Rank(S, i) = Cardinality(Below(i))
    BY DEF Rank
  <2> HIDE DEF Below
  <2> QED
    BY <1>1, <1>2, <1>3, <2>1
<1> HIDE DEF Below
<1>6. ASSUME NEW i \in S, NEW j \in S, ~(i < j) PROVE ~(Rank(S, i) < Rank(S, j))
  <2>1. CASE i = j
    BY <1>5, <2>1
  <2>2. CASE j < i
    BY <1>4, <1>5, <2>2
  <2> QED
    BY <1>6, <2>1, <2>2
<1> QED
  BY <1>4, <1>5, <1>6

(* ... and every rank is that of a member. *)
LEMMA RankOnto ==
    ASSUME NEW S \in SUBSET Int, IsFiniteSet(S), NEW k \in 1..Cardinality(S)
    PROVE  \E i \in S : Rank(S, i) = k
<1> DEFINE n == Cardinality(S)
           rank == [i \in S |-> Rank(S, i)]
<1>1. n \in Nat
  BY FS_CardinalityType
<1>2. \A i, j \in S : rank[i] = rank[j] => i = j
  <2>1. \A i, j \in S : i < j \/ j < i \/ i = j
    OBVIOUS
  <2> QED
    BY <2>1, RankOrder
<1>3. rank \in [S -> 1..n]
  BY RankOrder
<1>4. rank \in Injection(S, 1..n)
  <2> HIDE DEF rank
  <2> QED
    BY <1>2, <1>3 DEF Injection, IsInjective
<1>5. IsFiniteSet(1..n) /\ Cardinality(1..n) = n
  BY <1>1, FS_Interval
<1>6. rank \in Surjection(S, 1..n)
  <2> HIDE DEF rank
  <2>1. Cardinality(S) = Cardinality(1..n)
    BY <1>5
  <2> QED
    BY <1>4, <1>5, <2>1, FS_Injection
<1>7. \E i \in S : rank[i] = k
  <2> HIDE DEF rank
  <2> QED
    BY <1>6 DEF Surjection
<1> QED
  BY <1>7

(* The k-th message of out was the one at f[k] of s: those at the indexes in  *)
(* keep, in their order, neighbours side by side.                           *)
PickedBy(f, out, s, keep) ==
    /\ f \in [1..Len(out) -> keep]
    /\ \A k, l \in 1..Len(out) : k < l => f[k] < f[l]
    /\ \A i \in keep : \E k \in 1..Len(out) : f[k] = i
    /\ \A k \in 1..Len(out) :
         /\ out[k] = s[f[k]]
         /\ f[k] - 1 \in keep => k > 1 /\ f[k - 1] = f[k] - 1
         /\ f[k] + 1 \in keep => k < Len(out) /\ f[k + 1] = f[k] + 1

LEMMA Picked ==
    ASSUME NEW M, NEW s \in Seq(M), NEW keep \in SUBSET DOMAIN s
    PROVE  /\ Pick(s, keep) \in Seq(M) /\ Len(Pick(s, keep)) \in Nat
           /\ \E f : PickedBy(f, Pick(s, keep), s, keep)
<1> DEFINE n == Cardinality(keep)
           nth(k) == CHOOSE i \in keep : Cardinality({j \in keep : j <= i}) = k
           f == [k \in 1..n |-> nth(k)]
           out == [k \in 1..n |-> s[nth(k)]]
<1>1. DOMAIN s = 1..Len(s) /\ Len(s) \in Nat /\ keep \in SUBSET Int
  OBVIOUS
<1>2. IsFiniteSet(keep)
  <2>1. IsFiniteSet(1..Len(s)) /\ keep \in SUBSET (1..Len(s))
    BY <1>1, FS_Interval
  <2> QED
    BY <2>1, FS_Subset
<1>3. n \in Nat
  BY <1>2, FS_CardinalityType
<1>4. ASSUME NEW k \in 1..n PROVE nth(k) \in keep /\ Rank(keep, nth(k)) = k
  <2>1. \E i \in keep : Cardinality({j \in keep : j <= i}) = k
    BY <1>1, <1>2, RankOnto DEF Rank
  <2> QED
    BY <2>1 DEF Rank
<1>5. f \in [1..n -> keep] /\ \A k \in 1..n : f[k] \in keep /\ Rank(keep, f[k]) = k
  BY <1>4
<1>6. \A k \in 1..n : out[k] = s[f[k]]
  OBVIOUS
<1> HIDE DEF nth
<1>7. out \in [1..n -> M]
  <2>1. \A k \in 1..n : nth(k) \in 1..Len(s)
    BY <1>1, <1>4
  <2> QED
    BY <2>1
<1>8. out \in Seq(M) /\ Len(out) = n
  <2>1. out \in Seq(M)
    BY <1>3, <1>7
  <2>2. DOMAIN out = 1..n
    OBVIOUS
  <2> HIDE DEF out
  <2> QED
    BY <1>3, <2>1, <2>2
<1>9. Pick(s, keep) = out
  <2>1. Pick(s, keep) = SubSeq(out, 1, n)
    BY Zenon DEF Pick, nth
  <2> HIDE DEF out
  <2> QED
    BY <1>3, <1>8, <2>1
<1> HIDE DEF f, out
<1>10. \A k, l \in 1..n : k < l => f[k] < f[l]
  <2>1. \A k \in 1..n : f[k] \in keep
    BY <1>5
  <2>2. \A i, j \in keep : i < j <=> Rank(keep, i) < Rank(keep, j)
    BY <1>1, <1>2, RankOrder
  <2> QED
    BY <1>5, <2>1, <2>2
<1>11. \A i \in keep : \E k \in 1..n : f[k] = i
  <2> SUFFICES ASSUME NEW i \in keep PROVE f[Rank(keep, i)] = i /\ Rank(keep, i) \in 1..n
    BY Zenon
  <2>1. Rank(keep, i) \in 1..n
    BY <1>1, <1>2, RankOrder
  <2>2. PICK j \in keep : j = f[Rank(keep, i)]
    BY <1>5, <2>1
  <2>3. Rank(keep, j) = Rank(keep, i)
    BY <1>5, <2>1, <2>2
  <2>4. ~(i < j) /\ ~(j < i)
    BY <1>1, <1>2, <2>1, <2>3, RankOrder
  <2>5. i \in Int /\ j \in Int
    BY <1>1
  <2> QED
    BY <2>1, <2>2, <2>4, <2>5
<1>12. ASSUME NEW k \in 1..n, NEW l \in 1..n, f[l] = f[k] + 1 PROVE l = k + 1
  <2>1. f[k] \in Int /\ f[l] \in Int /\ \A i \in 1..n : f[i] \in Int
    BY <1>1, <1>5
  <2>2. ~(l < k) /\ l # k
    BY <1>10, <1>12, <2>1
  <2>3. ~(k + 1 < l)
    <3> SUFFICES ASSUME k + 1 < l PROVE FALSE
      OBVIOUS
    <3>1. k + 1 \in 1..n
      BY <1>3
    <3>2. f[k] < f[k + 1] /\ f[k + 1] < f[l]
      BY <1>10, <3>1
    <3> QED
      BY <1>12, <2>1, <3>1, <3>2
  <2> QED
    BY <2>2, <2>3
<1>13. ASSUME NEW k \in 1..n
       PROVE  /\ f[k] - 1 \in keep => k > 1 /\ f[k - 1] = f[k] - 1
              /\ f[k] + 1 \in keep => k < n /\ f[k + 1] = f[k] + 1
  <2>1. f[k] \in Int
    BY <1>1, <1>5
  <2>2. ASSUME f[k] - 1 \in keep PROVE k > 1 /\ f[k - 1] = f[k] - 1
    <3>1. PICK l \in 1..n : f[l] = f[k] - 1
      BY <1>11, <2>2
    <3>2. k = l + 1
      BY <1>12, <2>1, <3>1
    <3>3. l = k - 1 /\ k > 1
      BY <3>2
    <3> QED
      BY <3>1, <3>3
  <2>3. ASSUME f[k] + 1 \in keep PROVE k < n /\ f[k + 1] = f[k] + 1
    <3>1. PICK l \in 1..n : f[l] = f[k] + 1
      BY <1>11, <2>3
    <3>2. l = k + 1
      BY <1>12, <3>1
    <3> QED
      BY <1>3, <3>1, <3>2
  <2> QED
    BY <2>2, <2>3
<1>14. PickedBy(f, out, s, keep)
  <2>1. \A k \in 1..n : out[k] = s[f[k]] /\ f[k] \in keep
    BY <1>5, <1>6
  <2> QED
    BY <1>5, <1>8, <1>10, <1>11, <1>13, <2>1 DEF PickedBy
<1> QED
  BY <1>3, <1>8, <1>9, <1>14

(* A pick that keeps the first message and parts no call from its results    *)
(* leaves a dialogue.                                                       *)
LEMMA PickChained ==
    ASSUME NEW I, NEW cut, NEW s \in Seq(Messages(I)), Dialogue(s, cut),
           NEW keep \in SUBSET DOMAIN s, s # <<>> => 1 \in keep,
           \A i \in keep : ResultsOnly(s[i]) => i - 1 \in keep,
           \A i \in keep : s[i].uses \ cut # {} => i + 1 \in keep
    PROVE  Pick(s, keep) \in Seq(Messages(I)) /\ Dialogue(Pick(s, keep), cut)
<1> DEFINE out == Pick(s, keep)
<1>1. out \in Seq(Messages(I)) /\ Len(out) \in Nat
  BY Picked
<1>2. PICK f : PickedBy(f, out, s, keep)
  BY Picked
<1> HIDE DEF out
<1>3. DOMAIN out = 1..Len(out) /\ keep \in SUBSET (1..Len(s)) /\ DOMAIN s = 1..Len(s) /\ Len(s) \in Nat
  BY <1>1
<1>4. ASSUME NEW k \in DOMAIN out
      PROVE  /\ ResultsOnly(out[k]) => k > 1 /\ out[k - 1].uses = DOMAIN out[k].results
             /\ out[k].uses \ cut # {} => k < Len(out) /\ DOMAIN out[k + 1].results = out[k].uses
  <2>1. k \in 1..Len(out) /\ f[k] \in keep /\ out[k] = s[f[k]] /\ f[k] \in DOMAIN s
    BY <1>2, <1>3 DEF PickedBy
  <2>2. ASSUME ResultsOnly(out[k]) PROVE k > 1 /\ out[k - 1].uses = DOMAIN out[k].results
    <3>1. f[k] - 1 \in keep /\ s[f[k] - 1].uses = DOMAIN s[f[k]].results
      BY <2>1, <2>2 DEF Dialogue, Chained
    <3>2. k > 1 /\ f[k - 1] = f[k] - 1
      BY <1>2, <2>1, <3>1 DEF PickedBy
    <3>3. k - 1 \in 1..Len(out)
      BY <1>1, <2>1, <3>2
    <3>4. out[k - 1] = s[f[k - 1]]
      BY <1>2, <3>3 DEF PickedBy
    <3> QED
      BY <2>1, <3>1, <3>2, <3>4
  <2>3. ASSUME out[k].uses \ cut # {} PROVE k < Len(out) /\ DOMAIN out[k + 1].results = out[k].uses
    <3>1. f[k] + 1 \in keep /\ DOMAIN s[f[k] + 1].results = s[f[k]].uses
      BY <2>1, <2>3 DEF Dialogue, Chained
    <3>2. k < Len(out) /\ f[k + 1] = f[k] + 1
      BY <1>2, <2>1, <3>1 DEF PickedBy
    <3>3. k + 1 \in 1..Len(out)
      BY <1>1, <2>1, <3>2
    <3>4. out[k + 1] = s[f[k + 1]]
      BY <1>2, <3>3 DEF PickedBy
    <3> QED
      BY <2>1, <3>1, <3>2, <3>4
  <2> QED
    BY <2>2, <2>3
<1>5. ASSUME out # <<>> PROVE out[1].by = "user"
  <2>1. 1 \in 1..Len(out)
    BY <1>1, <1>5
  <2>2. f[1] \in keep /\ out[1] = s[f[1]]
    BY <1>2, <2>1 DEF PickedBy
  <2>3. s # <<>>
    BY <1>3, <2>2
  <2>4. PICK k \in 1..Len(out) : f[k] = 1
    BY <1>2, <2>3 DEF PickedBy
  <2>5. k = 1
    <3>1. k > 1 => f[1] < f[k]
      BY <1>2, <2>1 DEF PickedBy
    <3>2. f[1] >= 1
      BY <1>3, <2>2
    <3> QED
      BY <2>4, <3>1, <3>2, <1>3, <2>2
  <2> QED
    BY <2>2, <2>3, <2>4, <2>5 DEF Dialogue
<1> QED
  BY <1>1, <1>4, <1>5 DEF Dialogue, Chained, out

(* A pick that keeps what is readable keeps the question, and no more follows *)
(* it than before.                                                           *)
LEMMA PickReadable ==
    ASSUME NEW I, NEW q, NEW s \in Seq(Messages(I)), Has(s, q),
           NEW keep \in SUBSET DOMAIN s, \A i \in DOMAIN s : s[i].text => i \in keep
    PROVE  /\ Has(Pick(s, keep), q)
           /\ Cardinality(Since(Pick(s, keep), q)) <= Cardinality(Since(s, q))
<1> DEFINE out == Pick(s, keep)
<1>1. out \in Seq(Messages(I)) /\ Len(out) \in Nat
  BY Picked
<1>2. PICK f : PickedBy(f, out, s, keep)
  BY Picked
<1> HIDE DEF out
<1>3. DOMAIN out = 1..Len(out) /\ keep \in SUBSET (1..Len(s)) /\ DOMAIN s = 1..Len(s) /\ Len(s) \in Nat
  BY <1>1
<1>4. Has(out, q)
  <2>1. PICK i \in DOMAIN s : Asks(s, q, i)
    BY DEF Has
  <2>2. PICK k \in 1..Len(out) : f[k] = i
    BY <1>2, <2>1 DEF PickedBy, Asks
  <2> QED
    BY <1>2, <1>3, <2>1, <2>2 DEF PickedBy, Has, Asks
<1> DEFINE g == [k \in Since(out, q) |-> f[k]]
<1>5. ASSUME NEW k \in Since(out, q) PROVE k \in 1..Len(out) /\ f[k] \in Since(s, q)
  <2>1. k \in 1..Len(out) /\ out[k].text
    BY <1>3 DEF Since
  <2>2. PICK j \in 1..k : q \in out[j].asks
    BY DEF Since
  <2>3. j \in 1..Len(out) /\ (j < k \/ j = k)
    BY <1>1, <2>1, <2>2
  <2>4. f[j] \in 1..Len(s) /\ f[k] \in 1..Len(s) /\ (f[j] < f[k] \/ f[j] = f[k])
    BY <1>2, <1>3, <2>1, <2>3 DEF PickedBy
  <2>5. f[j] \in 1..f[k]
    BY <1>3, <2>4
  <2>6. q \in s[f[j]].asks /\ s[f[k]].text
    BY <1>2, <2>1, <2>2, <2>3 DEF PickedBy
  <2> QED
    BY <1>3, <2>1, <2>4, <2>5, <2>6 DEF Since
<1>6. g \in Injection(Since(out, q), Since(s, q))
  <2>1. g \in [Since(out, q) -> Since(s, q)]
    BY <1>5
  <2>2. ASSUME NEW k \in Since(out, q), NEW l \in Since(out, q), f[k] = f[l] PROVE k = l
    <3>1. k \in 1..Len(out) /\ l \in 1..Len(out) /\ f[k] \in 1..Len(s)
      BY <1>2, <1>3, <1>5 DEF PickedBy
    <3>2. ~(k < l) /\ ~(l < k)
      BY <1>2, <1>3, <2>2, <3>1 DEF PickedBy
    <3> QED
      BY <1>1, <3>1, <3>2
  <2> QED
    BY <2>1, <2>2 DEF Injection, IsInjective
<1>7. IsFiniteSet(Since(s, q))
  <2>1. IsFiniteSet(1..Len(s)) /\ Since(s, q) \in SUBSET (1..Len(s))
    BY <1>3, FS_Interval DEF Since
  <2> QED
    BY <2>1, FS_Subset
<1>8. Cardinality(Since(out, q)) <= Cardinality(Since(s, q))
  <2> HIDE DEF g
  <2> QED
    BY <1>6, <1>7, FS_Injection
<1> QED
  BY <1>4, <1>8 DEF out
-----------------------------------------------------------------------------
(* The passes.                                                              *)

(* t has other thinking and results of other sizes, and nothing else.       *)
Alike(s, t) ==
    /\ Len(t) = Len(s)
    /\ \A i \in DOMAIN s : /\ t[i].by = s[i].by /\ t[i].text = s[i].text
                           /\ t[i].uses = s[i].uses /\ t[i].asks = s[i].asks
                           /\ DOMAIN t[i].results = DOMAIN s[i].results

LEMMA AlikeKeeps ==
    ASSUME NEW I, NEW cut, NEW q, NEW s \in Seq(Messages(I)), NEW t \in Seq(Messages(I)), Alike(s, t)
    PROVE  /\ Dialogue(s, cut) => Dialogue(t, cut)
           /\ Has(s, q) => Has(t, q)
           /\ Since(t, q) = Since(s, q)
<1>1. DOMAIN s = 1..Len(s) /\ DOMAIN t = 1..Len(s) /\ Len(s) \in Nat /\ Len(t) = Len(s)
  BY DEF Alike
<1>2. \A i \in DOMAIN s : /\ t[i].by = s[i].by /\ t[i].text = s[i].text
                          /\ t[i].uses = s[i].uses /\ t[i].asks = s[i].asks
                          /\ DOMAIN t[i].results = DOMAIN s[i].results
  BY DEF Alike
<1>3. ASSUME Dialogue(s, cut) PROVE Dialogue(t, cut)
  <2>1. ASSUME NEW i \in DOMAIN t
        PROVE  /\ ResultsOnly(t[i]) => i > 1 /\ t[i - 1].uses = DOMAIN t[i].results
               /\ t[i].uses \ cut # {} => i < Len(t) /\ DOMAIN t[i + 1].results = t[i].uses
    <3>1. i \in DOMAIN s /\ (i > 1 => i - 1 \in DOMAIN s) /\ (i < Len(s) => i + 1 \in DOMAIN s)
      BY <1>1
    <3>2. ResultsOnly(t[i]) <=> ResultsOnly(s[i])
      BY <1>2, <3>1 DEF ResultsOnly
    <3> QED
      BY <1>1, <1>2, <1>3, <3>1, <3>2 DEF Dialogue, Chained
  <2>2. ASSUME t # <<>> PROVE t[1].by = "user"
    <3>1. 1 \in DOMAIN s /\ s # <<>>
      BY <1>1, <2>2
    <3> QED
      BY <1>2, <1>3, <3>1 DEF Dialogue
  <2> QED
    BY <2>1, <2>2 DEF Dialogue, Chained
<1>4. Has(s, q) => Has(t, q)
  BY <1>1, <1>2 DEF Has, Asks
<1>5. ASSUME NEW i \in DOMAIN s
      PROVE  (t[i].text /\ \E j \in 1..i : q \in t[j].asks) <=> (s[i].text /\ \E j \in 1..i : q \in s[j].asks)
  <2>1. \A j \in 1..i : j \in DOMAIN s
    BY <1>1
  <2> QED
    BY <1>2, <2>1
<1>6. Since(t, q) = Since(s, q)
  BY <1>1, <1>5 DEF Since
<1> QED
  BY <1>3, <1>4, <1>6

LEMMA DropsThinking ==
    ASSUME NEW I, NEW s \in Seq(Messages(I))
    PROVE  DropThinking(s) \in Seq(Messages(I)) /\ Alike(s, DropThinking(s))
<1> DEFINE t == [i \in DOMAIN s |-> [s[i] EXCEPT !.think = FALSE]]
<1>1. DOMAIN s = 1..Len(s) /\ Len(s) \in Nat /\ \A i \in DOMAIN s : s[i] \in Messages(I)
  OBVIOUS
<1>2. ASSUME NEW m \in Messages(I)
      PROVE  /\ [m EXCEPT !.think = FALSE] \in Messages(I)
             /\ [m EXCEPT !.think = FALSE].by = m.by /\ [m EXCEPT !.think = FALSE].text = m.text
             /\ [m EXCEPT !.think = FALSE].uses = m.uses /\ [m EXCEPT !.think = FALSE].asks = m.asks
             /\ [m EXCEPT !.think = FALSE].results = m.results
  BY DEF Messages
<1>3. t \in Seq(Messages(I)) /\ Len(t) = Len(s) /\ DOMAIN t = 1..Len(s)
  <2>1. t \in [1..Len(s) -> Messages(I)]
    BY <1>1, <1>2
  <2>2. t \in Seq(Messages(I)) /\ DOMAIN t = 1..Len(s)
    BY <1>1, <2>1
  <2> HIDE DEF t
  <2> QED
    BY <1>1, <2>2
<1>4. DropThinking(s) = t
  <2>1. DropThinking(s) = SubSeq(t, 1, Len(s))
    BY DEF DropThinking, Each
  <2> HIDE DEF t
  <2> QED
    BY <1>1, <1>3, <2>1
<1>5. Alike(s, t)
  <2>1. \A i \in DOMAIN s : t[i] = [s[i] EXCEPT !.think = FALSE]
    OBVIOUS
  <2> HIDE DEF t
  <2> QED
    BY <1>1, <1>2, <1>3, <2>1 DEF Alike
<1> HIDE DEF t
<1> QED
  BY <1>3, <1>4, <1>5
(* The least and the greatest of two numbers. *)
LEMMA OfTwo ==
    ASSUME NEW a \in Int, NEW b \in Int
    PROVE  /\ Min({a, b}) \in {a, b} /\ Min({a, b}) <= a /\ Min({a, b}) <= b
           /\ Max({a, b}) \in {a, b} /\ Max({a, b}) >= a /\ Max({a, b}) >= b
<1>1. a <= b \/ b <= a
  OBVIOUS
<1>2. \E x \in {a, b} : \A y \in {a, b} : x <= y
  BY <1>1
<1>3. \E x \in {a, b} : \A y \in {a, b} : x >= y
  BY <1>1
<1>4. Min({a, b}) \in {a, b} /\ \A y \in {a, b} : Min({a, b}) <= y
  BY <1>2 DEF Min
<1>5. Max({a, b}) \in {a, b} /\ \A y \in {a, b} : Max({a, b}) >= y
  BY <1>3 DEF Max
<1> QED
  BY <1>4, <1>5

LEMMA TruncatesResults ==
    ASSUME NEW I, NEW pins, NEW s \in Seq(Messages(I))
    PROVE  TruncateToolResults(s, pins) \in Seq(Messages(I)) /\ Alike(s, TruncateToolResults(s, pins))
<1> DEFINE cap(id) == IF id \in pins THEN Max({ResultCap, PinnedCap}) ELSE ResultCap
           cut(res) == [id \in DOMAIN res |-> Min({res[id], cap(id)})]
           t == [i \in DOMAIN s |-> [s[i] EXCEPT !.results = cut(@)]]
<1>1. DOMAIN s = 1..Len(s) /\ Len(s) \in Nat /\ \A i \in DOMAIN s : s[i] \in Messages(I)
  OBVIOUS
<1>2. ASSUME NEW res \in ResultsOf(I) PROVE cut(res) \in ResultsOf(I) /\ DOMAIN cut(res) = DOMAIN res
  <2>1. PICK D \in SUBSET I : res \in [D -> Nat]
    BY DEF ResultsOf
  <2>2. ResultCap \in Nat /\ PinnedCap \in Nat /\ ResultCap \in Int /\ PinnedCap \in Int
    BY WindowAssumption
  <2>3. ASSUME NEW id \in D PROVE Min({res[id], cap(id)}) \in Nat
    <3>1. Max({ResultCap, PinnedCap}) \in {ResultCap, PinnedCap}
      BY Zenon, <2>2, OfTwo
    <3>2. cap(id) \in Nat
      BY <2>2, <3>1
    <3>3. res[id] \in Nat
      BY <2>1
    <3> HIDE DEF cap
    <3>4. cap(id) \in Int /\ res[id] \in Int
      BY <3>2, <3>3
    <3>5. Min({res[id], cap(id)}) \in {res[id], cap(id)}
      BY Zenon, <3>4, OfTwo
    <3> QED
      BY <3>2, <3>3, <3>5
  <2>4. cut(res) \in [D -> Nat] /\ DOMAIN cut(res) = DOMAIN res
    <3> HIDE DEF cap
    <3> QED
      BY <2>1, <2>3
  <2> HIDE DEF cut
  <2> QED
    BY <2>4 DEF ResultsOf
<1> HIDE DEF cut
<1>3. ASSUME NEW m \in Messages(I)
      PROVE  LET n == [m EXCEPT !.results = cut(@)]
             IN  /\ n \in Messages(I)
                 /\ n.by = m.by /\ n.text = m.text /\ n.uses = m.uses /\ n.asks = m.asks
                 /\ DOMAIN n.results = DOMAIN m.results
  <2>1. m.results \in ResultsOf(I)
    BY DEF Messages
  <2>2. cut(m.results) \in ResultsOf(I) /\ DOMAIN cut(m.results) = DOMAIN m.results
    BY <1>2, <2>1
  <2> QED
    BY <2>2 DEF Messages
<1>4. t \in Seq(Messages(I)) /\ Len(t) = Len(s) /\ DOMAIN t = 1..Len(s)
  <2>1. t \in [1..Len(s) -> Messages(I)]
    BY <1>1, <1>3
  <2>2. t \in Seq(Messages(I)) /\ DOMAIN t = 1..Len(s)
    BY <1>1, <2>1
  <2> HIDE DEF t
  <2> QED
    BY <1>1, <2>2
<1>5. TruncateToolResults(s, pins) = t
  <2>1. TruncateToolResults(s, pins) = SubSeq(t, 1, Len(s))
    BY Zenon DEF TruncateToolResults, Each, cut
  <2> HIDE DEF t
  <2> QED
    BY <1>1, <1>4, <2>1
<1>6. Alike(s, t)
  <2>1. \A i \in DOMAIN s : t[i] = [s[i] EXCEPT !.results = cut(@)]
    OBVIOUS
  <2> HIDE DEF t
  <2> QED
    BY <1>1, <1>3, <1>4, <2>1 DEF Alike
<1> HIDE DEF t
<1> QED
  BY <1>4, <1>5, <1>6

(* Rounds are dropped whole, and nothing that can be read with them.         *)
LEMMA DropsRounds ==
    ASSUME NEW I, NEW cut, NEW q, NEW pins, NEW s \in Seq(Messages(I)), Dialogue(s, cut)
    PROVE  LET t == DropCompletedToolRoundPairs(s, pins)
           IN  /\ t \in Seq(Messages(I)) /\ Dialogue(t, cut)
               /\ Has(s, q) => Has(t, q) /\ Cardinality(Since(t, q)) <= Cardinality(Since(s, q))
<1> DEFINE gone == {i \in DOMAIN s : RoundAnswered(s, pins, i)}
           keep == DOMAIN s \ (gone \cup {i + 1 : i \in gone})
<1>1. DOMAIN s = 1..Len(s) /\ Len(s) \in Nat /\ \A i \in DOMAIN s : s[i] \in Messages(I)
  OBVIOUS
<1>2. ASSUME NEW i \in gone
      PROVE  /\ i \in DOMAIN s /\ i + 1 \in DOMAIN s
             /\ s[i].by = "assistant" /\ s[i].uses # {} /\ ~s[i].text
             /\ ResultsOnly(s[i + 1]) /\ ~s[i + 1].text /\ s[i + 1].uses = {}
  <2>1. i \in DOMAIN s /\ i + 1 \in DOMAIN s
    BY <1>1 DEF RoundAnswered
  <2> QED
    BY <1>1, <2>1 DEF RoundAnswered, ToolUseOnly, ResultsOnly, Messages
<1>3. \A i \in DOMAIN s : s[i].text => i \in keep
  BY <1>1, <1>2
<1>4. s # <<>> => 1 \in keep
  <2> SUFFICES ASSUME s # <<>> PROVE 1 \in keep
    OBVIOUS
  <2>1. 1 \in DOMAIN s /\ s[1].by = "user"
    BY <1>1 DEF Dialogue
  <2>2. 1 \notin gone /\ \A i \in gone : i + 1 # 1
    BY <1>1, <1>2, <2>1
  <2> QED
    BY <2>1, <2>2
<1>5. ASSUME NEW i \in keep, ResultsOnly(s[i]) PROVE i - 1 \in keep
  <2>1. i \in DOMAIN s /\ i > 1 /\ i - 1 \in DOMAIN s /\ s[i - 1].uses = DOMAIN s[i].results
    BY <1>1, <1>5 DEF Dialogue, Chained
  <2>2. s[i - 1].uses # {}
    BY <1>5, <2>1 DEF ResultsOnly
  <2>3. i - 1 \notin gone
    BY <1>1, <2>1
  <2>4. ASSUME NEW j \in gone PROVE j + 1 # i - 1
    BY <1>2, <2>2
  <2> QED
    BY <2>1, <2>3, <2>4
<1>6. ASSUME NEW i \in keep, s[i].uses \ cut # {} PROVE i + 1 \in keep
  <2>1. i \in DOMAIN s /\ i + 1 \in DOMAIN s /\ DOMAIN s[i + 1].results = s[i].uses
    BY <1>1, <1>6 DEF Dialogue, Chained
  <2>2. s[i + 1].by = "user" /\ i \notin gone
    BY <1>1, <1>6, <2>1 DEF Messages
  <2>3. i + 1 \notin gone
    BY <1>2, <2>2
  <2>4. ASSUME NEW j \in gone PROVE j + 1 # i + 1
    BY <1>1, <1>2, <2>1, <2>2
  <2> QED
    BY <2>1, <2>3, <2>4
<1>7. keep \in SUBSET DOMAIN s /\ DropCompletedToolRoundPairs(s, pins) = Pick(s, keep)
  BY DEF DropCompletedToolRoundPairs
<1> HIDE DEF keep
<1>8. Pick(s, keep) \in Seq(Messages(I)) /\ Dialogue(Pick(s, keep), cut)
  BY <1>4, <1>5, <1>6, <1>7, PickChained
<1>9. Has(s, q) => /\ Has(Pick(s, keep), q)
                   /\ Cardinality(Since(Pick(s, keep), q)) <= Cardinality(Since(s, q))
  BY <1>3, <1>7, PickReadable
<1> QED
  BY <1>7, <1>8, <1>9
(* The start of the window moves by one message at most: before results is   *)
(* the call they answer.                                                    *)
LEMMA AdjustsStart ==
    ASSUME NEW I, NEW cut, NEW s \in Seq(Messages(I)), Dialogue(s, cut), NEW start \in DOMAIN s
    PROVE  LET a == AdjustStartForToolPairs(s, start)
           IN  a \in DOMAIN s /\ a <= start /\ a >= start - 1 /\ ~ResultsOnly(s[a])
<1> DEFINE S == {j \in 1..start : j = 1 \/ ~ResultsOnly(s[j])}
<1>1. DOMAIN s = 1..Len(s) /\ Len(s) \in Nat /\ \A i \in DOMAIN s : s[i] \in Messages(I)
  OBVIOUS
<1>2. start \in Nat /\ start >= 1
  BY <1>1
<1>3. ~ResultsOnly(s[1])
  BY <1>1, <1>2 DEF Dialogue, Chained
<1>4. PICK a \in S : a >= start - 1 /\ \A j \in S : a >= j
  <2>1. CASE ~ResultsOnly(s[start])
    <3>1. start \in S /\ start >= start - 1 /\ \A j \in S : start >= j
      BY <1>2, <2>1
    <3> QED
      BY <3>1
  <2>2. CASE ResultsOnly(s[start])
    <3>1. start > 1 /\ s[start - 1].uses = DOMAIN s[start].results /\ start - 1 \in DOMAIN s
      BY <1>1, <2>2 DEF Dialogue, Chained
    <3>2. s[start - 1].uses # {}
      BY <2>2, <3>1 DEF ResultsOnly
    <3>3. ~ResultsOnly(s[start - 1])
      BY <1>1, <3>1, <3>2 DEF ResultsOnly, Messages
    <3>4. start - 1 \in S /\ start \notin S
      BY <1>2, <2>2, <3>1, <3>3
    <3>5. \A j \in S : j \in 1..start /\ j # start
      BY <3>4
    <3>6. start - 1 >= start - 1 /\ \A j \in S : start - 1 >= j
      BY <1>2, <3>5
    <3> QED
      BY <3>4, <3>6
  <2> QED
    BY <2>1, <2>2
<1>5. Max(S) \in S /\ \A j \in S : Max(S) >= j
  BY <1>4 DEF Max
<1>6. Max(S) >= a
  BY <1>5
<1>7. AdjustStartForToolPairs(s, start) = Max(S)
  BY DEF AdjustStartForToolPairs
<1>8. Max(S) \in 1..start /\ a \in 1..start /\ ~ResultsOnly(s[Max(S)])
  BY <1>3, <1>5
<1> HIDE DEF S
<1> QED
  BY <1>1, <1>2, <1>4, <1>6, <1>7, <1>8

(* Messages that open a dialogue, without calls or results. *)
Opening(front, I) ==
    /\ front \in Seq(Messages(I)) /\ front # <<>> /\ front[1].by = "user"
    /\ \A i \in DOMAIN front : front[i].uses = {} /\ ~ResultsOnly(front[i])

(* out is front and then the messages of s from a on. *)
Joined(out, front, s, a) ==
    /\ Len(out) = Len(front) + Len(s) - a + 1
    /\ \A i \in DOMAIN front : out[i] = front[i] /\ i \in DOMAIN out
    /\ \A i \in DOMAIN s : i >= a => /\ Len(front) + i - a + 1 \in DOMAIN out
                                     /\ out[Len(front) + i - a + 1] = s[i]

(* Messages without calls or results before a part of the dialogue that does *)
(* not begin with results.                                                  *)
LEMMA Rejoined ==
    ASSUME NEW I, NEW cut, NEW s \in Seq(Messages(I)), Dialogue(s, cut),
           NEW a \in Int, a \in DOMAIN s, ~ResultsOnly(s[a]),
           NEW front, Opening(front, I)
    PROVE  LET out == front \o SubSeq(s, a, Len(s))
           IN  out \in Seq(Messages(I)) /\ Dialogue(out, cut) /\ Joined(out, front, s, a)
<1> DEFINE back == SubSeq(s, a, Len(s))
           out == front \o back
<1>1. PICK n \in Nat : n = Len(s) /\ DOMAIN s = 1..n /\ a \in 1..n
  OBVIOUS
<1>2. PICK F \in Nat : F = Len(front) /\ DOMAIN front = 1..F /\ F >= 1
  BY DEF Opening
<1>o. front \in Seq(Messages(I)) /\ front[1].by = "user" /\ \A i \in 1..F : front[i].uses = {} /\ ~ResultsOnly(front[i])
  BY <1>2 DEF Opening
<1>b. PICK b \in Nat : b = n - a + 1
  <2>1. n - a + 1 \in Nat
    BY <1>1
  <2> QED
    BY <2>1
<1>3. back \in Seq(Messages(I)) /\ Len(back) = b
  BY <1>1, <1>b
<1>4. \A j \in 1..b : back[j] = s[a + j - 1]
  BY <1>1, <1>b
<1> HIDE DEF back
<1>5. /\ out \in Seq(Messages(I)) /\ Len(out) = F + b /\ DOMAIN out = 1..(F + b)
      /\ \A i \in 1..F : out[i] = front[i]
      /\ \A j \in 1..b : out[F + j] = back[j]
  <2>f. front \in Seq(Messages(I))
    BY <1>o
  <2>1. out \in Seq(Messages(I))
    BY <2>f, <1>3
  <2>2. Len(out) = Len(front) + Len(back)
    BY <2>f, <1>3
  <2>3. Len(out) = F + b
    BY <1>2, <1>3, <2>2
  <2>4. \A i \in 1..(Len(front) + Len(back)) : out[i] = IF i <= Len(front) THEN front[i] ELSE back[i - Len(front)]
    BY <2>f, <1>3
  <2>5. \A i \in 1..(F + b) : out[i] = IF i <= F THEN front[i] ELSE back[i - F]
    BY <1>2, <1>3, <2>4
  <2> HIDE DEF out
  <2>6. DOMAIN out = 1..(F + b)
    BY <2>1, <2>3
  <2>7. ASSUME NEW j \in 1..b PROVE out[F + j] = back[j]
    <3>1. F + j \in 1..(F + b) /\ ~(F + j <= F) /\ (F + j) - F = j
      OBVIOUS
    <3> QED
      BY <2>5, <3>1
  <2>8. ASSUME NEW i \in 1..F PROVE out[i] = front[i]
    <3>1. i \in 1..(F + b) /\ i <= F
      OBVIOUS
    <3> QED
      BY <2>5, <3>1
  <2> QED
    BY <2>1, <2>3, <2>6, <2>7, <2>8
<1> HIDE DEF out
<1>6. ASSUME NEW i \in 1..n, i >= a
      PROVE  F + i - a + 1 \in 1..(F + b) /\ out[F + i - a + 1] = s[i]
  <2>1. PICK j \in 1..b : j = i - a + 1
    BY <1>1, <1>b, <1>6
  <2>2. a + j - 1 = i /\ F + i - a + 1 = F + j /\ F + j \in 1..(F + b)
    BY <1>1, <1>2, <1>b, <2>1
  <2>3. back[j] = s[a + j - 1]
    BY <1>4
  <2> QED
    BY <1>5, <2>2, <2>3
<1>7. ASSUME NEW k \in 1..(F + b)
      PROVE  /\ ResultsOnly(out[k]) => k > 1 /\ out[k - 1].uses = DOMAIN out[k].results
             /\ out[k].uses \ cut # {} => k < F + b /\ DOMAIN out[k + 1].results = out[k].uses
  <2>1. CASE k <= F
    BY <1>o, <1>2, <1>5, <2>1
  <2>2. CASE k > F
    <3>1. PICK i \in 1..n : i = k - F + a - 1 /\ i >= a
      <4>1. k - F + a - 1 \in 1..n /\ k - F + a - 1 >= a
        BY <1>1, <1>2, <1>b, <2>2
      <4> QED
        BY <4>1
    <3>2. k = F + i - a + 1
      <4>1. a \in Int /\ k \in Int /\ F \in Int
        BY <1>1, <1>2, <1>b
      <4>2. i \in Int
        BY <1>1
      <4> QED
        BY <3>1, <4>1, <4>2
    <3>3. out[k] = s[i]
      BY <1>6, <3>1, <3>2
    <3>4. ASSUME ResultsOnly(out[k]) PROVE k > 1 /\ out[k - 1].uses = DOMAIN out[k].results
      <4>1. i # a
        BY <3>3, <3>4
      <4>2. i > 1 /\ s[i - 1].uses = DOMAIN s[i].results
        BY <1>1, <3>3, <3>4 DEF Dialogue, Chained
      <4>3. PICK j \in 1..n : j = i - 1 /\ j >= a
        <5>1. i - 1 \in 1..n /\ i - 1 >= a
          BY <1>1, <3>1, <4>1, <4>2
        <5> QED
          BY <5>1
      <4>4. out[F + j - a + 1] = s[j]
        BY <1>6, <4>3
      <4>5. F + j - a + 1 = k - 1 /\ k > 1
        <5>1. a \in Int /\ k \in Int /\ F \in Int /\ i \in Int
          BY <1>1, <1>2, <1>b
        <5>2. k - 1 = F + (i - 1) - a + 1
          BY <3>2, <5>1
        <5>3. k > 1
          BY <1>2, <2>2, <5>1
        <5> QED
          BY Zenon, <4>3, <5>2, <5>3
      <4> QED
        BY <3>3, <4>2, <4>3, <4>4, <4>5
    <3>5. ASSUME out[k].uses \ cut # {} PROVE k < F + b /\ DOMAIN out[k + 1].results = out[k].uses
      <4>1. i < n /\ DOMAIN s[i + 1].results = s[i].uses
        BY <1>1, <3>3, <3>5 DEF Dialogue, Chained
      <4>2. PICK j \in 1..n : j = i + 1 /\ j >= a
        <5>1. i + 1 \in 1..n /\ i + 1 >= a
          BY <1>1, <3>1, <4>1
        <5> QED
          BY <5>1
      <4>3. F + j - a + 1 \in 1..(F + b) /\ out[F + j - a + 1] = s[j]
        BY <1>6, <4>2
      <4>4. F + j - a + 1 = k + 1
        BY <1>1, <1>2, <3>2, <4>2
      <4>5. k < F + b
        BY <1>2, <1>b, <4>3, <4>4
      <4> QED
        BY <3>3, <4>1, <4>2, <4>3, <4>4, <4>5
    <3> QED
      BY <3>4, <3>5
  <2> QED
    BY <1>2, <2>1, <2>2
<1>8. out[1].by = "user"
  BY <1>o, <1>2, <1>5
<1>9. Dialogue(out, cut)
  BY <1>5, <1>7, <1>8 DEF Dialogue, Chained
<1>10. out = front \o SubSeq(s, a, Len(s))
  BY DEF out, back
<1>11. Len(out) = Len(front) + Len(s) - a + 1
  <2>1. a \in Int
    BY <1>1
  <2>2. Len(out) = F + b
    BY <1>5
  <2> QED
    BY <1>1, <1>2, <1>b, <2>1, <2>2
<1>12. \A i \in DOMAIN front : out[i] = front[i] /\ i \in DOMAIN out
  BY <1>2, <1>b, <1>5
<1>13. \A i \in DOMAIN s : i >= a => /\ Len(front) + i - a + 1 \in DOMAIN out
                                     /\ out[Len(front) + i - a + 1] = s[i]
  BY <1>1, <1>2, <1>5, <1>6
<1> QED
  BY <1>5, <1>9, <1>10, <1>11, <1>12, <1>13 DEF Joined

(* A text of the user is a message whatever it asks.                         *)
LEMMA TextTyped ==
    ASSUME NEW I, NEW A \in SUBSET Nat
    PROVE  /\ UserText(A) \in Messages(I) /\ ~ResultsOnly(UserText(A))
           /\ UserText(A).by = "user" /\ UserText(A).uses = {} /\ UserText(A).text /\ UserText(A).asks = A
<1>1. NoResults \in [{} -> Nat] /\ DOMAIN NoResults = {}
  BY DEF NoResults
<1>2. NoResults \in ResultsOf(I)
  BY <1>1 DEF ResultsOf
<1> QED
  BY <1>1, <1>2 DEF UserText, Messages, ResultsOnly

(* The summary is such a text, of the last messages one can read.            *)
LEMMA SummaryTyped ==
    ASSUME NEW I, NEW old \in Seq(Messages(I))
    PROVE  \E A \in SUBSET Nat : Summary(old) = UserText(A)
<1> DEFINE visible == Visible(old)
           told == SubSeq(visible, Max({1, Len(visible) - MaxVisible + 1}), Len(visible))
           A == UNION {told[i].asks : i \in DOMAIN told}
<1>1. visible \in Seq(Messages(I)) /\ Len(visible) \in Nat
  <2>1. {i \in DOMAIN old : old[i].text} \in SUBSET DOMAIN old
    OBVIOUS
  <2> QED
    BY <2>1, Picked DEF Visible
<1>2. Max({1, Len(visible) - MaxVisible + 1}) \in 1..(Len(visible) + 1)
  <2>1. PICK V \in Nat : V = Len(visible)
    BY <1>1
  <2>2. 1 \in Int /\ V - MaxVisible + 1 \in Int /\ V - MaxVisible + 1 <= V + 1
    BY WindowAssumption
  <2>3. /\ Max({1, V - MaxVisible + 1}) \in {1, V - MaxVisible + 1}
        /\ Max({1, V - MaxVisible + 1}) >= 1
    BY Zenon, <2>2, OfTwo
  <2> QED
    BY <2>1, <2>2, <2>3
<1> HIDE DEF visible
<1>3. told \in Seq(Messages(I))
  <2>1. PICK m \in 1..(Len(visible) + 1) : m = Max({1, Len(visible) - MaxVisible + 1})
    BY <1>2
  <2>2. SubSeq(visible, m, Len(visible)) \in Seq(Messages(I))
    BY <1>1
  <2> QED
    BY <2>1, <2>2
<1>4. A \in SUBSET Nat
  <2> HIDE DEF told
  <2>1. \A i \in DOMAIN told : told[i] \in Messages(I)
    BY <1>3
  <2> QED
    BY <2>1 DEF Messages
<1>5. Summary(old) = UserText(A)
  BY DEF Summary, visible
<1> QED
  BY <1>4, <1>5

(* The question is among the messages the summary has lines for, when no more *)
(* readable ones than that follow it.                                       *)
LEMMA SummaryTells ==
    ASSUME NEW I, NEW q, NEW s \in Seq(Messages(I)), NEW a \in 3..Len(s), NEW i \in 2..(a - 1),
           Asks(s, q, i), IsFiniteSet(Since(s, q)), Cardinality(Since(s, q)) <= MaxVisible
    PROVE  q \in Summary(SubSeq(s, 2, a - 1)).asks
<1> DEFINE old == SubSeq(s, 2, a - 1)
           keep == {j \in DOMAIN old : old[j].text}
           visible == Pick(old, keep)
           m == Max({1, Len(visible) - MaxVisible + 1})
           told == SubSeq(visible, m, Len(visible))
<1>1. DOMAIN s = 1..Len(s) /\ Len(s) \in Nat
  OBVIOUS
<1>2. old \in Seq(Messages(I)) /\ Len(old) = a - 2 /\ DOMAIN old = 1..(a - 2)
  BY <1>1
<1>3. \A j \in 1..(a - 2) : old[j] = s[j + 1]
  BY <1>1
<1> HIDE DEF old
<1>4. keep \in SUBSET DOMAIN old /\ keep \in SUBSET (1..(a - 2))
  BY <1>2
<1>5. i - 1 \in keep
  <2>1. i - 1 \in 1..(a - 2) /\ (i - 1) + 1 = i
    BY <1>1
  <2> QED
    BY <1>2, <1>3, <2>1 DEF Asks
<1>6. \A j \in keep : j \in 1..(a - 2) /\ old[j] = s[j + 1] /\ old[j].text
  BY <1>3, <1>4
<1> HIDE DEF keep
<1>7. visible \in Seq(Messages(I)) /\ Len(visible) \in Nat
  BY <1>2, <1>4, Picked
<1>8. PICK f : PickedBy(f, visible, old, keep)
  BY <1>2, <1>4, Picked
<1> HIDE DEF visible
<1>9. PICK V \in Nat : V = Len(visible) /\ DOMAIN visible = 1..V
  BY <1>7
<1>10. PICK k \in 1..V : f[k] = i - 1
  BY <1>5, <1>8, <1>9 DEF PickedBy
<1>11. \A l \in 1..V : f[l] \in keep /\ visible[l] = old[f[l]]
  BY <1>8, <1>9 DEF PickedBy
<1>12. V - k + 1 <= MaxVisible
  <2> DEFINE g == [l \in k..V |-> f[l] + 1]
  <2>1. ASSUME NEW l \in k..V PROVE f[l] + 1 \in Since(s, q) /\ f[l] \in Int
    <3>1. l \in 1..V /\ (k < l \/ k = l)
      OBVIOUS
    <3>2. f[l] \in 1..(a - 2) /\ s[f[l] + 1].text
      BY <1>6, <1>11, <3>1
    <3>3. f[k] <= f[l]
      <4>1. k < l => f[k] < f[l]
        BY <1>8, <1>9, <3>1 DEF PickedBy
      <4>2. f[k] \in Int /\ f[l] \in Int
        BY <1>10, <3>2
      <4> QED
        BY <3>1, <4>1, <4>2
    <3>4. i \in 1..(f[l] + 1) /\ q \in s[i].asks
      BY <1>10, <3>2, <3>3 DEF Asks
    <3>5. f[l] + 1 \in DOMAIN s
      BY <1>1, <3>2
    <3> QED
      BY <3>2, <3>4, <3>5 DEF Since
  <2>2. \A l, h \in k..V : l # h => f[l] # f[h]
    <3> SUFFICES ASSUME NEW l \in k..V, NEW h \in k..V, l < h PROVE f[l] # f[h]
      OBVIOUS
    <3>1. f[l] < f[h]
      BY <1>8, <1>9 DEF PickedBy
    <3> QED
      BY <2>1, <3>1
  <2>3. g \in Injection(k..V, Since(s, q))
    <3>1. g \in [k..V -> Since(s, q)]
      BY <2>1
    <3>2. \A l, h \in k..V : g[l] = g[h] => l = h
      BY <2>1, <2>2
    <3> HIDE DEF g
    <3> QED
      BY <3>1, <3>2 DEF Injection, IsInjective
  <2>4. Cardinality(k..V) <= Cardinality(Since(s, q))
    <3> HIDE DEF g
    <3> QED
      BY <2>3, FS_Injection
  <2>5. Cardinality(k..V) = V - k + 1
    BY FS_Interval
  <2>6. Cardinality(Since(s, q)) \in Nat
    BY FS_CardinalityType
  <2>7. PICK c \in Nat : c = Cardinality(Since(s, q))
    BY <2>6
  <2>8. V - k + 1 <= c /\ c <= MaxVisible
    BY <2>4, <2>5, <2>7
  <2> QED
    BY <2>8, WindowAssumption
<1>13. m \in 1..k
  <2>1. 1 \in Int /\ V - MaxVisible + 1 \in Int /\ V - MaxVisible + 1 <= k
    BY <1>12, WindowAssumption
  <2>2. Max({1, V - MaxVisible + 1}) \in {1, V - MaxVisible + 1} /\ Max({1, V - MaxVisible + 1}) >= 1
    BY Zenon, <2>1, OfTwo
  <2>3. Max({1, V - MaxVisible + 1}) \in 1..k
    BY <2>1, <2>2
  <2> QED
    BY <1>9, <2>3
<1>14. PICK p \in 1..k : p = m
  BY <1>13
<1>15. SubSeq(visible, p, V) \in Seq(Messages(I)) /\ Len(SubSeq(visible, p, V)) = V - p + 1
  BY <1>7, <1>9
<1>16. k - p + 1 \in 1..(V - p + 1) /\ SubSeq(visible, p, V)[k - p + 1] = visible[k]
  BY <1>7, <1>9
<1>17. k - p + 1 \in DOMAIN told /\ told[k - p + 1] = visible[k]
  <2>1. told = SubSeq(visible, p, V)
    BY <1>9, <1>14
  <2>2. DOMAIN SubSeq(visible, p, V) = 1..(V - p + 1)
    BY <1>15
  <2> QED
    BY <2>1, <2>2, <1>16
<1>18. q \in visible[k].asks
  <2>1. visible[k] = s[i]
    <3>1. f[k] + 1 = i
      BY <1>10
    <3> QED
      BY <1>6, <1>11, <3>1
  <2> QED
    BY <2>1 DEF Asks
<1> DEFINE A == UNION {told[j].asks : j \in DOMAIN told}
<1>19. Summary(old) = UserText(A)
  BY DEF Summary, Visible, visible, keep
<1> HIDE DEF told
<1>20. q \in A
  BY <1>17, <1>18
<1> HIDE DEF A
<1>21. q \in Summary(old).asks
  BY <1>19, <1>20 DEF UserText
<1> QED
  BY <1>21 DEF old

(* The start of what is kept of a dialogue, and how much that leaves.         *)
LEMMA SummaryStart ==
    ASSUME NEW I, NEW cut, NEW s \in Seq(Messages(I)), Dialogue(s, cut), Len(s) > 1
    PROVE  LET a == AdjustStartForToolPairs(s, Max({2, Len(s) - KeepRecent + 1}))
           IN  a \in DOMAIN s /\ ~ResultsOnly(s[a]) /\ Len(s) - a <= KeepRecent
<1>1. PICK n \in Nat : n = Len(s) /\ DOMAIN s = 1..n /\ n > 1
  OBVIOUS
<1>2. KeepRecent \in Nat /\ KeepRecent >= 1
  BY WindowAssumption
<1>3. 2 \in Int /\ n - KeepRecent + 1 \in Int
  BY <1>2
<1>4. /\ Max({2, n - KeepRecent + 1}) \in {2, n - KeepRecent + 1}
      /\ Max({2, n - KeepRecent + 1}) >= n - KeepRecent + 1 /\ Max({2, n - KeepRecent + 1}) >= 2
  BY Zenon, <1>3, OfTwo
<1>5. PICK start \in 1..n : start = Max({2, n - KeepRecent + 1}) /\ start >= n - KeepRecent + 1
  <2>1. Max({2, n - KeepRecent + 1}) \in 1..n
    BY <1>1, <1>2, <1>4
  <2> QED
    BY <1>4, <2>1
<1>6. PICK a : a = AdjustStartForToolPairs(s, start)
  OBVIOUS
<1>7. a \in 1..n /\ a >= start - 1 /\ ~ResultsOnly(s[a])
  BY <1>1, <1>6, AdjustsStart
<1>8. n - a <= KeepRecent
  BY <1>1, <1>2, <1>5, <1>7
<1>9. a = AdjustStartForToolPairs(s, Max({2, Len(s) - KeepRecent + 1}))
  BY <1>1, <1>5, <1>6
<1> QED
  BY <1>1, <1>7, <1>8, <1>9

(* What stands before a window: the first message, and the summary if any.   *)
LEMMA Openings ==
    ASSUME NEW I, NEW cut, NEW s \in Seq(Messages(I)), Dialogue(s, cut), s # <<>>, NEW A \in SUBSET Nat
    PROVE  Opening(<<s[1]>>, I) /\ Opening(<<s[1], UserText(A)>>, I)
<1>1. 1 \in DOMAIN s /\ s[1] \in Messages(I) /\ s[1].by = "user"
  BY DEF Dialogue
<1>2. s[1].uses = {}
  BY <1>1 DEF Messages
<1>3. ~ResultsOnly(s[1])
  BY <1>1 DEF Dialogue, Chained
<1>4. UserText(A) \in Messages(I) /\ UserText(A).uses = {} /\ ~ResultsOnly(UserText(A))
  BY TextTyped
<1>5. Opening(<<s[1]>>, I)
  BY <1>1, <1>2, <1>3 DEF Opening
<1>6. Opening(<<s[1], UserText(A)>>, I)
  <2>1. PICK u : u = UserText(A)
    OBVIOUS
  <2>2. PICK v : v = s[1]
    OBVIOUS
  <2>3. <<v, u>> \in Seq(Messages(I)) /\ <<v, u>> # <<>> /\ <<v, u>>[1] = v /\ DOMAIN <<v, u>> = 1..2
    BY <1>1, <1>4, <2>1, <2>2
  <2>4. \A i \in 1..2 : <<v, u>>[i] \in {v, u}
    OBVIOUS
  <2> QED
    BY <1>1, <1>2, <1>3, <1>4, <2>1, <2>2, <2>3, <2>4 DEF Opening
<1> QED
  BY <1>5, <1>6

(* The summary keeps the dialogue one, bounds it and still tells the question. *)
LEMMA Summarizes ==
    ASSUME NEW I, NEW cut, NEW q, NEW cm, cm.after \in Nat \ {0}, NEW s \in Seq(Messages(I)), Dialogue(s, cut)
    PROVE  LET t == SummarizeIfNeeded(cm, s)
           IN  /\ t \in Seq(Messages(I)) /\ Dialogue(t, cut)
               /\ Len(t) <= cm.after \/ Len(t) <= KeepRecent + 3
               /\ Has(s, q) /\ IsFiniteSet(Since(s, q)) /\ Cardinality(Since(s, q)) <= MaxVisible => Has(t, q)
<1> DEFINE a == AdjustStartForToolPairs(s, Max({2, Len(s) - KeepRecent + 1}))
           t == SummarizeIfNeeded(cm, s)
<1>1. PICK n \in Nat : n = Len(s) /\ DOMAIN s = 1..n
  OBVIOUS
<1>2. KeepRecent \in Nat
  BY WindowAssumption
<1>3. t = IF Len(s) <= cm.after \/ a <= 2 THEN s
          ELSE <<s[1], Summary(SubSeq(s, 2, a - 1))>> \o SubSeq(s, a, Len(s))
  BY DEF SummarizeIfNeeded
<1> HIDE DEF t
<1>4. CASE n <= cm.after
  <2>1. t = s
    BY <1>1, <1>3, <1>4
  <2> QED
    BY <1>1, <1>4, <2>1 DEF t
<1>5. CASE n > cm.after
  <2>1. n > 1 /\ Len(s) > 1 /\ s # <<>>
    BY <1>1, <1>5
  <2>2. a \in 1..n /\ ~ResultsOnly(s[a]) /\ n - a <= KeepRecent
    BY <1>1, <2>1, SummaryStart
  <2> HIDE DEF a
  <2>3. PICK b \in 1..n : b = a
    BY <2>2
  <2>4. CASE b <= 2
    <3>1. t = s
      BY <1>3, <2>3, <2>4
    <3>2. n <= KeepRecent + 3
      BY <1>2, <2>2, <2>3, <2>4
    <3> QED
      BY <1>1, <3>1, <3>2 DEF t
  <2>5. CASE b > 2
    <3> DEFINE old == SubSeq(s, 2, b - 1)
    <3>1. old \in Seq(Messages(I))
      BY <1>1, <2>5
    <3>2. PICK A \in SUBSET Nat : Summary(old) = UserText(A)
      BY <3>1, SummaryTyped
    <3> DEFINE front == <<s[1], UserText(A)>>
    <3>3. t = front \o SubSeq(s, b, Len(s))
      <4>1. ~(Len(s) <= cm.after \/ b <= 2)
        BY <1>1, <1>5, <2>5
      <4> QED
        BY <1>3, <2>3, <3>2, <4>1
    <3>4. Opening(front, I) /\ Len(front) = 2 /\ DOMAIN front = 1..2 /\ front[1] = s[1] /\ front[2] = UserText(A)
      <4>1. Opening(front, I)
        BY <2>1, Openings
      <4>2. Len(front) = 2 /\ front[1] = s[1] /\ front[2] = UserText(A)
        OBVIOUS
      <4>3. front \in Seq(Messages(I))
        BY <4>1 DEF Opening
      <4> HIDE DEF front
      <4> QED
        BY <4>1, <4>2, <4>3
    <3> HIDE DEF front, old
    <3>5. t \in Seq(Messages(I)) /\ Dialogue(t, cut) /\ Joined(t, front, s, b)
      <4>1. b \in Int /\ b \in DOMAIN s /\ ~ResultsOnly(s[b])
        BY <1>1, <2>2, <2>3
      <4>2. LET out == front \o SubSeq(s, b, Len(s))
            IN  out \in Seq(Messages(I)) /\ Dialogue(out, cut) /\ Joined(out, front, s, b)
        BY <3>4, <4>1, Rejoined
      <4> QED
        BY Zenon, <3>3, <4>2
    <3>6. Len(t) <= KeepRecent + 3
      <4>1. Len(t) = 2 + n - b + 1
        BY <1>1, <3>4, <3>5 DEF Joined
      <4> QED
        BY <1>2, <2>2, <2>3, <4>1
    <3>7. ASSUME Has(s, q), IsFiniteSet(Since(s, q)), Cardinality(Since(s, q)) <= MaxVisible PROVE Has(t, q)
      <4>1. PICK i \in 1..n : Asks(s, q, i)
        BY <1>1, <3>7 DEF Has
      <4>2. CASE i = 1
        <5>1. Asks(t, q, 1) /\ 1 \in DOMAIN t
          BY <3>4, <3>5, <4>1, <4>2 DEF Asks, Joined
        <5> QED
          BY <5>1 DEF Has
      <4>3. CASE i >= b
        <5>1. 2 + i - b + 1 \in DOMAIN t /\ t[2 + i - b + 1] = s[i]
          BY <1>1, <3>4, <3>5, <4>3 DEF Joined
        <5>2. PICK k \in DOMAIN t : t[k] = s[i]
          BY <5>1
        <5> QED
          BY <4>1, <5>2 DEF Has, Asks
      <4>4. CASE i > 1 /\ i < b
        <5>1. i \in 2..(b - 1) /\ b \in 3..Len(s)
          BY <1>1, <2>5, <4>4
        <5>2. q \in Summary(SubSeq(s, 2, b - 1)).asks
          BY <3>7, <4>1, <5>1, SummaryTells
        <5>3. q \in UserText(A).asks /\ UserText(A).text
          BY <3>2, <5>2 DEF old, UserText
        <5>4. 2 \in DOMAIN t /\ t[2] = UserText(A)
          BY <3>4, <3>5 DEF Joined
        <5> QED
          BY <5>3, <5>4 DEF Has, Asks
      <4> QED
        BY <4>2, <4>3, <4>4
    <3> QED
      BY <3>5, <3>6, <3>7 DEF t
  <2> QED
    BY <2>4, <2>5
<1> QED
  BY <1>1, <1>4, <1>5

(* A window keeps the dialogue one, and all of what fits.                    *)
LEMMA Slides ==
    ASSUME NEW I, NEW cut, NEW cm, cm.max \in Nat \ {0, 1}, NEW s \in Seq(Messages(I)), Dialogue(s, cut)
    PROVE  LET t == ApplySlidingWindow(cm, s)
           IN  t \in Seq(Messages(I)) /\ Dialogue(t, cut) /\ (Len(s) <= cm.max => t = s)
<1> DEFINE start == Len(s) - cm.max + 2
           t == ApplySlidingWindow(cm, s)
<1>1. t = IF Len(s) <= cm.max THEN s ELSE <<s[1]>> \o SubSeq(s, AdjustStartForToolPairs(s, start), Len(s))
  BY DEF ApplySlidingWindow
<1>2. CASE Len(s) <= cm.max
  BY <1>1, <1>2
<1>3. CASE ~(Len(s) <= cm.max)
  <2>1. DOMAIN s = 1..Len(s) /\ start \in DOMAIN s /\ s # <<>>
    BY <1>3
  <2> HIDE DEF start
  <2>2. PICK a : a = AdjustStartForToolPairs(s, start)
    OBVIOUS
  <2>3. a \in Int /\ a \in DOMAIN s /\ ~ResultsOnly(s[a])
    BY <2>1, <2>2, AdjustsStart
  <2>4. Opening(<<s[1]>>, I)
    BY <2>1, Openings
  <2>5. LET out == <<s[1]>> \o SubSeq(s, a, Len(s))
        IN  out \in Seq(Messages(I)) /\ Dialogue(out, cut)
    BY <2>3, <2>4, Rejoined
  <2>6. t = <<s[1]>> \o SubSeq(s, a, Len(s))
    BY <1>1, <1>3, <2>2
  <2> HIDE DEF t
  <2>7. t \in Seq(Messages(I)) /\ Dialogue(t, cut)
    BY Zenon, <2>5, <2>6
  <2> QED
    BY <1>3, <2>7 DEF t
<1> QED
  BY <1>2, <1>3

(* In a dialogue no results are without the call they answer.                *)
LEMMA DropsNoResults ==
    ASSUME NEW I, NEW cut, NEW q, NEW s \in Seq(Messages(I)), Dialogue(s, cut)
    PROVE  LET t == EnsureValidToolChains(s)
           IN  t \in Seq(Messages(I)) /\ Dialogue(t, cut) /\ (Has(s, q) => Has(t, q))
<1> DEFINE keep == {i \in DOMAIN s : ~Orphaned(s, i)}
<1>1. DOMAIN s = 1..Len(s) /\ Len(s) \in Nat
  OBVIOUS
<1>2. ASSUME NEW i \in DOMAIN s PROVE ~Orphaned(s, i)
  BY DEF Orphaned, ResultsOnly, Dialogue, Chained
<1>3. keep = DOMAIN s
  BY <1>2
<1>4. EnsureValidToolChains(s) = Pick(s, DOMAIN s)
  BY <1>3 DEF EnsureValidToolChains
<1>5. DOMAIN s \in SUBSET DOMAIN s /\ (s # <<>> => 1 \in DOMAIN s)
  BY <1>1
<1>6. \A i \in DOMAIN s : ResultsOnly(s[i]) => i - 1 \in DOMAIN s
  BY <1>1 DEF Dialogue, Chained
<1>7. \A i \in DOMAIN s : s[i].uses \ cut # {} => i + 1 \in DOMAIN s
  BY <1>1 DEF Dialogue, Chained
<1>8. Pick(s, DOMAIN s) \in Seq(Messages(I)) /\ Dialogue(Pick(s, DOMAIN s), cut)
  BY <1>5, <1>6, <1>7, PickChained
<1>9. Has(s, q) => Has(Pick(s, DOMAIN s), q)
  BY <1>5, PickReadable
<1> QED
  BY <1>4, <1>8, <1>9

LEMMA SinceFinite ==
    ASSUME NEW M, NEW s \in Seq(M), NEW q
    PROVE  IsFiniteSet(Since(s, q)) /\ Cardinality(Since(s, q)) \in Nat
<1>1. Since(s, q) \in SUBSET (1..Len(s)) /\ Len(s) \in Nat
  BY DEF Since
<1>2. IsFiniteSet(1..Len(s))
  BY <1>1, FS_Interval
<1> QED
  BY <1>1, <1>2, FS_Subset, FS_CardinalityType

(* What is sent of a dialogue is one, for any limits, and it asks the question *)
(* if the window is longer than what a summary leaves and the summary has a  *)
(* line for each message one can read since the question.                   *)
THEOREM Processed ==
    ASSUME NEW I, NEW cut, NEW q, NEW pins, NEW cm, cm.max \in Nat \ {0, 1}, cm.after \in Nat \ {0},
           NEW s \in Seq(Messages(I)), Dialogue(s, cut)
    PROVE  LET t == ProcessMessages(cm, s, pins)
           IN  /\ t \in Seq(Messages(I)) /\ Dialogue(t, cut)
               /\ /\ cm.max > KeepRecent + 2 /\ cm.after < cm.max
                  /\ Has(s, q) /\ Cardinality(Since(s, q)) <= MaxVisible
                  => Has(t, q)
<1>1. PICK clean : clean = DropThinking(s)
  OBVIOUS
<1>2. PICK compact : compact = IF CompactRounds THEN DropCompletedToolRoundPairs(clean, pins) ELSE clean
  OBVIOUS
<1>3. PICK short : short = TruncateToolResults(compact, pins)
  OBVIOUS
<1>4. PICK told : told = SummarizeIfNeeded(cm, short)
  OBVIOUS
<1>5. PICK part : part = ApplySlidingWindow(cm, told)
  OBVIOUS
<1>6. ProcessMessages(cm, s, pins) = EnsureValidToolChains(part)
  BY <1>1, <1>2, <1>3, <1>4, <1>5 DEF ProcessMessages
<1>7. /\ clean \in Seq(Messages(I)) /\ Dialogue(clean, cut)
      /\ Has(s, q) => Has(clean, q)
      /\ Since(clean, q) = Since(s, q)
  <2>1. clean \in Seq(Messages(I)) /\ Alike(s, clean)
    BY <1>1, DropsThinking
  <2> QED
    BY <2>1, AlikeKeeps
<1>8. /\ compact \in Seq(Messages(I)) /\ Dialogue(compact, cut)
      /\ Has(clean, q) => Has(compact, q) /\ Cardinality(Since(compact, q)) <= Cardinality(Since(clean, q))
  <2>1. Cardinality(Since(clean, q)) \in Nat
    BY <1>7, SinceFinite
  <2>2. CASE CompactRounds
    BY <1>2, <1>7, <2>2, DropsRounds
  <2>3. CASE ~CompactRounds
    BY <1>2, <1>7, <2>1, <2>3
  <2> QED
    BY <2>2, <2>3
<1>9. /\ short \in Seq(Messages(I)) /\ Dialogue(short, cut)
      /\ Has(compact, q) => Has(short, q)
      /\ Since(short, q) = Since(compact, q)
  <2>1. short \in Seq(Messages(I)) /\ Alike(compact, short)
    BY <1>3, <1>8, TruncatesResults
  <2> QED
    BY <1>8, <2>1, AlikeKeeps
<1>10. IsFiniteSet(Since(short, q)) /\ Cardinality(Since(short, q)) \in Nat
       /\ Cardinality(Since(s, q)) \in Nat
  BY <1>9, SinceFinite
<1>11. /\ told \in Seq(Messages(I)) /\ Dialogue(told, cut)
       /\ Len(told) <= cm.after \/ Len(told) <= KeepRecent + 3
       /\ Has(short, q) /\ Cardinality(Since(short, q)) <= MaxVisible => Has(told, q)
  BY <1>4, <1>9, <1>10, Summarizes
<1>12. part \in Seq(Messages(I)) /\ Dialogue(part, cut) /\ (Len(told) <= cm.max => part = told)
  BY <1>5, <1>11, Slides
<1>13. PICK out : out = EnsureValidToolChains(part)
  OBVIOUS
<1>14. out \in Seq(Messages(I)) /\ Dialogue(out, cut) /\ (Has(part, q) => Has(out, q))
  BY <1>12, <1>13, DropsNoResults
<1>15. ASSUME cm.max > KeepRecent + 2, cm.after < cm.max, Has(s, q), Cardinality(Since(s, q)) <= MaxVisible
       PROVE  Has(out, q)
  <2>1. Len(told) <= cm.max
    <3>1. Len(told) \in Nat
      BY <1>11
    <3>2. PICK n \in Nat : n = Len(told)
      BY <3>1
    <3>3. PICK top \in Nat, after \in Nat : top = cm.max /\ after = cm.after
      OBVIOUS
    <3>4. n <= after \/ n <= KeepRecent + 3
      BY <1>11, <3>2, <3>3
    <3>5. top > KeepRecent + 2 /\ after < top
      BY <1>15, <3>3
    <3>6. n <= top
      BY <3>4, <3>5, WindowAssumption
    <3> QED
      BY <3>2, <3>3, <3>6
  <2>2. Cardinality(Since(short, q)) <= MaxVisible
    <3>1. PICK x \in Nat, y \in Nat : x = Cardinality(Since(short, q)) /\ y = Cardinality(Since(s, q))
      BY <1>10
    <3>2. x <= y
      BY <1>7, <1>8, <1>9, <1>15, <3>1
    <3>3. y <= MaxVisible
      BY <1>15, <3>1
    <3>4. x <= MaxVisible
      BY <3>2, <3>3, WindowAssumption
    <3> QED
      BY <3>1, <3>4
  <2>3. Has(short, q)
    BY <1>7, <1>8, <1>9, <1>15
  <2> QED
    BY <1>11, <1>12, <1>14, <2>1, <2>2, <2>3
<1> QED
  BY <1>6, <1>13, <1>14, <1>15
=============================================================================
