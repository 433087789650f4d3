-------------------------- MODULE RunBuffersProofs --------------------------
(***************************************************************************)
(* Proofs about RunBuffers. Of MemoryRunBuffer for any number of           *)
(* connections and workers and any bounds: type correctness, what is       *)
(* retained, what readers are sent, and that the buffer implements         *)
(* RunStream. Of RedisRunBuffer, that RedisRunBufferProofs holds of it as  *)
(* a part.                                                                 *)
(***************************************************************************)
EXTENDS RunBuffers, SequenceTheorems, TLAPS

USE DEF Sentinel

\* What the buffer keeps of its list after an append (append, _MAX_CHUNKS).
LEMMA TrimKeepsTheNewest ==
    ASSUME BufferAssumption, TypeOK, NewestRetained
    PROVE  LET t == Trim(Append(chunks, nextSeq)) IN
           /\ t \in Seq(Nat) /\ Len(t) <= MaxChunksPerRun
           /\ \A i \in 1..Len(t) : t[i] = nextSeq + 1 - Len(t) + i - 1
           /\ Len(t) = IF nextSeq + 1 < MaxChunksPerRun THEN nextSeq + 1 ELSE MaxChunksPerRun
           /\ nextSeq - Len(chunks) <= nextSeq + 1 - Len(t)
<1> DEFINE s == Append(chunks, nextSeq)
           t == Trim(s)
<1>1. chunks \in Seq(Nat) /\ nextSeq \in Nat /\ Len(chunks) \in Nat /\ Len(chunks) <= MaxChunksPerRun
      /\ MaxChunksPerRun \in Nat \ {0}
  BY DEF TypeOK, BufferAssumption
<1>2. /\ s \in Seq(Nat) /\ Len(s) = Len(chunks) + 1
      /\ \A i \in 1..Len(s) : s[i] = nextSeq + 1 - Len(s) + i - 1
  <2>1. /\ s \in Seq(Nat) /\ Len(s) = Len(chunks) + 1
        /\ \A i \in 1..Len(chunks) : s[i] = chunks[i]
        /\ s[Len(chunks) + 1] = nextSeq
    BY <1>1, AppendProperties
  <2> HIDE DEF s
  <2>2. ASSUME NEW i \in 1..Len(s)  PROVE s[i] = nextSeq + 1 - Len(s) + i - 1
    <3>1. CASE i \in 1..Len(chunks)
      <4>1. s[i] = chunks[i] /\ chunks[i] = nextSeq - Len(chunks) + i - 1
        BY <2>1, <3>1 DEF NewestRetained
      <4> QED  BY <4>1, <2>1, <1>1, <3>1
    <3>2. CASE i = Len(chunks) + 1
      BY <3>2, <2>1, <1>1
    <3> QED  BY <3>1, <3>2, <2>1, <1>1
  <2> QED  BY <2>1, <2>2
<1>3. CASE Len(s) > MaxChunksPerRun
  <2>1. t = Tail(s) /\ s # <<>>
    BY <1>2, <1>3, <1>1 DEF Trim
  <2>2. t \in Seq(Nat) /\ Len(t) = Len(s) - 1 /\ \A i \in 1..Len(t) : t[i] = s[i + 1]
    BY <2>1, <1>2, HeadTailProperties
  <2> HIDE DEF t, s
  <2>3. \A i \in 1..Len(t) : t[i] = nextSeq + 1 - Len(t) + i - 1
    BY <2>2, <1>2, <1>1
  <2>4. Len(t) = IF nextSeq + 1 < MaxChunksPerRun THEN nextSeq + 1 ELSE MaxChunksPerRun
    BY <2>2, <1>2, <1>1, <1>3 DEF NewestRetained
  <2>5. nextSeq - Len(chunks) <= nextSeq + 1 - Len(t) /\ Len(t) <= MaxChunksPerRun
    BY <2>2, <1>2, <1>1, <1>3
  <2> QED  BY <2>2, <2>3, <2>4, <2>5 DEF t, s
<1>4. CASE ~(Len(s) > MaxChunksPerRun)
  <2>1. t = s
    BY <1>4 DEF Trim
  <2> HIDE DEF t, s
  <2> QED  BY <2>1, <1>2, <1>1, <1>4 DEF NewestRetained, t, s
<1> QED  BY <1>3, <1>4

\* What a subscription replays: the retained chunks after a, up to the newest.
LEMMA RetainedAfterIsASuffix ==
    ASSUME BufferAssumption, TypeOK, NewestRetained,
           NEW a \in -1..(nextSeq - 1)
    PROVE  LET r == RetainedAfter(a) IN
           /\ r \in Seq(Nat)
           /\ \A i \in 1..Len(r) : r[i] = nextSeq - Len(r) + i - 1
           /\ Len(r) <= nextSeq
           /\ \/ Len(r) = nextSeq - 1 - a
              \/ /\ a + 1 < nextSeq - Len(r)
                 /\ a + 1 < nextSeq - Len(chunks)
                 /\ r # <<>>
<1> DEFINE r == RetainedAfter(a)
<1>1. chunks \in Seq(Nat) /\ nextSeq \in Nat /\ Len(chunks) \in Nat /\ a \in Int
      /\ MaxChunksPerRun \in Nat \ {0} /\ -1 <= a /\ a <= nextSeq - 1
  BY DEF TypeOK, BufferAssumption
<1>2. Len(chunks) <= nextSeq /\ (chunks = <<>> => nextSeq = 0)
  BY <1>1 DEF NewestRetained
<1>3. CASE chunks = <<>> \/ a >= nextSeq - 1
  <2>1. r = <<>> /\ a = nextSeq - 1
    BY <1>1, <1>2, <1>3 DEF RetainedAfter
  <2> QED  BY <2>1, <1>1
<1>4. CASE chunks # <<>> /\ a < nextSeq - 1 /\ a < chunks[1]
  <2>1. r = chunks /\ chunks[1] = nextSeq - Len(chunks) /\ Len(chunks) > 0
    BY <1>1, <1>4 DEF RetainedAfter, NewestRetained
  <2>2. \A i \in 1..Len(r) : r[i] = nextSeq - Len(r) + i - 1
    BY <2>1 DEF NewestRetained
  <2> HIDE DEF r
  <2> QED  BY <2>1, <2>2, <1>1, <1>2, <1>4 DEF r
<1>5. CASE chunks # <<>> /\ a < nextSeq - 1 /\ ~(a < chunks[1])
  <2>1. chunks[1] = nextSeq - Len(chunks) /\ Len(chunks) > 0
    BY <1>1, <1>5 DEF NewestRetained
  <2> DEFINE m == a - chunks[1] + 2
  <2>2. r = SubSeq(chunks, m, Len(chunks)) /\ m \in 1..Len(chunks)
    BY <1>1, <1>5, <2>1 DEF RetainedAfter
  <2>3. /\ r \in Seq(Nat) /\ Len(r) = Len(chunks) - m + 1
        /\ \A i \in 1..Len(r) : r[i] = chunks[m + i - 1]
    <3>1. \A i \in m..Len(chunks) : chunks[i] \in Nat
      BY <1>1, <2>2
    <3> HIDE DEF r, m
    <3> QED  BY <2>2, <1>1, <3>1, SubSeqProperties
  <2>4. Len(r) = nextSeq - 1 - a
    BY <2>3, <2>1, <1>1
  <2> HIDE DEF r, m
  <2>5. ASSUME NEW i \in 1..Len(r)  PROVE r[i] = nextSeq - Len(r) + i - 1
    <3>1. m \in Int /\ m + i - 1 \in 1..Len(chunks) /\ i \in Int
      BY <2>2, <2>3, <1>1
    <3>2. chunks[m + i - 1] = nextSeq - Len(chunks) + (m + i - 1) - 1
      BY <3>1 DEF NewestRetained
    <3>3. r[i] = chunks[m + i - 1]
      BY <2>3
    <3>4. Len(r) = Len(chunks) - m + 1
      BY <2>3
    <3> QED  BY <3>1, <3>2, <3>3, <3>4, <1>1
  <2>6. Len(r) <= nextSeq
    BY <2>4, <1>1
  <2> QED  BY <2>3, <2>4, <2>5, <2>6 DEF r
<1> QED  BY <1>3, <1>4, <1>5, <1>1

----------------------------------------------------------------------------
(* The inductive invariant. *)

\* A buffer fresh from __init__ satisfies the invariant.
LEMMA InitEstablishesIInv == ASSUME BufferAssumption, Init  PROVE IInv
<1>1. TypeOK
  <2>1. <<>> \in Seq(Nat) /\ <<>> \in Seq(Nat \cup {Sentinel}) /\ Len(<<>>) = 0
    OBVIOUS
  <2>2. chunks \in Seq(Nat) /\ Len(chunks) <= MaxChunksPerRun
    BY <2>1 DEF Init, BufferAssumption
  <2>3. /\ replay \in [Conns -> Seq(Nat)] /\ got \in [Conns -> Seq(Nat)]
        /\ queue \in [Conns -> Seq(Nat \cup {Sentinel})]
    BY <2>1 DEF Init
  <2>4. \A c \in Conns : Len(queue[c]) <= SubscriberQueueMax
    BY <2>1 DEF Init, BufferAssumption
  <2>5. /\ nextSeq \in Nat /\ subscribers \subseteq Conns
        /\ after \in [Conns -> Int] /\ start \in [Conns -> Nat]
    BY DEF Init
  <2>8. done \in BOOLEAN /\ isDone \in [Conns -> BOOLEAN]
    BY DEF Init
  <2>6. cpc \in [Conns -> {"new", "replay", "tail", "closed", "gone"}]
    BY DEF Init
  <2>7. /\ wpc \in [Workers -> {"streaming", "finishing", "finished"}]
        /\ toEnd \in [Workers -> SUBSET Conns]
        /\ awaiting \in [Workers -> Conns \cup {None}]
    BY DEF Init
  <2> QED  BY <2>2, <2>3, <2>4, <2>5, <2>6, <2>7, <2>8 DEF TypeOK
<1>2. NewestRetained
  BY DEF Init, NewestRetained, BufferAssumption
<1>3. WriterInv
  BY DEF Init, WriterInv
<1>4. ASSUME NEW c \in Conns  PROVE ConnInv(c)
  <2>1. /\ got[c] = <<>> /\ replay[c] = <<>> /\ queue[c] = <<>> /\ start[c] = 0
        /\ after[c] = -1 /\ nextSeq = 0 /\ cpc[c] = "new" /\ isDone[c] = FALSE
        /\ subscribers = {}
    BY DEF Init
  <2>2. \A w \in Workers : ~Owed(w, c)
    BY DEF Init, Owed, BufferAssumption
  <2>3. StartInv(c) /\ ContentInv(c)
    BY <2>1 DEF StartInv, ContentInv, Ahead
  <2>4. EndInv(c) /\ PhaseInv(c)
    BY <2>1, <2>2 DEF EndInv, PhaseInv
  <2> QED  BY <2>3, <2>4 DEF ConnInv
<1> QED  BY <1>1, <1>2, <1>3, <1>4 DEF IInv

\* The shape of the variables of one connection, from the type invariant.
LEMMA ConnTypes ==
    ASSUME TypeOK, NEW c \in Conns
    PROVE  /\ replay[c] \in Seq(Nat) /\ Len(replay[c]) \in Nat
           /\ queue[c] \in Seq(Nat \cup {Sentinel}) /\ Len(queue[c]) \in Nat
           /\ got[c] \in Seq(Nat) /\ Len(got[c]) \in Nat
           /\ start[c] \in Nat /\ after[c] \in Int /\ nextSeq \in Nat
           /\ chunks \in Seq(Nat) /\ Len(chunks) \in Nat
           /\ Ahead(c) \in Nat /\ Flow(c) \in Nat
BY DEF TypeOK, Ahead, Flow

\* A step that leaves a connection and the buffer alone keeps its invariant.
LEMMA ConnFrame ==
    ASSUME NEW c \in Conns, ConnInv(c),
           start'[c] = start[c], got'[c] = got[c], replay'[c] = replay[c],
           queue'[c] = queue[c], after'[c] = after[c], isDone'[c] = isDone[c],
           cpc'[c] = cpc[c] \/ cpc'[c] = "gone",
           nextSeq' = nextSeq, chunks' = chunks, done' = done,
           c \in subscribers' => c \in subscribers,
           \A w \in Workers : Owed(w, c)' => Owed(w, c)
    PROVE  ConnInv(c)'
<1>1. StartInv(c)' /\ ContentInv(c)'
  BY DEF ConnInv, StartInv, ContentInv, Ahead
<1>2. EndInv(c)'
  BY DEF ConnInv, EndInv, NoSentinel, Flow, Ahead
<1>3. PhaseInv(c)'
  BY DEF ConnInv, PhaseInv, Flow, Ahead
<1> QED  BY <1>1, <1>2, <1>3 DEF ConnInv
\* append extends the flow of every listed subscriber that has room, and
\* drops the others from the list.
LEMMA AppendChunkStep ==
    ASSUME BufferAssumption, IInv, NEW w \in Workers, AppendChunk(w)
    PROVE  IInv'
<1> DEFINE t == Trim(Append(chunks, nextSeq))
<1>0. TypeOK /\ NewestRetained /\ WriterInv /\ ~done
  BY DEF IInv, AppendChunk, Accepts
<1>1. /\ t \in Seq(Nat) /\ Len(t) <= MaxChunksPerRun
      /\ \A i \in 1..Len(t) : t[i] = nextSeq + 1 - Len(t) + i - 1
      /\ Len(t) = IF nextSeq + 1 < MaxChunksPerRun THEN nextSeq + 1 ELSE MaxChunksPerRun
      /\ nextSeq - Len(chunks) <= nextSeq + 1 - Len(t)
  BY <1>0, TrimKeepsTheNewest
<1>2. /\ nextSeq' = nextSeq + 1 /\ chunks' = t /\ done' = done
      /\ subscribers' = {c \in subscribers : ~Full(c)}
      /\ wpc' = wpc /\ toEnd' = toEnd /\ awaiting' = awaiting
      /\ cpc' = cpc /\ isDone' = isDone /\ after' = after /\ replay' = replay
      /\ start' = start /\ got' = got
      /\ queue' = [c \in Conns |-> IF c \in subscribers /\ ~Full(c)
                                     THEN Append(queue[c], nextSeq) ELSE queue[c]]
  BY DEF AppendChunk, writer, reader
<1> HIDE DEF t
<1>3. ASSUME NEW c \in Conns
      PROVE  /\ queue'[c] \in Seq(Nat \cup {Sentinel})
             /\ Len(queue'[c]) <= SubscriberQueueMax
             /\ c \in subscribers' => /\ Len(queue'[c]) = Len(queue[c]) + 1
                                      /\ queue'[c][Len(queue[c]) + 1] = nextSeq
                                      /\ \A i \in 1..Len(queue[c]) : queue'[c][i] = queue[c][i]
             /\ c \notin subscribers' => queue'[c] = queue[c]
  <2>1. queue[c] \in Seq(Nat \cup {Sentinel}) /\ nextSeq \in Nat \cup {Sentinel}
        /\ Len(queue[c]) <= SubscriberQueueMax /\ Len(queue[c]) \in Nat
    BY <1>0 DEF TypeOK
  <2>2. CASE c \in subscribers'
    <3>1. queue'[c] = Append(queue[c], nextSeq) /\ ~Full(c)
      BY <1>2, <2>2
    <3>2. /\ queue'[c] \in Seq(Nat \cup {Sentinel}) /\ Len(queue'[c]) = Len(queue[c]) + 1
          /\ queue'[c][Len(queue[c]) + 1] = nextSeq
          /\ \A i \in 1..Len(queue[c]) : queue'[c][i] = queue[c][i]
      BY <3>1, <2>1, AppendProperties
    <3>3. Len(queue[c]) + 1 <= SubscriberQueueMax
      BY <3>1, <2>1 DEF Full, BufferAssumption
    <3> QED  BY <3>2, <3>3, <2>2
  <2>3. CASE c \notin subscribers'
    <3>1. queue'[c] = queue[c]
      BY <1>2, <2>3
    <3> QED  BY <3>1, <2>1, <2>3
  <2> QED  BY <2>2, <2>3
<1>4. TypeOK'
  <2>1. queue' \in [Conns -> Seq(Nat \cup {Sentinel})]
    BY <1>2, <1>3
  <2>2. nextSeq' \in Nat /\ chunks' \in Seq(Nat) /\ Len(chunks') <= MaxChunksPerRun
    BY <1>2, <1>1, <1>0 DEF TypeOK
  <2>3. subscribers' \subseteq Conns
    BY <1>2, <1>0 DEF TypeOK
  <2> QED  BY <2>1, <2>2, <2>3, <1>0, <1>2, <1>3 DEF TypeOK
<1>5. NewestRetained'
  <2>1. nextSeq' = nextSeq + 1 /\ chunks' = t
    BY <1>2
  <2>2. nextSeq \in Nat /\ Len(t) \in Nat
    BY <1>0, <1>1 DEF TypeOK
  <2> QED  BY <1>1, <2>1, <2>2 DEF NewestRetained
<1>6. WriterInv'
  <2>1. wpc' = wpc /\ toEnd' = toEnd /\ awaiting' = awaiting /\ done' = done
    BY <1>2
  <2> QED  BY <1>0, <2>1 DEF WriterInv
<1>7. ASSUME NEW c \in Conns  PROVE ConnInv(c)'
  <2>1. /\ start'[c] = start[c] /\ got'[c] = got[c] /\ replay'[c] = replay[c]
        /\ after'[c] = after[c] /\ cpc'[c] = cpc[c]
        /\ nextSeq' = nextSeq + 1 /\ chunks' = t
    BY <1>2
  <2>2. done' = done /\ isDone'[c] = isDone[c] /\ \A v \in Workers : Owed(v, c)' <=> Owed(v, c)
    BY <1>2 DEF Owed
  <2>3. StartInv(c) /\ ContentInv(c) /\ EndInv(c) /\ PhaseInv(c)
    BY DEF IInv, ConnInv
  <2>4. /\ Len(replay[c]) \in Nat /\ Len(queue[c]) \in Nat /\ Len(got[c]) \in Nat
        /\ start[c] \in Nat /\ after[c] \in Int /\ nextSeq \in Nat /\ Ahead(c) \in Nat
        /\ Len(chunks) \in Nat /\ Len(t) \in Nat
    BY <1>0, <1>1, ConnTypes
  <2>a. Ahead(c)' = Ahead(c)
    BY <2>1 DEF Ahead
  <2>5. StartInv(c)'
    BY <2>1, <2>3, <2>4, <1>1 DEF StartInv
  <2>6. \A i \in 1..Len(queue[c]) :
          queue[c][i] # Sentinel =>
             /\ queue[c][i] = Ahead(c) + i - 1
             /\ queue[c][i] < nextSeq
    BY <2>3 DEF ContentInv
  <2>7. ASSUME \A i \in 1..Len(queue'[c]) :
                 queue'[c][i] # Sentinel =>
                    /\ queue'[c][i] = Ahead(c) + i - 1
                    /\ queue'[c][i] < nextSeq + 1
        PROVE  ContentInv(c)'
    <3>1. /\ \A i \in 1..Len(got[c]) : got[c][i] = start[c] + i - 1
          /\ \A i \in 1..Len(replay[c]) : replay[c][i] = start[c] + Len(got[c]) + i - 1
          /\ Ahead(c) <= nextSeq
      BY <2>3 DEF ContentInv
    <3>2. Ahead(c) <= nextSeq + 1
      BY <3>1, <2>4
    <3> QED  BY <2>1, <2>a, <2>7, <3>1, <3>2 DEF ContentInv
  <2>8. CASE c \in subscribers'
    <3>1. /\ Len(queue'[c]) = Len(queue[c]) + 1
          /\ queue'[c][Len(queue[c]) + 1] = nextSeq
          /\ \A i \in 1..Len(queue[c]) : queue'[c][i] = queue[c][i]
      BY <2>8, <1>3
    <3>2. NoSentinel(c) /\ c \in subscribers
      BY <2>3, <2>8, <1>2 DEF EndInv
    <3>3. Ahead(c) + Len(queue[c]) = nextSeq
      BY <2>3, <3>2 DEF EndInv, Flow
    <3>4. \A i \in 1..Len(queue[c]) : queue[c][i] # Sentinel
      BY <3>2 DEF NoSentinel
    <3>5. ASSUME NEW i \in 1..Len(queue'[c])
          PROVE  /\ queue'[c][i] # Sentinel
                 /\ queue'[c][i] = Ahead(c) + i - 1
                 /\ queue'[c][i] < nextSeq + 1
      <4>1. CASE i \in 1..Len(queue[c])
        <5>1. queue'[c][i] = queue[c][i] /\ queue[c][i] # Sentinel
          BY <3>1, <3>4, <4>1
        <5>2. /\ queue[c][i] = Ahead(c) + i - 1
              /\ queue[c][i] < nextSeq
          BY <5>1, <4>1, <2>6
        <5>3. i \in Int
          BY <4>1
        <5> QED  BY <5>1, <5>2, <5>3, <2>4
      <4>2. CASE i = Len(queue[c]) + 1
        BY <3>1, <3>3, <4>2, <2>4
      <4> QED  BY <4>1, <4>2, <3>1, <2>4
    <3>6. ContentInv(c)'
      BY <3>5, <2>7
    <3>7. NoSentinel(c)'
      BY <3>5 DEF NoSentinel
    <3>8. Flow(c)' = nextSeq'
      <4>1. Ahead(c) + (Len(queue[c]) + 1) = nextSeq + 1
        BY <3>3, <2>4
      <4>2. Flow(c)' = Ahead(c) + (Len(queue[c]) + 1)
        BY <3>1, <2>a DEF Flow
      <4> QED  BY <4>1, <4>2, <2>1
    <3>9. \A v \in Workers : ~Owed(v, c)
      BY <2>3, <1>0 DEF EndInv
    <3>10. EndInv(c)'
      BY <3>5, <3>7, <3>8, <3>9, <2>2, <1>0 DEF EndInv
    <3>11. ~isDone[c] /\ cpc[c] # "new" /\ cpc[c] # "closed"
      BY <2>3, <3>2, <1>0 DEF PhaseInv
    <3>12. PhaseInv(c)'
      BY <3>11, <2>1, <2>2, <2>3 DEF PhaseInv
    <3> QED  BY <2>5, <3>6, <3>10, <3>12 DEF ConnInv
  <2>9. CASE c \notin subscribers'
    <3>1. queue'[c] = queue[c]
      BY <1>3, <2>9
    <3>2. ContentInv(c)'
      <4>1. ASSUME NEW i \in 1..Len(queue[c]), queue[c][i] # Sentinel
            PROVE  queue[c][i] < nextSeq + 1
        <5>1. /\ queue[c][i] = Ahead(c) + i - 1
              /\ queue[c][i] < nextSeq
          BY <4>1, <2>6
        <5>2. i \in Int
          OBVIOUS
        <5> QED  BY <5>1, <5>2, <2>4
      <4> QED  BY <4>1, <3>1, <2>6, <2>7
    <3>3. \A i \in 1..Len(queue[c]) : queue[c][i] # Sentinel
      BY <2>3, <1>0 DEF EndInv
    <3>4. \A v \in Workers : ~Owed(v, c)
      BY <2>3, <1>0 DEF EndInv
    <3>5. EndInv(c)'
      BY <3>1, <3>3, <3>4, <2>2, <2>9 DEF EndInv
    <3>6. ~isDone[c] /\ cpc[c] # "closed"
      BY <2>3, <1>0 DEF PhaseInv
    <3>7. PhaseInv(c)'
      BY <3>1, <3>4, <3>6, <2>1, <2>2, <2>3, <2>9 DEF PhaseInv
    <3> QED  BY <2>5, <3>2, <3>5, <3>7 DEF ConnInv
  <2> QED  BY <2>8, <2>9
<1> QED  BY <1>4, <1>5, <1>6, <1>7 DEF IInv
\* What the finish loop owes after it moved on: one of the queues it had
\* left, or nothing when there is none left.
LEMMA PutNextOwes ==
    ASSUME TypeOK, WriterInv, NEW w \in Workers, NEW left \in SUBSET Conns,
           PutNext(w, left),
           wpc[w] = "finishing" => left = toEnd[w],
           wpc[w] # "finishing" => \A v \in Workers \ {w} : \A c \in left : ~Owed(v, c),
           None \notin Conns,
           done'
    PROVE  /\ WriterInv'
           /\ wpc' \in [Workers -> {"streaming", "finishing", "finished"}]
           /\ toEnd' \in [Workers -> SUBSET Conns]
           /\ awaiting' \in [Workers -> Conns \cup {None}]
           /\ \A c \in Conns : Owed(w, c)' <=> c \in left
           /\ \A v \in Workers \ {w} : \A c \in Conns : Owed(v, c)' <=> Owed(v, c)
<1>1. /\ wpc \in [Workers -> {"streaming", "finishing", "finished"}]
      /\ toEnd \in [Workers -> SUBSET Conns]
      /\ awaiting \in [Workers -> Conns \cup {None}]
  BY DEF TypeOK
<1>2. /\ wpc' \in [Workers -> {"streaming", "finishing", "finished"}]
      /\ toEnd' \in [Workers -> SUBSET Conns]
      /\ awaiting' \in [Workers -> Conns \cup {None}]
  BY <1>1 DEF PutNext
<1>3. /\ toEnd'[w] \subseteq left /\ (awaiting'[w] = None \/ awaiting'[w] \in left)
      /\ awaiting'[w] \notin toEnd'[w]
      /\ \A c \in Conns : (c \in toEnd'[w] \/ awaiting'[w] = c) <=> c \in left
      /\ wpc'[w] = "finishing" => awaiting'[w] \in Conns
      /\ wpc'[w] # "finishing" => awaiting'[w] = None /\ toEnd'[w] = {}
  BY <1>1 DEF PutNext
<1>4. \A v \in Workers \ {w} : wpc'[v] = wpc[v] /\ toEnd'[v] = toEnd[v] /\ awaiting'[v] = awaiting[v]
  BY <1>1 DEF PutNext
<1>5. \A v \in Workers \ {w} : \A c \in left : c \notin toEnd[v] /\ awaiting[v] # c
  BY <1>1 DEF WriterInv, Owed
<1>6. WriterInv'
  <2> SUFFICES ASSUME NEW u \in Workers
               PROVE  /\ wpc'[u] = "finishing" => awaiting'[u] \in Conns
                      /\ wpc'[u] # "finishing" => awaiting'[u] = None /\ toEnd'[u] = {}
                      /\ awaiting'[u] \notin toEnd'[u]
                      /\ \A v \in Workers \ {u} :
                            (toEnd'[u] \cup {awaiting'[u]}) \cap (toEnd'[v] \cup {awaiting'[v]})
                              \subseteq {None}
    BY DEF WriterInv
  <2>1. /\ wpc'[u] = "finishing" => awaiting'[u] \in Conns
        /\ wpc'[u] # "finishing" => awaiting'[u] = None /\ toEnd'[u] = {}
        /\ awaiting'[u] \notin toEnd'[u]
    BY <1>3, <1>4 DEF WriterInv
  <2>2. ASSUME NEW v \in Workers \ {u}
        PROVE  (toEnd'[u] \cup {awaiting'[u]}) \cap (toEnd'[v] \cup {awaiting'[v]}) \subseteq {None}
    <3>1. CASE u # w /\ v # w
      BY <3>1, <1>4 DEF WriterInv
    <3>2. CASE u = w
      <4>1. v \in Workers \ {w} /\ toEnd'[v] = toEnd[v] /\ awaiting'[v] = awaiting[v]
        BY <3>2, <1>4
      <4>2. \A c \in left : c \notin toEnd[v] /\ awaiting[v] # c
        BY <4>1, <1>5
      <4>3. None \notin toEnd[v] /\ None \notin left
        BY <1>1
      <4> QED  BY <3>2, <4>1, <4>2, <4>3, <1>3
    <3>3. CASE v = w
      <4>1. u \in Workers \ {w} /\ toEnd'[u] = toEnd[u] /\ awaiting'[u] = awaiting[u]
        BY <3>3, <1>4
      <4>2. \A c \in left : c \notin toEnd[u] /\ awaiting[u] # c
        BY <4>1, <1>5
      <4>3. None \notin toEnd[u] /\ None \notin left
        BY <1>1
      <4> QED  BY <3>3, <4>1, <4>2, <4>3, <1>3
    <3> QED  BY <3>1, <3>2, <3>3
  <2> QED  BY <2>1, <2>2
<1> QED  BY <1>2, <1>3, <1>4, <1>6 DEF Owed
\* finish hands every listed subscriber over to its own loop.
LEMMA FinishBeginStep ==
    ASSUME BufferAssumption, IInv, NEW w \in Workers, FinishBegin(w)
    PROVE  IInv'
<1>1. /\ wpc[w] = "streaming" /\ done' /\ subscribers' = {} /\ PutNext(w, subscribers)
      /\ chunks' = chunks /\ nextSeq' = nextSeq /\ queue' = queue
      /\ cpc' = cpc /\ isDone' = isDone /\ after' = after /\ replay' = replay
      /\ start' = start /\ got' = got
  BY DEF FinishBegin, reader
<1>2. TypeOK /\ NewestRetained /\ WriterInv /\ None \notin Conns /\ subscribers \in SUBSET Conns
  BY DEF IInv, TypeOK, BufferAssumption
<1>3. \A v \in Workers : \A c \in subscribers : ~Owed(v, c)
  <2> SUFFICES ASSUME NEW v \in Workers, NEW c \in subscribers, Owed(v, c)  PROVE FALSE
    OBVIOUS
  <2>1. c \in Conns
    BY <1>2
  <2> QED  BY <2>1 DEF IInv, ConnInv, EndInv
<1>4. /\ WriterInv'
      /\ wpc' \in [Workers -> {"streaming", "finishing", "finished"}]
      /\ toEnd' \in [Workers -> SUBSET Conns]
      /\ awaiting' \in [Workers -> Conns \cup {None}]
      /\ \A c \in Conns : Owed(w, c)' <=> c \in subscribers
      /\ \A v \in Workers \ {w} : \A c \in Conns : Owed(v, c)' <=> Owed(v, c)
  BY <1>1, <1>2, <1>3, PutNextOwes
<1>5. TypeOK'
  <2>1. done' \in BOOLEAN
    BY DEF FinishBegin
  <2>2. subscribers' \subseteq Conns
    BY <1>1
  <2> QED  BY <1>1, <1>2, <1>4, <2>1, <2>2 DEF TypeOK
<1>6. NewestRetained'
  BY <1>1, <1>2 DEF NewestRetained
<1>7. ASSUME NEW c \in Conns  PROVE ConnInv(c)'
  <2>1. StartInv(c) /\ ContentInv(c) /\ EndInv(c) /\ PhaseInv(c)
    BY DEF IInv, ConnInv
  <2>2. StartInv(c)' /\ ContentInv(c)'
    BY <1>1, <2>1 DEF StartInv, ContentInv, Ahead
  <2>3. Flow(c)' = Flow(c) /\ (NoSentinel(c)' <=> NoSentinel(c))
    BY <1>1 DEF Flow, Ahead, NoSentinel
  <2>4. EndInv(c)'
    <3>1. \A v \in Workers : Owed(v, c)' => done' /\ NoSentinel(c)' /\ Flow(c)' = nextSeq'
      BY <1>1, <1>4, <2>1, <2>3 DEF EndInv
    <3>2. \A i \in 1..Len(queue'[c]) :
            queue'[c][i] = Sentinel => i = Len(queue'[c]) /\ done' /\ Flow(c)' = nextSeq' + 1
      BY <1>1, <2>1, <2>3 DEF EndInv
    <3> QED  BY <3>1, <3>2, <1>1 DEF EndInv
  <2>5. PhaseInv(c)'
    <3>1. cpc[c] = "new" \/ isDone[c] => \A v \in Workers : ~Owed(v, c)'
      <4>1. cpc[c] = "new" \/ isDone[c] => c \notin subscribers
        BY <2>1 DEF PhaseInv, EndInv
      <4> QED  BY <4>1, <1>4, <2>1 DEF PhaseInv
    <3> QED  BY <3>1, <1>1, <2>1, <2>3 DEF PhaseInv
  <2> QED  BY <2>2, <2>4, <2>5 DEF ConnInv
<1> QED  BY <1>4, <1>5, <1>6, <1>7 DEF IInv

\* finish ends one queue: the sentinel follows the last chunk of the run.
LEMMA FinishPutStep ==
    ASSUME BufferAssumption, IInv, NEW w \in Workers, FinishPut(w)
    PROVE  IInv'
<1>0. TypeOK /\ NewestRetained /\ WriterInv /\ None \notin Conns /\ toEnd[w] \subseteq Conns
  BY DEF IInv, TypeOK, BufferAssumption
<1>a. PICK d \in Conns : d = awaiting[w]
  BY <1>0 DEF FinishPut, WriterInv
<1>1. /\ wpc[w] = "finishing" /\ ~Full(d) /\ PutNext(w, toEnd[w])
      /\ queue' = [queue EXCEPT ![d] = Append(@, Sentinel)]
      /\ chunks' = chunks /\ nextSeq' = nextSeq /\ done' = done /\ subscribers' = subscribers
      /\ cpc' = cpc /\ isDone' = isDone /\ after' = after /\ replay' = replay
      /\ start' = start /\ got' = got
  BY <1>a DEF FinishPut, buffer, reader
<1>2. TypeOK /\ NewestRetained /\ WriterInv /\ None \notin Conns /\ toEnd[w] \in SUBSET Conns
  BY <1>0
<1>3. d \in Conns /\ d \notin toEnd[w] /\ done /\ Owed(w, d)
  BY <1>a, <1>1, <1>2 DEF WriterInv, Owed
<1>4. /\ WriterInv'
      /\ wpc' \in [Workers -> {"streaming", "finishing", "finished"}]
      /\ toEnd' \in [Workers -> SUBSET Conns]
      /\ awaiting' \in [Workers -> Conns \cup {None}]
      /\ \A c \in Conns : Owed(w, c)' <=> c \in toEnd[w]
      /\ \A v \in Workers \ {w} : \A c \in Conns : Owed(v, c)' <=> Owed(v, c)
  <2>1. done'
    BY <1>1, <1>3
  <2> QED  BY <1>1, <1>2, <2>1, PutNextOwes
<1>5. \A v \in Workers : ~Owed(v, d)'
  <2>1. \A v \in Workers \ {w} : ~Owed(v, d)
    <3> SUFFICES ASSUME NEW v \in Workers \ {w}, Owed(v, d)  PROVE FALSE
      OBVIOUS
    <3>1. d \in toEnd[v] \cup {awaiting[v]} /\ d \in toEnd[w] \cup {awaiting[w]}
      BY <1>a DEF Owed
    <3>2. (toEnd[v] \cup {awaiting[v]}) \cap (toEnd[w] \cup {awaiting[w]}) \subseteq {None}
      BY <1>2 DEF WriterInv
    <3> QED  BY <3>1, <3>2, <1>2, <1>3
  <2> QED  BY <2>1, <1>3, <1>4
<1>6. /\ queue[d] \in Seq(Nat \cup {Sentinel}) /\ Len(queue[d]) \in Nat
      /\ Len(queue[d]) < SubscriberQueueMax
  BY <1>1, <1>2, <1>3 DEF TypeOK, Full, BufferAssumption
<1>7. /\ queue'[d] \in Seq(Nat \cup {Sentinel}) /\ Len(queue'[d]) = Len(queue[d]) + 1
      /\ \A i \in 1..Len(queue[d]) : queue'[d][i] = queue[d][i]
      /\ queue'[d][Len(queue[d]) + 1] = Sentinel
  <2>1. queue'[d] = Append(queue[d], Sentinel)
    BY <1>1, <1>2, <1>3 DEF TypeOK
  <2>2. Sentinel \in Nat \cup {Sentinel}
    OBVIOUS
  <2> QED  BY <2>1, <2>2, <1>6, AppendProperties
<1>8. \A c \in Conns \ {d} : queue'[c] = queue[c]
  BY <1>1, <1>2 DEF TypeOK
<1>9. TypeOK'
  <2>1. queue' \in [Conns -> Seq(Nat \cup {Sentinel})]
    <3>1. queue' = [queue EXCEPT ![d] = queue'[d]]
      BY <1>1, <1>2, <1>3 DEF TypeOK
    <3> QED  BY <3>1, <1>2, <1>3, <1>7 DEF TypeOK
  <2>2. Len(queue'[d]) <= SubscriberQueueMax
    BY <1>6, <1>7 DEF BufferAssumption
  <2>3. \A c \in Conns : Len(queue'[c]) <= SubscriberQueueMax
    BY <2>2, <1>8, <1>2 DEF TypeOK
  <2> QED  BY <2>1, <2>3, <1>1, <1>2, <1>4 DEF TypeOK
<1>10. NewestRetained'
  BY <1>1, <1>2 DEF NewestRetained
<1>11. ASSUME NEW c \in Conns  PROVE ConnInv(c)'
  <2>1. StartInv(c) /\ ContentInv(c) /\ EndInv(c) /\ PhaseInv(c)
    BY DEF IInv, ConnInv
  <2>2. /\ start'[c] = start[c] /\ got'[c] = got[c] /\ replay'[c] = replay[c]
        /\ after'[c] = after[c] /\ nextSeq' = nextSeq /\ chunks' = chunks
        /\ Ahead(c)' = Ahead(c)
    BY <1>1 DEF Ahead
  <2>3. CASE c # d
    <3>1. queue'[c] = queue[c]
      BY <1>8, <2>3
    <3>2. \A v \in Workers : Owed(v, c)' => Owed(v, c)
      BY <1>4 DEF Owed
    <3>3. cpc'[c] = cpc[c] /\ isDone'[c] = isDone[c] /\ done' = done
          /\ (c \in subscribers' => c \in subscribers)
      BY <1>1
    <3>4. ConnInv(c)
      BY <2>1 DEF ConnInv
    <3> QED  BY <3>1, <3>2, <3>3, <3>4, <2>2, ConnFrame
  <2>4. CASE c = d
    <3>1. NoSentinel(c) /\ Flow(c) = nextSeq
      BY <2>1, <2>4, <1>3 DEF EndInv
    <3>2. /\ Len(queue'[c]) = Len(queue[c]) + 1 /\ Len(queue[c]) \in Nat
          /\ \A i \in 1..Len(queue[c]) : queue'[c][i] = queue[c][i]
          /\ queue'[c][Len(queue[c]) + 1] = Sentinel
      BY <2>4, <1>6, <1>7
    <3>3. ASSUME NEW i \in 1..Len(queue'[c])
          PROVE  /\ i \in 1..Len(queue[c]) => queue'[c][i] = queue[c][i] /\ queue'[c][i] # Sentinel
                 /\ i \notin 1..Len(queue[c]) => i = Len(queue'[c]) /\ queue'[c][i] = Sentinel
      <4>1. i \in 1..Len(queue[c]) => queue'[c][i] = queue[c][i] /\ queue'[c][i] # Sentinel
        BY <3>1, <3>2 DEF NoSentinel
      <4>2. i \notin 1..Len(queue[c]) => i = Len(queue[c]) + 1
        BY <3>2
      <4> QED  BY <4>1, <4>2, <3>2
    <3>4. StartInv(c)'
      BY <2>1, <2>2 DEF StartInv
    <3>5. ContentInv(c)'
      <4>1. \A i \in 1..Len(queue'[c]) : queue'[c][i] # Sentinel =>
               queue'[c][i] = Ahead(c) + i - 1 /\ queue'[c][i] < nextSeq
        BY <3>3, <2>1 DEF ContentInv
      <4> QED  BY <4>1, <2>1, <2>2 DEF ContentInv
    <3>6. Flow(c)' = nextSeq + 1
      <4>1. Ahead(c) \in Nat
        BY <1>2, ConnTypes
      <4>2. Ahead(c) + Len(queue[c]) = nextSeq
        BY <3>1 DEF Flow
      <4>3. Ahead(c) + (Len(queue[c]) + 1) = nextSeq + 1
        BY <4>1, <4>2, <3>2
      <4> QED  BY <4>3, <3>2, <2>2 DEF Flow
    <3>7. c \notin subscribers' /\ \A v \in Workers : ~Owed(v, c)'
      BY <2>1, <2>4, <1>1, <1>3, <1>5 DEF EndInv
    <3>8. EndInv(c)'
      BY <3>3, <3>6, <3>7, <2>2, <1>1, <1>3 DEF EndInv
    <3>9. cpc[c] # "new" /\ ~isDone[c]
      BY <2>1, <2>4, <1>3 DEF PhaseInv
    <3>10. PhaseInv(c)'
      BY <3>9, <2>1, <2>2, <1>1 DEF PhaseInv
    <3> QED  BY <3>4, <3>5, <3>8, <3>10 DEF ConnInv
  <2> QED  BY <2>3, <2>4
<1> QED  BY <1>4, <1>9, <1>10, <1>11 DEF IInv
\* The steps of a generator leave the buffer and the workers alone, and every
\* connection but its own.
LEMMA ReaderFrame ==
    ASSUME BufferAssumption, IInv, NEW c \in Conns,
           nextSeq' = nextSeq, chunks' = chunks, done' = done,
           wpc' = wpc, toEnd' = toEnd, awaiting' = awaiting,
           TypeOK',
           \A d \in Conns \ {c} :
              /\ start'[d] = start[d] /\ got'[d] = got[d] /\ replay'[d] = replay[d]
              /\ queue'[d] = queue[d] /\ after'[d] = after[d] /\ isDone'[d] = isDone[d]
              /\ cpc'[d] = cpc[d] /\ (d \in subscribers' => d \in subscribers),
           ConnInv(c)'
    PROVE  IInv'
<1>1. NewestRetained'
  BY DEF IInv, NewestRetained
<1>2. WriterInv'
  BY DEF IInv, WriterInv
<1>3. ASSUME NEW d \in Conns \ {c}  PROVE ConnInv(d)'
  <2>1. ConnInv(d) /\ \A w \in Workers : Owed(w, d)' => Owed(w, d)
    BY DEF IInv, Owed
  <2> QED  BY <2>1, ConnFrame
<1> QED  BY <1>1, <1>2, <1>3 DEF IInv

\* A subscription is owed what it replays, then every chunk appended later.
LEMMA SubscribeStep ==
    ASSUME BufferAssumption, IInv, NEW c \in Conns, Subscribe(c)
    PROVE  IInv'
<1>0. TypeOK /\ NewestRetained
  BY DEF IInv
<1>1. PICK a \in -1..(nextSeq - 1) :
          /\ after' = [after EXCEPT ![c] = a]
          /\ replay' = [replay EXCEPT ![c] = RetainedAfter(a)]
          /\ start' = [start EXCEPT ![c] =
                          IF RetainedAfter(a) = <<>> THEN nextSeq ELSE RetainedAfter(a)[1]]
  BY DEF Subscribe
<1> DEFINE r == RetainedAfter(a)
<1>2. /\ r \in Seq(Nat)
      /\ \A i \in 1..Len(r) : r[i] = nextSeq - Len(r) + i - 1
      /\ Len(r) <= nextSeq
      /\ \/ Len(r) = nextSeq - 1 - a
         \/ a + 1 < nextSeq - Len(r) /\ a + 1 < nextSeq - Len(chunks) /\ r # <<>>
  BY <1>0, RetainedAfterIsASuffix
<1>3. /\ cpc[c] = "new" /\ cpc' = [cpc EXCEPT ![c] = "replay"]
      /\ isDone' = [isDone EXCEPT ![c] = done]
      /\ subscribers' = IF done THEN subscribers ELSE subscribers \cup {c}
      /\ nextSeq' = nextSeq /\ chunks' = chunks /\ done' = done
      /\ wpc' = wpc /\ toEnd' = toEnd /\ awaiting' = awaiting
      /\ queue' = queue /\ got' = got
  BY DEF Subscribe, buffer, writer
<1>4. /\ a \in Int /\ -1 <= a /\ Len(r) \in Nat /\ nextSeq \in Nat /\ Len(chunks) \in Nat
      /\ a <= nextSeq - 1
  BY <1>0, <1>2 DEF TypeOK
<1>5. (IF r = <<>> THEN nextSeq ELSE r[1]) = nextSeq - Len(r)
  <2> HIDE DEF r
  <2>1. CASE r = <<>>
    BY <2>1, <1>4
  <2>2. CASE r # <<>>
    <3>1. Len(r) > 0 /\ 1 \in 1..Len(r)
      BY <2>2, <1>2
    <3>2. r[1] = nextSeq - Len(r) + 1 - 1
      BY <3>1, <1>2
    <3> QED  BY <3>2, <2>2, <1>4
  <2> QED  BY <2>1, <2>2
<1>6. /\ after'[c] = a /\ replay'[c] = r /\ start'[c] = nextSeq - Len(r) /\ cpc'[c] = "replay"
      /\ start' = [start EXCEPT ![c] = nextSeq - Len(r)]
  BY <1>0, <1>1, <1>3, <1>5 DEF TypeOK
<1>7. isDone'[c] = done
  BY <1>0, <1>3 DEF TypeOK
<1>8. nextSeq - Len(r) \in Nat
  BY <1>2, <1>4
<1> HIDE DEF r
<1>9. TypeOK'
  <2>1. replay' \in [Conns -> Seq(Nat)]
    BY <1>0, <1>1, <1>2 DEF TypeOK, r
  <2>2. start' \in [Conns -> Nat] /\ after' \in [Conns -> Int]
    BY <1>0, <1>1, <1>4, <1>6, <1>8 DEF TypeOK
  <2>3. cpc' \in [Conns -> {"new", "replay", "tail", "closed", "gone"}]
    BY <1>0, <1>3 DEF TypeOK
  <2>4. isDone' \in [Conns -> BOOLEAN]
    BY <1>0, <1>3 DEF TypeOK
  <2>5. subscribers' \subseteq Conns
    BY <1>0, <1>3 DEF TypeOK
  <2> QED  BY <2>1, <2>2, <2>3, <2>4, <2>5, <1>0, <1>3 DEF TypeOK
<1>10. ConnInv(c)'
  <2>1. StartInv(c) /\ ContentInv(c) /\ EndInv(c) /\ PhaseInv(c)
    BY DEF IInv, ConnInv
  <2>2. got[c] = <<>> /\ queue[c] = <<>> /\ c \notin subscribers /\ \A w \in Workers : ~Owed(w, c)
    BY <2>1, <1>3 DEF PhaseInv
  <2>3. \A w \in Workers : ~Owed(w, c)'
    BY <2>2, <1>3 DEF Owed
  <2>4. Len(got'[c]) = 0 /\ Len(queue'[c]) = 0 /\ got'[c] = <<>> /\ queue'[c] = <<>>
    BY <2>2, <1>3
  <2>5. Ahead(c)' = nextSeq /\ Flow(c)' = nextSeq
    <3>1. nextSeq - Len(r) + 0 + Len(r) = nextSeq /\ nextSeq + 0 = nextSeq
      BY <1>4
    <3> QED  BY <3>1, <2>4, <1>6 DEF Ahead, Flow
  <2>6. StartInv(c)'
    <3>1. CASE Len(r) = nextSeq - 1 - a
      <4>1. nextSeq - Len(r) = a + 1
        BY <3>1, <1>4
      <4> QED  BY <4>1, <1>6 DEF StartInv
    <3>2. CASE a + 1 < nextSeq - Len(r) /\ a + 1 < nextSeq - Len(chunks) /\ r # <<>>
      BY <3>2, <1>6, <1>3 DEF StartInv
    <3> QED  BY <3>1, <3>2, <1>2
  <2>7. ContentInv(c)'
    <3>1. \A i \in 1..Len(r) : r[i] = nextSeq - Len(r) + 0 + i - 1
      BY <1>2, <1>4
    <3>2. nextSeq <= nextSeq
      BY <1>4
    <3> QED  BY <3>1, <3>2, <2>4, <2>5, <1>6, <1>3 DEF ContentInv
  <2>8. NoSentinel(c)'
    BY <2>4 DEF NoSentinel
  <2>9. c \in subscribers' => ~done
    BY <2>2, <1>3
  <2>10. EndInv(c)'
    BY <2>3, <2>4, <2>5, <2>8, <2>9, <1>3 DEF EndInv
  <2>11. PhaseInv(c)'
    BY <2>3, <2>4, <2>5, <1>3, <1>4, <1>6, <1>7 DEF PhaseInv
  <2> QED  BY <2>6, <2>7, <2>10, <2>11 DEF ConnInv
<1>11. \A d \in Conns \ {c} :
          /\ start'[d] = start[d] /\ got'[d] = got[d] /\ replay'[d] = replay[d]
          /\ queue'[d] = queue[d] /\ after'[d] = after[d] /\ isDone'[d] = isDone[d]
          /\ cpc'[d] = cpc[d] /\ (d \in subscribers' => d \in subscribers)
  BY <1>0, <1>1, <1>3 DEF TypeOK
<1> QED  BY <1>3, <1>9, <1>10, <1>11, ReaderFrame

\* Yielding a replayed chunk moves it from what is waiting to what was sent.
LEMMA SendReplayStep ==
    ASSUME BufferAssumption, IInv, NEW c \in Conns, SendReplay(c)
    PROVE  IInv'
<1>0. TypeOK
  BY DEF IInv
<1>1. /\ cpc[c] = "replay" /\ replay[c] # <<>>
      /\ got' = [got EXCEPT ![c] = Append(got[c], Head(replay[c]))]
      /\ replay' = [replay EXCEPT ![c] = Tail(replay[c])]
      /\ nextSeq' = nextSeq /\ chunks' = chunks /\ done' = done /\ subscribers' = subscribers
      /\ wpc' = wpc /\ toEnd' = toEnd /\ awaiting' = awaiting
      /\ cpc' = cpc /\ isDone' = isDone /\ after' = after /\ queue' = queue /\ start' = start
  BY DEF SendReplay, buffer, writer
<1>2. /\ replay[c] \in Seq(Nat) /\ Len(replay[c]) \in Nat /\ got[c] \in Seq(Nat)
      /\ Len(got[c]) \in Nat /\ start[c] \in Nat
  BY <1>0 DEF TypeOK
<1>3. /\ replay'[c] = Tail(replay[c]) /\ replay'[c] \in Seq(Nat)
      /\ Len(replay'[c]) = Len(replay[c]) - 1
      /\ \A i \in 1..Len(replay'[c]) : replay'[c][i] = replay[c][i + 1]
      /\ Head(replay[c]) = replay[c][1] /\ replay[c][1] \in Nat /\ 1 \in 1..Len(replay[c])
  <2>1. replay'[c] = Tail(replay[c])
    BY <1>0, <1>1 DEF TypeOK
  <2> QED  BY <2>1, <1>1, <1>2, HeadTailProperties
<1>4. /\ got'[c] \in Seq(Nat) /\ Len(got'[c]) = Len(got[c]) + 1 /\ got'[c] # <<>>
      /\ \A i \in 1..Len(got[c]) : got'[c][i] = got[c][i]
      /\ got'[c][Len(got[c]) + 1] = replay[c][1]
  <2>1. got'[c] = Append(got[c], replay[c][1])
    BY <1>0, <1>1, <1>3 DEF TypeOK
  <2>2. got[c] \in Seq(Nat) /\ replay[c][1] \in Nat
    BY <1>2, <1>3
  <2> QED  BY <2>1, <2>2, AppendProperties
<1>5. TypeOK'
  <2>1. got' \in [Conns -> Seq(Nat)]
    BY <1>0, <1>1, <1>3, <1>4 DEF TypeOK
  <2>2. replay' \in [Conns -> Seq(Nat)]
    BY <1>0, <1>1, <1>3 DEF TypeOK
  <2> QED  BY <2>1, <2>2, <1>0, <1>1 DEF TypeOK
<1>6. ConnInv(c)'
  <2>1. StartInv(c) /\ ContentInv(c) /\ EndInv(c) /\ PhaseInv(c)
    BY DEF IInv, ConnInv
  <2>2. Ahead(c)' = Ahead(c)
    <3>1. start[c] + (Len(got[c]) + 1) + (Len(replay[c]) - 1) = start[c] + Len(got[c]) + Len(replay[c])
      BY <1>2
    <3> QED  BY <3>1, <1>1, <1>3, <1>4 DEF Ahead
  <2>3. Flow(c)' = Flow(c) /\ (NoSentinel(c)' <=> NoSentinel(c))
    BY <2>2, <1>1 DEF Flow, NoSentinel
  <2>4. \A w \in Workers : Owed(w, c)' <=> Owed(w, c)
    BY <1>1 DEF Owed
  <2>5. StartInv(c)'
    BY <2>1, <1>1, <1>4 DEF StartInv
  <2>6. ContentInv(c)'
    <3>1. ASSUME NEW i \in 1..Len(got'[c])  PROVE got'[c][i] = start[c] + i - 1
      <4>1. CASE i \in 1..Len(got[c])
        BY <4>1, <1>4, <2>1 DEF ContentInv
      <4>2. CASE i = Len(got[c]) + 1
        <5>1. replay[c][1] = start[c] + Len(got[c]) + 1 - 1
          BY <2>1, <1>3 DEF ContentInv
        <5> QED  BY <5>1, <4>2, <1>2, <1>4
      <4> QED  BY <4>1, <4>2, <1>2, <1>4
    <3>2. ASSUME NEW i \in 1..Len(replay'[c])
          PROVE  replay'[c][i] = start[c] + (Len(got[c]) + 1) + i - 1
      <4>1. i + 1 \in 1..Len(replay[c]) /\ i \in Int
        BY <1>2, <1>3
      <4>2. replay'[c][i] = replay[c][i + 1]
        BY <1>3
      <4>3. replay[c][i + 1] = start[c] + Len(got[c]) + (i + 1) - 1
        BY <4>1, <2>1 DEF ContentInv
      <4> QED  BY <4>1, <4>2, <4>3, <1>2
    <3> QED  BY <3>1, <3>2, <2>1, <2>2, <1>1, <1>4 DEF ContentInv
  <2>7. EndInv(c)'
    BY <2>1, <2>3, <2>4, <1>1 DEF EndInv
  <2>8. PhaseInv(c)'
    BY <2>1, <2>3, <2>4, <1>1 DEF PhaseInv
  <2> QED  BY <2>5, <2>6, <2>7, <2>8 DEF ConnInv
<1>7. \A d \in Conns \ {c} :
          /\ start'[d] = start[d] /\ got'[d] = got[d] /\ replay'[d] = replay[d]
          /\ queue'[d] = queue[d] /\ after'[d] = after[d] /\ isDone'[d] = isDone[d]
          /\ cpc'[d] = cpc[d] /\ (d \in subscribers' => d \in subscribers)
  BY <1>0, <1>1 DEF TypeOK
<1> QED  BY <1>1, <1>5, <1>6, <1>7, ReaderFrame

\* When the replay is over the reader tails, or ends if the run was done.
LEMMA ReplayOverStep ==
    ASSUME BufferAssumption, IInv, NEW c \in Conns, ReplayOver(c)
    PROVE  IInv'
<1>0. TypeOK
  BY DEF IInv
<1>1. /\ cpc[c] = "replay" /\ replay[c] = <<>>
      /\ cpc' = [cpc EXCEPT ![c] = IF isDone[c] THEN "closed" ELSE "tail"]
      /\ subscribers' = IF isDone[c] THEN subscribers \ {c} ELSE subscribers
      /\ nextSeq' = nextSeq /\ chunks' = chunks /\ done' = done
      /\ wpc' = wpc /\ toEnd' = toEnd /\ awaiting' = awaiting
      /\ got' = got /\ replay' = replay /\ isDone' = isDone /\ after' = after
      /\ queue' = queue /\ start' = start
  BY DEF ReplayOver, buffer, writer
<1>2. TypeOK'
  <2>1. cpc' \in [Conns -> {"new", "replay", "tail", "closed", "gone"}]
    BY <1>0, <1>1 DEF TypeOK
  <2>2. subscribers' \subseteq Conns
    BY <1>0, <1>1 DEF TypeOK
  <2> QED  BY <2>1, <2>2, <1>0, <1>1 DEF TypeOK
<1>3. ConnInv(c)'
  <2>1. StartInv(c) /\ ContentInv(c) /\ EndInv(c) /\ PhaseInv(c)
    BY DEF IInv, ConnInv
  <2>2. StartInv(c)' /\ ContentInv(c)'
    BY <2>1, <1>1 DEF StartInv, ContentInv, Ahead
  <2>3. /\ Flow(c)' = Flow(c) /\ (NoSentinel(c)' <=> NoSentinel(c))
        /\ \A w \in Workers : Owed(w, c)' <=> Owed(w, c)
    BY <1>1 DEF Flow, Ahead, NoSentinel, Owed
  <2>4. EndInv(c)'
    BY <2>1, <2>3, <1>1 DEF EndInv
  <2>5. PhaseInv(c)'
    <3>1. cpc'[c] = IF isDone[c] THEN "closed" ELSE "tail"
      BY <1>0, <1>1 DEF TypeOK
    <3>2. CASE isDone[c]
      <4>1. done /\ queue[c] = <<>> /\ Flow(c) = nextSeq /\ \A w \in Workers : ~Owed(w, c)
        BY <2>1, <3>2 DEF PhaseInv
      <4>2. start[c] + Len(got[c]) = nextSeq
        <5>1. Len(got[c]) \in Nat /\ start[c] \in Nat
          BY <1>0 DEF TypeOK
        <5>2. start[c] + Len(got[c]) + 0 + 0 = nextSeq
          BY <4>1, <1>1 DEF Flow, Ahead
        <5> QED  BY <5>1, <5>2
      <4> QED  BY <4>1, <4>2, <3>1, <3>2, <2>1, <2>3, <1>1 DEF PhaseInv
    <3>3. CASE ~isDone[c]
      BY <3>1, <3>3, <2>1, <1>1 DEF PhaseInv
    <3> QED  BY <3>2, <3>3
  <2> QED  BY <2>2, <2>4, <2>5 DEF ConnInv
<1>4. \A d \in Conns \ {c} :
          /\ start'[d] = start[d] /\ got'[d] = got[d] /\ replay'[d] = replay[d]
          /\ queue'[d] = queue[d] /\ after'[d] = after[d] /\ isDone'[d] = isDone[d]
          /\ cpc'[d] = cpc[d] /\ (d \in subscribers' => d \in subscribers)
  BY <1>0, <1>1 DEF TypeOK
<1> QED  BY <1>1, <1>2, <1>3, <1>4, ReaderFrame

\* Taking the first item off a queue.
LEMMA QueueHead ==
    ASSUME TypeOK, NEW c \in Conns, queue[c] # <<>>,
           queue' = [queue EXCEPT ![c] = Tail(@)]
    PROVE  /\ queue[c][1] = Head(queue[c]) /\ 1 \in 1..Len(queue[c]) /\ Len(queue[c]) \in Nat
           /\ queue'[c] \in Seq(Nat \cup {Sentinel})
           /\ Len(queue'[c]) = Len(queue[c]) - 1 /\ Len(queue'[c]) \in Nat
           /\ \A i \in 1..Len(queue'[c]) : queue'[c][i] = queue[c][i + 1]
           /\ \A d \in Conns \ {c} : queue'[d] = queue[d]
           /\ queue' \in [Conns -> Seq(Nat \cup {Sentinel})]
           /\ \A d \in Conns : Len(queue'[d]) <= SubscriberQueueMax
           /\ Head(queue[c]) \in Nat \cup {Sentinel}
<1>1. queue \in [Conns -> Seq(Nat \cup {Sentinel})]
  BY DEF TypeOK
<1>2. queue[c] \in Seq(Nat \cup {Sentinel}) /\ Len(queue[c]) \in Nat
  BY <1>1
<1>3. queue'[c] = Tail(queue[c]) /\ \A d \in Conns \ {c} : queue'[d] = queue[d]
  BY <1>1
<1>4. /\ queue'[c] \in Seq(Nat \cup {Sentinel}) /\ Len(queue'[c]) = Len(queue[c]) - 1
      /\ \A i \in 1..Len(queue'[c]) : queue'[c][i] = queue[c][i + 1]
      /\ Head(queue[c]) \in Nat \cup {Sentinel}
  <2> DEFINE S == Nat \cup {Sentinel}
             s == queue[c]
  <2>1. s \in Seq(S) /\ s # <<>>
    BY <1>2
  <2> HIDE DEF S, s
  <2>2. /\ Head(s) \in S /\ Tail(s) \in Seq(S) /\ Len(Tail(s)) = Len(s) - 1
        /\ \A i \in 1..Len(Tail(s)) : Tail(s)[i] = s[i + 1]
    BY <2>1, HeadTailProperties
  <2> QED  BY <2>2, <1>3 DEF S, s
<1>5. queue[c][1] = Head(queue[c]) /\ 1 \in 1..Len(queue[c])
  BY <1>2
<1>6. queue' \in [Conns -> Seq(Nat \cup {Sentinel})]
  <2>1. queue' = [queue EXCEPT ![c] = queue'[c]]
    BY <1>1, <1>3
  <2> QED  BY <2>1, <1>1, <1>4
<1>7. Len(queue'[c]) \in Nat
  BY <1>4
<1>8. \A d \in Conns : Len(queue'[d]) <= SubscriberQueueMax
  <2>1. Len(queue[c]) <= SubscriberQueueMax
    BY DEF TypeOK
  <2>2. Len(queue'[c]) <= SubscriberQueueMax
    <3>1. SubscriberQueueMax \in Nat
      BY BufferAssumption DEF BufferAssumption
    <3> QED  BY <2>1, <3>1, <1>2, <1>4
  <2> QED  BY <2>2, <1>3 DEF TypeOK
<1> QED  BY <1>2, <1>3, <1>4, <1>5, <1>6, <1>7, <1>8

\* Yielding a queued chunk moves it from the queue to what was sent.
LEMMA SendLiveStep ==
    ASSUME BufferAssumption, IInv, NEW c \in Conns, SendLive(c)
    PROVE  IInv'
<1>0. TypeOK
  BY DEF IInv
<1>1. /\ cpc[c] = "tail" /\ queue[c] # <<>> /\ Head(queue[c]) # Sentinel
      /\ got' = [got EXCEPT ![c] = Append(got[c], Head(queue[c]))]
      /\ queue' = [queue EXCEPT ![c] = Tail(@)]
      /\ nextSeq' = nextSeq /\ chunks' = chunks /\ done' = done /\ subscribers' = subscribers
      /\ wpc' = wpc /\ toEnd' = toEnd /\ awaiting' = awaiting
      /\ cpc' = cpc /\ isDone' = isDone /\ after' = after /\ replay' = replay /\ start' = start
  BY DEF SendLive, buffer, writer
<1>2. /\ queue[c][1] = Head(queue[c]) /\ 1 \in 1..Len(queue[c]) /\ Len(queue[c]) \in Nat
      /\ Len(queue'[c]) = Len(queue[c]) - 1 /\ Len(queue'[c]) \in Nat
      /\ \A i \in 1..Len(queue'[c]) : queue'[c][i] = queue[c][i + 1]
      /\ \A d \in Conns \ {c} : queue'[d] = queue[d]
      /\ queue' \in [Conns -> Seq(Nat \cup {Sentinel})]
      /\ \A d \in Conns : Len(queue'[d]) <= SubscriberQueueMax
      /\ Head(queue[c]) \in Nat \cup {Sentinel}
  BY <1>0, <1>1, QueueHead
<1>3. queue[c][1] \in Nat /\ queue[c][1] # Sentinel
  BY <1>1, <1>2
<1>4. /\ got[c] \in Seq(Nat) /\ Len(got[c]) \in Nat /\ start[c] \in Nat
      /\ Ahead(c) \in Nat
  BY <1>0, ConnTypes
<1>5. /\ got'[c] \in Seq(Nat) /\ Len(got'[c]) = Len(got[c]) + 1 /\ got'[c] # <<>>
      /\ \A i \in 1..Len(got[c]) : got'[c][i] = got[c][i]
      /\ got'[c][Len(got[c]) + 1] = queue[c][1]
  <2>1. got'[c] = Append(got[c], queue[c][1])
    BY <1>0, <1>1, <1>2 DEF TypeOK
  <2>2. PICK x \in Nat : x = queue[c][1]
    BY <1>3
  <2>3. /\ Append(got[c], x) \in Seq(Nat) /\ Len(Append(got[c], x)) = Len(got[c]) + 1
        /\ Append(got[c], x) # <<>>
        /\ \A i \in 1..Len(got[c]) : Append(got[c], x)[i] = got[c][i]
        /\ Append(got[c], x)[Len(got[c]) + 1] = x
    BY <1>4, AppendProperties
  <2> QED  BY <2>1, <2>2, <2>3
<1>6. TypeOK'
  <2>1. got' \in [Conns -> Seq(Nat)]
    BY <1>0, <1>1, <1>2, <1>3, <1>5 DEF TypeOK
  <2> QED  BY <2>1, <1>0, <1>1, <1>2 DEF TypeOK
<1>7. ConnInv(c)'
  <2>1. StartInv(c) /\ ContentInv(c) /\ EndInv(c) /\ PhaseInv(c)
    BY DEF IInv, ConnInv
  <2>2. replay[c] = <<>> /\ Ahead(c) = start[c] + Len(got[c])
    <3>1. replay[c] = <<>>
      BY <2>1, <1>1 DEF PhaseInv
    <3>2. start[c] + Len(got[c]) + 0 = start[c] + Len(got[c])
      BY <1>4
    <3> QED  BY <3>1, <3>2 DEF Ahead
  <2>3. Ahead(c)' = Ahead(c) + 1
    <3>1. start[c] + (Len(got[c]) + 1) + 0 = start[c] + Len(got[c]) + 1
      BY <1>4
    <3> QED  BY <3>1, <2>2, <1>1, <1>5 DEF Ahead
  <2>4. Flow(c)' = Flow(c)
    <3>1. (Ahead(c) + 1) + (Len(queue[c]) - 1) = Ahead(c) + Len(queue[c])
      BY <1>2, <1>4
    <3> QED  BY <3>1, <2>3, <1>2 DEF Flow
  <2>5. NoSentinel(c) => NoSentinel(c)'
    <3> SUFFICES ASSUME NoSentinel(c), NEW i \in 1..Len(queue'[c])
                 PROVE  queue'[c][i] # Sentinel
      BY DEF NoSentinel
    <3>1. i + 1 \in 1..Len(queue[c])
      BY <1>2
    <3> QED  BY <3>1, <1>2 DEF NoSentinel
  <2>6. \A w \in Workers : Owed(w, c)' <=> Owed(w, c)
    BY <1>1 DEF Owed
  <2>7. StartInv(c)'
    BY <2>1, <1>1, <1>5 DEF StartInv
  <2>8. ContentInv(c)'
    <3>1. queue[c][1] = Ahead(c) + 1 - 1 /\ queue[c][1] < nextSeq
      BY <2>1, <1>2, <1>3 DEF ContentInv
    <3>2. ASSUME NEW i \in 1..Len(got'[c])  PROVE got'[c][i] = start[c] + i - 1
      <4>1. CASE i \in 1..Len(got[c])
        BY <4>1, <1>5, <2>1 DEF ContentInv
      <4>2. CASE i = Len(got[c]) + 1
        <5>1. got'[c][i] = start[c] + Len(got[c]) + 1 - 1
          BY <3>1, <4>2, <2>2, <1>5
        <5> QED  BY <5>1, <4>2, <1>4
      <4> QED  BY <4>1, <4>2, <1>4, <1>5
    <3>3. ASSUME NEW i \in 1..Len(queue'[c]), queue'[c][i] # Sentinel
          PROVE  queue'[c][i] = (Ahead(c) + 1) + i - 1 /\ queue'[c][i] < nextSeq
      <4>1. i + 1 \in 1..Len(queue[c]) /\ i \in Int
        BY <1>2
      <4>2. queue'[c][i] = queue[c][i + 1]
        BY <1>2
      <4>3. queue[c][i + 1] = Ahead(c) + (i + 1) - 1 /\ queue[c][i + 1] < nextSeq
        BY <4>1, <4>2, <3>3, <2>1 DEF ContentInv
      <4> QED  BY <4>1, <4>2, <4>3, <1>4
    <3>4. Ahead(c) + 1 <= nextSeq
      <4>1. nextSeq \in Nat
        BY <1>0 DEF TypeOK
      <4>2. queue[c][1] = Ahead(c)
        BY <3>1, <1>4
      <4> QED  BY <4>1, <4>2, <3>1, <1>4
    <3>5. 1..Len(replay'[c]) = {}
      BY <2>2, <1>1
    <3> QED  BY <3>2, <3>3, <3>4, <3>5, <2>3, <1>1 DEF ContentInv
  <2>9. EndInv(c)'
    <3>1. ASSUME NEW i \in 1..Len(queue'[c]), queue'[c][i] = Sentinel
          PROVE  i = Len(queue'[c]) /\ done /\ Flow(c) = nextSeq + 1
      <4>1. i + 1 \in 1..Len(queue[c]) /\ i \in Int
        BY <1>2
      <4>2. queue'[c][i] = queue[c][i + 1]
        BY <1>2
      <4>3. i + 1 = Len(queue[c]) /\ done /\ Flow(c) = nextSeq + 1
        BY <4>1, <4>2, <3>1, <2>1 DEF EndInv
      <4>4. i = Len(queue'[c])
        BY <4>1, <4>3, <1>2
      <4> QED  BY <4>3, <4>4
    <3> QED  BY <3>1, <2>1, <2>4, <2>5, <2>6, <1>1 DEF EndInv
  <2>10. PhaseInv(c)'
    <3>1. ~isDone[c]
      BY <2>1, <1>1 DEF PhaseInv
    <3> QED  BY <3>1, <2>1, <1>1 DEF PhaseInv
  <2> QED  BY <2>7, <2>8, <2>9, <2>10 DEF ConnInv
<1>8. \A d \in Conns \ {c} :
          /\ start'[d] = start[d] /\ got'[d] = got[d] /\ replay'[d] = replay[d]
          /\ queue'[d] = queue[d] /\ after'[d] = after[d] /\ isDone'[d] = isDone[d]
          /\ cpc'[d] = cpc[d] /\ (d \in subscribers' => d \in subscribers)
  BY <1>0, <1>1, <1>2 DEF TypeOK
<1> QED  BY <1>1, <1>6, <1>7, <1>8, ReaderFrame

\* The sentinel reaches the reader only after the last chunk of the run:
\* what it was sent ends the run, and its queue is left empty.
LEMMA EndLiveStep ==
    ASSUME BufferAssumption, IInv, NEW c \in Conns, EndLive(c)
    PROVE  IInv' /\ done /\ start[c] + Len(got[c]) = nextSeq
<1>0. TypeOK
  BY DEF IInv
<1>1. /\ cpc[c] = "tail" /\ queue[c] # <<>> /\ Head(queue[c]) = Sentinel
      /\ queue' = [queue EXCEPT ![c] = Tail(@)]
      /\ cpc' = [cpc EXCEPT ![c] = "closed"] /\ subscribers' = subscribers \ {c}
      /\ nextSeq' = nextSeq /\ chunks' = chunks /\ done' = done
      /\ wpc' = wpc /\ toEnd' = toEnd /\ awaiting' = awaiting
      /\ got' = got /\ replay' = replay /\ isDone' = isDone /\ after' = after /\ start' = start
  BY DEF EndLive, buffer, writer
<1>2. /\ queue[c][1] = Head(queue[c]) /\ 1 \in 1..Len(queue[c]) /\ Len(queue[c]) \in Nat
      /\ Len(queue'[c]) = Len(queue[c]) - 1 /\ Len(queue'[c]) \in Nat
      /\ \A d \in Conns \ {c} : queue'[d] = queue[d]
      /\ queue' \in [Conns -> Seq(Nat \cup {Sentinel})]
      /\ \A d \in Conns : Len(queue'[d]) <= SubscriberQueueMax
  BY <1>0, <1>1, QueueHead
<1>3. StartInv(c) /\ ContentInv(c) /\ EndInv(c) /\ PhaseInv(c)
  BY DEF IInv, ConnInv
<1>4. queue[c][1] = Sentinel /\ 1 = Len(queue[c]) /\ done /\ Flow(c) = nextSeq + 1
  BY <1>1, <1>2, <1>3 DEF EndInv
<1>5. c \notin subscribers /\ \A w \in Workers : ~Owed(w, c)
  <2>1. ~NoSentinel(c)
    BY <1>2, <1>4 DEF NoSentinel
  <2> QED  BY <2>1, <1>3 DEF EndInv
<1>6. /\ start[c] \in Nat /\ Len(got[c]) \in Nat /\ nextSeq \in Nat
      /\ replay[c] = <<>>
  BY <1>0, <1>1, <1>3 DEF TypeOK, PhaseInv
<1>7. start[c] + Len(got[c]) = nextSeq
  <2>1. start[c] + Len(got[c]) + 0 + 1 = nextSeq + 1
    BY <1>4, <1>6 DEF Flow, Ahead
  <2> QED  BY <2>1, <1>6
<1>8. TypeOK'
  <2>1. cpc' \in [Conns -> {"new", "replay", "tail", "closed", "gone"}]
    BY <1>0, <1>1 DEF TypeOK
  <2>2. subscribers' \subseteq Conns
    BY <1>0, <1>1 DEF TypeOK
  <2> QED  BY <2>1, <2>2, <1>0, <1>1, <1>2 DEF TypeOK
<1>9. ConnInv(c)'
  <2>1. Len(queue'[c]) = 0 /\ 1..Len(queue'[c]) = {}
    <3>1. 1 = Len(queue[c])
      BY <1>4
    <3>2. Len(queue'[c]) = Len(queue[c]) - 1
      BY <1>2
    <3>3. Len(queue'[c]) = 1 - 1
      BY ONLY <3>1, <3>2
    <3>4. Len(queue'[c]) = 0
      BY ONLY <3>3
    <3>5. 1..0 = {}
      OBVIOUS
    <3> QED  BY ONLY <3>4, <3>5
  <2>2. StartInv(c)'
    BY <1>1, <1>3 DEF StartInv
  <2>3. ContentInv(c)'
    BY <2>1, <1>1, <1>3 DEF ContentInv, Ahead
  <2>4. c \notin subscribers' /\ \A w \in Workers : ~Owed(w, c)'
    BY <1>1, <1>5 DEF Owed
  <2>5. EndInv(c)'
    BY <2>1, <2>4 DEF EndInv
  <2>6. ~isDone[c] /\ cpc'[c] = "closed"
    BY <1>0, <1>1, <1>3 DEF TypeOK, PhaseInv
  <2>7. PhaseInv(c)'
    BY <2>6, <1>1, <1>3, <1>4, <1>6, <1>7 DEF PhaseInv
  <2> QED  BY <2>2, <2>3, <2>5, <2>7 DEF ConnInv
<1>10. \A d \in Conns \ {c} :
          /\ start'[d] = start[d] /\ got'[d] = got[d] /\ replay'[d] = replay[d]
          /\ queue'[d] = queue[d] /\ after'[d] = after[d] /\ isDone'[d] = isDone[d]
          /\ cpc'[d] = cpc[d] /\ (d \in subscribers' => d \in subscribers)
  BY <1>0, <1>1, <1>2 DEF TypeOK
<1>11. IInv'
  BY <1>1, <1>8, <1>9, <1>10, ReaderFrame
<1> QED  BY <1>4, <1>7, <1>11

\* A client that goes away leaves everyone else's stream as it was.
LEMMA DisconnectStep ==
    ASSUME BufferAssumption, IInv, NEW c \in Conns, Disconnect(c)
    PROVE  IInv'
<1>0. TypeOK
  BY DEF IInv
<1>1. /\ cpc' = [cpc EXCEPT ![c] = "gone"] /\ subscribers' = subscribers \ {c}
      /\ nextSeq' = nextSeq /\ chunks' = chunks /\ done' = done
      /\ wpc' = wpc /\ toEnd' = toEnd /\ awaiting' = awaiting /\ queue' = queue
      /\ got' = got /\ replay' = replay /\ isDone' = isDone /\ after' = after /\ start' = start
  BY DEF Disconnect, buffer, writer
<1>2. TypeOK'
  <2>1. cpc' \in [Conns -> {"new", "replay", "tail", "closed", "gone"}]
    BY <1>0, <1>1 DEF TypeOK
  <2>2. subscribers' \subseteq Conns
    BY <1>0, <1>1 DEF TypeOK
  <2> QED  BY <2>1, <2>2, <1>0, <1>1 DEF TypeOK
<1>3. ASSUME NEW d \in Conns  PROVE ConnInv(d)'
  <2>1. ConnInv(d) /\ \A w \in Workers : Owed(w, d)' => Owed(w, d)
    BY <1>1 DEF IInv, Owed
  <2>2. cpc'[d] = cpc[d] \/ cpc'[d] = "gone"
    BY <1>0, <1>1 DEF TypeOK
  <2>3. d \in subscribers' => d \in subscribers
    BY <1>1
  <2> QED  BY <2>1, <2>2, <2>3, <1>1, ConnFrame
<1>4. NewestRetained'
  BY <1>1 DEF IInv, NewestRetained
<1>5. WriterInv'
  BY <1>1 DEF IInv, WriterInv
<1> QED  BY <1>2, <1>3, <1>4, <1>5 DEF IInv

\* Every step of every worker and reader keeps the invariant.
LEMMA NextKeepsIInv ==
    ASSUME BufferAssumption, IInv, [Next]_vars
    PROVE  IInv'
<1>1. ASSUME NEW w \in Workers, Work(w)  PROVE IInv'
  BY <1>1, AppendChunkStep, FinishBeginStep, FinishPutStep DEF Work
<1>2. ASSUME NEW c \in Conns, Subscribe(c)  PROVE IInv'
  BY <1>2, SubscribeStep
<1>3. ASSUME NEW c \in Conns, Serve(c)  PROVE IInv'
  BY <1>3, SendReplayStep, ReplayOverStep, SendLiveStep, EndLiveStep DEF Serve
<1>4. ASSUME NEW c \in Conns, Disconnect(c)  PROVE IInv'
  BY <1>4, DisconnectStep
<1>5. CASE UNCHANGED vars
  <2>1. /\ nextSeq' = nextSeq /\ chunks' = chunks /\ done' = done
        /\ wpc' = wpc /\ toEnd' = toEnd /\ awaiting' = awaiting
        /\ start' = start /\ got' = got /\ replay' = replay /\ queue' = queue
        /\ after' = after /\ isDone' = isDone /\ cpc' = cpc /\ subscribers' = subscribers
    BY <1>5 DEF vars, buffer, writer, reader
  <2>2. TypeOK' /\ NewestRetained' /\ WriterInv'
    BY <2>1 DEF IInv, TypeOK, NewestRetained, WriterInv
  <2>3. ASSUME NEW d \in Conns  PROVE ConnInv(d)'
    <3>1. ConnInv(d) /\ \A w \in Workers : Owed(w, d)' => Owed(w, d)
      BY <2>1 DEF IInv, Owed
    <3> QED  BY <3>1, <2>1, ConnFrame
  <2> QED  BY <2>2, <2>3 DEF IInv
<1> QED  BY <1>1, <1>2, <1>3, <1>4, <1>5 DEF Next

\* The inductive invariant holds of every execution.
THEOREM InductiveInvariant == Spec => []IInv
<1>1. Init => IInv
  BY InitEstablishesIInv, BufferAssumption
<1>2. IInv /\ [Next]_vars => IInv'
  BY NextKeepsIInv, BufferAssumption
<1> QED  BY <1>1, <1>2, PTL DEF Spec

----------------------------------------------------------------------------
(* What follows from it. *)

\* The buffer never holds more than it may: neither the retained list nor any
\* subscriber's queue outgrows its bound, whatever the readers do.
THEOREM TypeCorrect == Spec => []TypeOK
<1>1. IInv => TypeOK
  BY DEF IInv
<1> QED  BY <1>1, InductiveInvariant, PTL

\* A reader of the run (GET /runs/{id}/stream) is sent consecutive ids from
\* the one after the cursor it named, or from the oldest chunk retained.
THEOREM Delivery == Spec => []NoGapNoRepeat
<1>1. ASSUME IInv, NEW c \in Conns
      PROVE  /\ \A i \in 1..(Len(got[c]) - 1) : got[c][i + 1] = got[c][i] + 1
             /\ got[c] # <<>> =>
                   \/ got[c][1] = after[c] + 1
                   \/ after[c] + 1 < got[c][1] /\ after[c] + 1 < chunks[1]
  <2>1. StartInv(c) /\ ContentInv(c) /\ PhaseInv(c) /\ TypeOK /\ NewestRetained
    BY <1>1 DEF IInv, ConnInv
  <2>2. /\ got[c] \in Seq(Nat) /\ Len(got[c]) \in Nat /\ start[c] \in Nat /\ after[c] \in Int
        /\ nextSeq \in Nat /\ chunks \in Seq(Nat) /\ Len(chunks) \in Nat
    BY <2>1, ConnTypes
  <2>3. \A i \in 1..Len(got[c]) : got[c][i] = start[c] + i - 1
    BY <2>1 DEF ContentInv
  <2>4. ASSUME NEW i \in 1..(Len(got[c]) - 1)  PROVE got[c][i + 1] = got[c][i] + 1
    <3>1. i \in 1..Len(got[c]) /\ i + 1 \in 1..Len(got[c]) /\ i \in Int
      BY <2>2
    <3>2. got[c][i] = start[c] + i - 1 /\ got[c][i + 1] = start[c] + (i + 1) - 1
      BY <3>1, <2>3
    <3> QED  BY <3>1, <3>2, <2>2
  <2>5. ASSUME got[c] # <<>>
        PROVE  \/ got[c][1] = after[c] + 1
               \/ after[c] + 1 < got[c][1] /\ after[c] + 1 < chunks[1]
    <3>1. 1 \in 1..Len(got[c])
      BY <2>2, <2>5
    <3>2. got[c][1] = start[c] + 1 - 1
      BY <3>1, <2>3
    <3>3. got[c][1] = start[c]
      BY <3>2, <2>2
    <3>4. CASE start[c] = after[c] + 1
      BY <3>3, <3>4
    <3>5. CASE after[c] + 1 < start[c] /\ after[c] + 1 < nextSeq - Len(chunks)
      <4>1. -1 <= after[c]
        BY <2>1, <2>2 DEF PhaseInv
      <4>2. nextSeq > Len(chunks)
        BY <4>1, <3>5, <2>2
      <4>3. Len(chunks) >= 1
        BY <4>2, <2>1, <2>2, BufferAssumption DEF NewestRetained, BufferAssumption
      <4>4. 1 \in 1..Len(chunks)
        BY <4>3, <2>2
      <4>5. chunks[1] = nextSeq - Len(chunks) + 1 - 1
        BY <4>4, <2>1 DEF NewestRetained
      <4>6. chunks[1] = nextSeq - Len(chunks)
        BY <4>5, <2>2
      <4> QED  BY <4>6, <3>3, <3>5
    <3> QED  BY <3>4, <3>5, <2>1 DEF StartInv
  <2> QED  BY <2>4, <2>5
<1>2. IInv => NoGapNoRepeat
  BY <1>1 DEF NoGapNoRepeat
<1> QED  BY <1>2, InductiveInvariant, PTL

\* A stream the server ends has delivered the run to its last chunk.
THEOREM Completeness == Spec => []ClosedComplete
<1>1. ASSUME IInv, NEW c \in Conns, cpc[c] = "closed"
      PROVE  done /\ LastSeen(c) = nextSeq - 1
  <2>1. StartInv(c) /\ ContentInv(c) /\ PhaseInv(c) /\ TypeOK
    BY <1>1 DEF IInv, ConnInv
  <2>2. /\ got[c] \in Seq(Nat) /\ Len(got[c]) \in Nat /\ start[c] \in Nat /\ after[c] \in Int
        /\ nextSeq \in Nat
    BY <2>1, ConnTypes
  <2>3. done /\ start[c] + Len(got[c]) = nextSeq /\ replay[c] = <<>>
    BY <1>1, <2>1 DEF PhaseInv
  <2>4. CASE got[c] = <<>>
    <3>1. start[c] = after[c] + 1
      BY <2>1, <2>3, <2>4 DEF StartInv
    <3>2. start[c] + 0 = nextSeq
      BY <2>3, <2>4
    <3>3. after[c] = nextSeq - 1
      BY <3>1, <3>2, <2>2
    <3> QED  BY <3>3, <2>3, <2>4 DEF LastSeen
  <2>5. CASE got[c] # <<>>
    <3>1. Len(got[c]) \in 1..Len(got[c])
      BY <2>2, <2>5
    <3>2. got[c][Len(got[c])] = start[c] + Len(got[c]) - 1
      BY <3>1, <2>1 DEF ContentInv
    <3>3. start[c] + Len(got[c]) = nextSeq
      BY <2>3
    <3>4. got[c][Len(got[c])] = nextSeq - 1
      BY <3>2, <3>3, <2>2
    <3> QED  BY <3>4, <2>3, <2>5 DEF LastSeen
  <2> QED  BY <2>4, <2>5
<1>2. IInv => ClosedComplete
  BY <1>1 DEF ClosedComplete
<1> QED  BY <1>2, InductiveInvariant, PTL
----------------------------------------------------------------------------
(* The buffer implements RunStream. *)

\* A fresh buffer is a fresh stream.
LEMMA InitRefines == ASSUME BufferAssumption, Init  PROVE Stream!Init
<1>1. [c \in Conns |-> StateOf(c)] = [c \in Conns |-> "new"]
  BY DEF Init, StateOf
<1> QED  BY <1>1 DEF Init, Stream!Init

\* A step that changes nothing RunStream sees.
LEMMA StutterRefines ==
    ASSUME nextSeq' = nextSeq, done' = done, start' = start, got' = got,
           \A c \in Conns : StateOf(c)' = StateOf(c)
    PROVE  UNCHANGED Stream!vars
BY DEF Stream!vars

\* A chunk handed to a reader, from the replay or from the queue, is the next
\* one it is owed.
LEMMA SendRefines ==
    ASSUME TypeOK, NEW c \in Conns,
           cpc[c] \in {"replay", "tail"},
           start[c] + Len(got[c]) < nextSeq,
           got' = [got EXCEPT ![c] = Append(got[c], start[c] + Len(got[c]))],
           nextSeq' = nextSeq, done' = done, start' = start, cpc' = cpc
    PROVE  Stream!Deliver(c)
<1>1. StateOf(c) = "attached"
  BY DEF StateOf
<1>2. [d \in Conns |-> StateOf(d)]' = [d \in Conns |-> StateOf(d)]
  BY DEF StateOf
<1>3. got' = [got EXCEPT ![c] = Append(@, start[c] + Len(got[c]))]
  OBVIOUS
<1> QED  BY <1>1, <1>2, <1>3 DEF Stream!Deliver

\* A step that moves one connection on in its life.
LEMMA StateMoves ==
    ASSUME TypeOK, NEW c \in Conns, NEW p \in {"replay", "tail", "closed", "gone"},
           cpc' = [cpc EXCEPT ![c] = p]
    PROVE  LET s == [d \in Conns |-> StateOf(d)] IN
           s' = [s EXCEPT ![c] = IF p \in {"replay", "tail"} THEN "attached"
                                 ELSE IF p = "closed" THEN "ended" ELSE "left"]
<1>1. cpc \in [Conns -> {"new", "replay", "tail", "closed", "gone"}]
  BY DEF TypeOK
<1>2. \A d \in Conns \ {c} : cpc'[d] = cpc[d]
  BY <1>1
<1>3. cpc'[c] = p
  BY <1>1
<1>4. \A d \in Conns \ {c} : StateOf(d)' = StateOf(d)
  BY <1>2 DEF StateOf
<1>5. StateOf(c)' = IF p \in {"replay", "tail"} THEN "attached"
                    ELSE IF p = "closed" THEN "ended" ELSE "left"
  BY <1>3 DEF StateOf
<1> QED  BY <1>4, <1>5

\* Every step of the buffer is a step of RunStream or invisible in it.
LEMMA StepRefines ==
    ASSUME BufferAssumption, IInv, [Next]_vars
    PROVE  [Stream!Next]_(Stream!vars)
<1> DEFINE s == [d \in Conns |-> StateOf(d)]
<1>0. TypeOK
  BY DEF IInv
<1>1. ASSUME NEW w \in Workers, AppendChunk(w)  PROVE Stream!Produce
  <2>1. ~done /\ nextSeq' = nextSeq + 1 /\ done' = done /\ start' = start /\ got' = got /\ cpc' = cpc
    BY <1>1 DEF AppendChunk, Accepts, reader
  <2>2. s' = s
    BY <2>1 DEF StateOf
  <2> QED  BY <2>1, <2>2 DEF Stream!Produce
<1>2. ASSUME NEW w \in Workers, FinishBegin(w)  PROVE Stream!Close \/ UNCHANGED Stream!vars
  <2>1. done' /\ nextSeq' = nextSeq /\ start' = start /\ got' = got /\ cpc' = cpc /\ done' = TRUE
    BY <1>2 DEF FinishBegin, reader
  <2>2. s' = s
    BY <2>1 DEF StateOf
  <2>3. CASE done = FALSE
    BY <2>1, <2>2, <2>3 DEF Stream!Close
  <2>4. CASE done = TRUE
    BY <2>1, <2>2, <2>4 DEF Stream!vars
  <2> QED  BY <2>3, <2>4, <1>0 DEF TypeOK
<1>3. ASSUME NEW w \in Workers, FinishPut(w)  PROVE UNCHANGED Stream!vars
  <2>1. done' = done /\ nextSeq' = nextSeq /\ start' = start /\ got' = got /\ cpc' = cpc
    BY <1>3 DEF FinishPut, buffer, reader
  <2> QED  BY <2>1, StutterRefines DEF StateOf
<1>4. ASSUME NEW c \in Conns, Subscribe(c)  PROVE Stream!Attach(c)
  <2>1. /\ cpc[c] = "new" /\ cpc' = [cpc EXCEPT ![c] = "replay"]
        /\ done' = done /\ nextSeq' = nextSeq /\ got' = got
    BY <1>4 DEF Subscribe, buffer
  <2>2. PICK a \in -1..(nextSeq - 1) :
          start' = [start EXCEPT ![c] =
                       IF RetainedAfter(a) = <<>> THEN nextSeq ELSE RetainedAfter(a)[1]]
    BY <1>4 DEF Subscribe
  <2>3. \E f \in 0..nextSeq : start' = [start EXCEPT ![c] = f]
    <3> DEFINE r == RetainedAfter(a)
    <3>1. /\ r \in Seq(Nat) /\ Len(r) <= nextSeq
          /\ \A i \in 1..Len(r) : r[i] = nextSeq - Len(r) + i - 1
      BY <1>0, RetainedAfterIsASuffix DEF IInv
    <3>2. nextSeq \in Nat /\ Len(r) \in Nat
      BY <1>0, <3>1 DEF TypeOK
    <3> HIDE DEF r
    <3>3. (IF r = <<>> THEN nextSeq ELSE r[1]) \in 0..nextSeq
      <4>1. CASE r = <<>>
        BY <4>1, <3>2
      <4>2. CASE r # <<>>
        <5>1. 1 \in 1..Len(r)
          BY <4>2, <3>1, <3>2
        <5>2. r[1] = nextSeq - Len(r) + 1 - 1 /\ Len(r) > 0
          BY <5>1, <3>1, <3>2
        <5> QED  BY <5>2, <4>2, <3>1, <3>2
      <4> QED  BY <4>1, <4>2
    <3>4. start' = [start EXCEPT ![c] = IF r = <<>> THEN nextSeq ELSE r[1]]
      BY <2>2 DEF r
    <3> QED  BY <3>3, <3>4
  <2>4. StateOf(c) = "new"
    BY <2>1 DEF StateOf
  <2>5. s' = [s EXCEPT ![c] = "attached"]
    BY <2>1, <1>0, StateMoves
  <2> QED  BY <2>1, <2>3, <2>4, <2>5 DEF Stream!Attach
<1>5. ASSUME NEW c \in Conns, SendReplay(c)  PROVE Stream!Deliver(c)
  <2>1. /\ cpc[c] = "replay" /\ replay[c] # <<>> /\ done' = done /\ nextSeq' = nextSeq
        /\ start' = start /\ cpc' = cpc /\ got' = [got EXCEPT ![c] = Append(got[c], Head(replay[c]))]
    BY <1>5 DEF SendReplay, buffer
  <2>2. ContentInv(c)
    BY DEF IInv, ConnInv
  <2>3. /\ replay[c] \in Seq(Nat) /\ Len(replay[c]) \in Nat /\ Len(got[c]) \in Nat
        /\ start[c] \in Nat /\ nextSeq \in Nat
    BY <1>0 DEF TypeOK
  <2>4. Head(replay[c]) = replay[c][1] /\ 1 \in 1..Len(replay[c]) /\ Len(replay[c]) > 0
    BY <2>1, <2>3
  <2>5. replay[c][1] = start[c] + Len(got[c]) + 1 - 1
    BY <2>2, <2>4 DEF ContentInv
  <2>6. start[c] + Len(got[c]) + Len(replay[c]) <= nextSeq
    BY <2>2 DEF ContentInv, Ahead
  <2>7. Head(replay[c]) = start[c] + Len(got[c]) /\ Head(replay[c]) < nextSeq
    BY <2>3, <2>4, <2>5, <2>6
  <2>8. /\ start[c] + Len(got[c]) < nextSeq
        /\ got' = [got EXCEPT ![c] = Append(got[c], start[c] + Len(got[c]))]
    <3>1. got' = [got EXCEPT ![c] = Append(got[c], Head(replay[c]))]
      BY <2>1
    <3> HIDE DEF s
    <3>2. /\ Head(replay[c]) = start[c] + Len(got[c])
          /\ Head(replay[c]) < nextSeq
      BY <2>7
    <3> QED  BY ONLY <3>1, <3>2
  <2>9. cpc[c] \in {"replay", "tail"}
    BY <2>1
  <2> QED  BY <2>1, <2>8, <2>9, <1>0, SendRefines
<1>6. ASSUME NEW c \in Conns, SendLive(c)  PROVE Stream!Deliver(c)
  <2>1. /\ cpc[c] = "tail" /\ queue[c] # <<>> /\ Head(queue[c]) # Sentinel
        /\ done' = done /\ nextSeq' = nextSeq
        /\ start' = start /\ cpc' = cpc /\ got' = [got EXCEPT ![c] = Append(got[c], Head(queue[c]))]
    BY <1>6 DEF SendLive, buffer
  <2>2. ContentInv(c) /\ replay[c] = <<>>
    BY <2>1 DEF IInv, ConnInv, PhaseInv
  <2>3. queue[c] \in Seq(Nat \cup {Sentinel}) /\ Len(got[c]) \in Nat /\ start[c] \in Nat
    BY <1>0 DEF TypeOK
  <2>4. Head(queue[c]) = queue[c][1] /\ 1 \in 1..Len(queue[c])
    BY <2>1, <2>3
  <2>5. queue[c][1] = Ahead(c) + 1 - 1 /\ queue[c][1] < nextSeq
    BY <2>1, <2>2, <2>4 DEF ContentInv
  <2>6. Ahead(c) = start[c] + Len(got[c]) + 0
    BY <2>2 DEF Ahead
  <2>7. Head(queue[c]) = start[c] + Len(got[c]) /\ Head(queue[c]) < nextSeq
    BY <2>3, <2>4, <2>5, <2>6
  <2>8. /\ start[c] + Len(got[c]) < nextSeq
        /\ got' = [got EXCEPT ![c] = Append(got[c], start[c] + Len(got[c]))]
    <3>1. got' = [got EXCEPT ![c] = Append(got[c], Head(queue[c]))]
      BY <2>1
    <3> HIDE DEF s
    <3>2. /\ Head(queue[c]) = start[c] + Len(got[c])
          /\ Head(queue[c]) < nextSeq
      BY <2>7
    <3> QED  BY ONLY <3>1, <3>2
  <2>9. cpc[c] \in {"replay", "tail"}
    BY <2>1
  <2> QED  BY <2>1, <2>8, <2>9, <1>0, SendRefines
<1>7. ASSUME NEW c \in Conns, ReplayOver(c)  PROVE Stream!End(c) \/ UNCHANGED Stream!vars
  <2>1. /\ cpc[c] = "replay" /\ cpc' = [cpc EXCEPT ![c] = IF isDone[c] THEN "closed" ELSE "tail"]
        /\ replay[c] = <<>>
        /\ done' = done /\ nextSeq' = nextSeq /\ start' = start /\ got' = got
    BY <1>7 DEF ReplayOver, buffer
  <2>2. StateOf(c) = "attached"
    BY <2>1 DEF StateOf
  <2>3. CASE isDone[c]
    <3>1. done /\ queue[c] = <<>> /\ Flow(c) = nextSeq
      BY <2>3 DEF IInv, ConnInv, PhaseInv
    <3>2. start[c] \in Nat /\ Len(got[c]) \in Nat
      BY <1>0 DEF TypeOK
    <3>3. start[c] + Len(got[c]) + 0 + 0 = nextSeq
      BY <3>1, <2>1 DEF Flow, Ahead
    <3>4. start[c] + Len(got[c]) = nextSeq
      BY <3>2, <3>3
    <3>5. cpc' = [cpc EXCEPT ![c] = "closed"]
      BY <2>1, <2>3
    <3>6. s' = [s EXCEPT ![c] = "ended"]
      BY <3>5, <1>0, StateMoves
    <3> QED  BY <2>1, <2>2, <3>1, <3>4, <3>6 DEF Stream!End
  <2>4. CASE ~isDone[c]
    <3>1. cpc' = [cpc EXCEPT ![c] = "tail"]
      BY <2>1, <2>4
    <3>2. s' = [s EXCEPT ![c] = "attached"]
      BY <3>1, <1>0, StateMoves
    <3>3. s' = s
      BY <3>2, <2>2
    <3> QED  BY <2>1, <3>3 DEF Stream!vars
  <2> QED  BY <2>3, <2>4
<1>8. ASSUME NEW c \in Conns, EndLive(c)  PROVE Stream!End(c)
  <2>1. /\ cpc[c] = "tail" /\ cpc' = [cpc EXCEPT ![c] = "closed"]
        /\ done' = done /\ nextSeq' = nextSeq /\ start' = start /\ got' = got
    BY <1>8 DEF EndLive, buffer
  <2>2. done /\ start[c] + Len(got[c]) = nextSeq
    BY <1>8, EndLiveStep
  <2>3. s' = [s EXCEPT ![c] = "ended"]
    BY <2>1, <1>0, StateMoves
  <2>4. StateOf(c) = "attached"
    BY <2>1 DEF StateOf
  <2> QED  BY <2>1, <2>2, <2>3, <2>4 DEF Stream!End
<1>9. ASSUME NEW c \in Conns, Disconnect(c)  PROVE Stream!Leave(c)
  <2>1. /\ cpc[c] \in {"replay", "tail"} /\ cpc' = [cpc EXCEPT ![c] = "gone"]
        /\ done' = done /\ nextSeq' = nextSeq /\ start' = start /\ got' = got
    BY <1>9 DEF Disconnect, buffer
  <2>2. s' = [s EXCEPT ![c] = "left"]
    BY <2>1, <1>0, StateMoves
  <2>3. StateOf(c) = "attached"
    BY <2>1 DEF StateOf
  <2> QED  BY <2>1, <2>2, <2>3 DEF Stream!Leave
<1>10. CASE UNCHANGED vars
  <2>1. done' = done /\ nextSeq' = nextSeq /\ start' = start /\ got' = got /\ cpc' = cpc
    BY <1>10 DEF vars, buffer, reader
  <2> QED  BY <2>1, StutterRefines DEF StateOf
<1> QED
  <2>1. CASE \E w \in Workers : Work(w)
    BY <2>1, <1>1, <1>2, <1>3 DEF Work, Stream!Next
  <2>2. CASE \E c \in Conns : Subscribe(c) \/ Serve(c) \/ Disconnect(c)
    BY <2>2, <1>4, <1>5, <1>6, <1>7, <1>8, <1>9 DEF Serve, Stream!Next
  <2> QED  BY <2>1, <2>2, <1>10 DEF Next

\* The in-process buffer keeps the promise of RunStream to every reader.
THEOREM Refinement == Spec => RunStreamImplemented
<1>1. Init => Stream!Init
  BY InitRefines, BufferAssumption
<1>2. IInv /\ [Next]_vars => [Stream!Next]_(Stream!vars)
  BY StepRefines, BufferAssumption
<1> QED  BY <1>1, <1>2, InductiveInvariant, PTL DEF Spec, RunStreamImplemented, Stream!Spec

----------------------------------------------------------------------------
(* The Redis buffer, as a part, is one that RedisRunBufferProofs speaks of.  *)

RedisP == INSTANCE RedisRunBufferProofs WITH
    Conns <- RConns, Workers <- RWorkers, MaxChunksPerRun <- RChunks, MaxSeq <- RSeq,
    chunks <- list, wpc <- rpc, cpc <- spc, after <- from, got <- had

(* They use the same words... *)
LEMMA RedisWords ==
    /\ Redis!Nothing = RedisP!Nothing /\ Redis!DoneMsg = RedisP!DoneMsg /\ Redis!Listening = RedisP!Listening
    /\ \A S : Redis!Cardinality(S) = RedisP!Cardinality(S) /\ Redis!Max(S) = RedisP!Max(S)
    /\ \A s : Redis!ToSet(s) = RedisP!ToSet(s) /\ Redis!Pushed(s) = RedisP!Pushed(s)
    /\ \A m : Redis!Published(m) = RedisP!Published(m)
    /\ \A c : Redis!Message(c) = RedisP!Message(c) /\ (Redis!Over(c) <=> RedisP!Over(c))
    /\ \A a : Redis!ReplayAfter(a) = RedisP!ReplayAfter(a)
<1>1. \A S : Redis!Cardinality(S) = RedisP!Cardinality(S)
  BY DEF Redis!Cardinality, RedisP!Cardinality
<1>2. \A S : Redis!Max(S) = RedisP!Max(S)
  BY DEF Redis!Max, RedisP!Max
<1>3. \A s : Redis!ToSet(s) = RedisP!ToSet(s) /\ Redis!Pushed(s) = RedisP!Pushed(s)
  BY DEF Redis!ToSet, RedisP!ToSet, Redis!Pushed, RedisP!Pushed
<1>4. Redis!Nothing = RedisP!Nothing /\ Redis!DoneMsg = RedisP!DoneMsg /\ Redis!Listening = RedisP!Listening
  BY DEF Redis!Nothing, RedisP!Nothing, Redis!DoneMsg, RedisP!DoneMsg, Redis!Listening, RedisP!Listening
<1>5. \A m : Redis!Published(m) = RedisP!Published(m)
  BY <1>4 DEF Redis!Published, RedisP!Published
<1>6. \A c : Redis!Message(c) = RedisP!Message(c) /\ (Redis!Over(c) <=> RedisP!Over(c))
  BY <1>4 DEF Redis!Message, RedisP!Message, Redis!Over, RedisP!Over
<1>7. \A S, k : Redis!Nth(S, k) = RedisP!Nth(S, k)
  BY <1>1 DEF Redis!Nth, RedisP!Nth
<1>8. \A a : Redis!ReplayAfter(a) = RedisP!ReplayAfter(a)
  BY <1>1, <1>7 DEF Redis!ReplayAfter, RedisP!ReplayAfter
<1> QED  BY <1>1, <1>2, <1>3, <1>4, <1>5, <1>6, <1>8

(* ... start alike... *)
LEMMA RedisStarts == Redis!Init => RedisP!Init
BY DEF Redis!Init, RedisP!Init

(* ... take the same steps... *)
LEMMA RedisMoves == Redis!Next => RedisP!Next
<1>1. ASSUME NEW w \in RWorkers PROVE (Redis!Work(w) => RedisP!Work(w)) /\ (Redis!Crash(w) => RedisP!Crash(w))
  BY RedisWords
     DEF Redis!Work, Redis!AppendCheck, Redis!AppendNumber, Redis!AppendPush, Redis!FinishMark, Redis!FinishLoad,
         Redis!FinishSave, Redis!FinishPublish, Redis!Crash, Redis!keys, Redis!reader, Redis!run,
         RedisP!Work, RedisP!AppendCheck, RedisP!AppendNumber, RedisP!AppendPush, RedisP!FinishMark,
         RedisP!FinishLoad, RedisP!FinishSave, RedisP!FinishPublish, RedisP!Crash, RedisP!keys, RedisP!reader,
         RedisP!run
<1>2. Redis!Expire => RedisP!Expire
  BY DEF Redis!Expire, Redis!writer, Redis!reader, RedisP!Expire, RedisP!writer, RedisP!reader
<1>3. ASSUME NEW c, NEW p PROVE Redis!Replay(c, p) => RedisP!Replay(c, p)
  <2>1. \A s : Redis!CursorAfter(c, s) = RedisP!CursorAfter(c, s)
    BY RedisWords DEF Redis!CursorAfter, RedisP!CursorAfter
  <2> QED  BY <2>1, RedisWords DEF Redis!Replay, RedisP!Replay
<1>4. ASSUME NEW c \in RConns PROVE (Redis!Open(c) => RedisP!Open(c)) /\ (Redis!Disconnect(c) => RedisP!Disconnect(c))
  BY RedisWords DEF Redis!Open, Redis!Disconnect, Redis!keys, Redis!writer, Redis!run,
                    RedisP!Open, RedisP!Disconnect, RedisP!keys, RedisP!writer, RedisP!run
<1>5. ASSUME NEW c \in RConns, Redis!Serve(c) PROVE RedisP!Serve(c)
  <2>1. \A s : Redis!CursorFromChunk(c, s) = RedisP!CursorFromChunk(c, s)
    BY RedisWords DEF Redis!CursorFromChunk, RedisP!CursorFromChunk
  <2>2. /\ Redis!FirstReplay(c) => RedisP!FirstReplay(c)
        /\ Redis!CatchUp(c) => RedisP!CatchUp(c)
        /\ Redis!LastReplay(c) => RedisP!LastReplay(c)
    BY <1>3 DEF Redis!FirstReplay, Redis!CatchUp, Redis!LastReplay, Redis!keys, Redis!writer, Redis!run,
                RedisP!FirstReplay, RedisP!CatchUp, RedisP!LastReplay, RedisP!keys, RedisP!writer, RedisP!run
  <2>3. /\ Redis!Send(c) => RedisP!Send(c)
        /\ Redis!FirstMeta(c) => RedisP!FirstMeta(c)
        /\ Redis!Poll(c) => RedisP!Poll(c)
        /\ Redis!End(c) => RedisP!End(c)
    BY DEF Redis!Send, Redis!FirstMeta, Redis!Poll, Redis!End, Redis!keys, Redis!writer, Redis!run,
           RedisP!Send, RedisP!FirstMeta, RedisP!Poll, RedisP!End, RedisP!keys, RedisP!writer, RedisP!run
  <2>4. /\ Redis!Attach(c) => RedisP!Attach(c)
        /\ Redis!ReceiveChunk(c) => RedisP!ReceiveChunk(c)
        /\ Redis!ReceiveDone(c) => RedisP!ReceiveDone(c)
        /\ Redis!ReceiveNothing(c) => RedisP!ReceiveNothing(c)
    BY <2>1, RedisWords
       DEF Redis!Attach, Redis!ReceiveChunk, Redis!ReceiveDone, Redis!ReceiveNothing, Redis!keys, Redis!writer,
           Redis!run, RedisP!Attach, RedisP!ReceiveChunk, RedisP!ReceiveDone, RedisP!ReceiveNothing, RedisP!keys,
           RedisP!writer, RedisP!run
  <2> QED  BY <1>5, <2>2, <2>3, <2>4 DEF Redis!Serve, RedisP!Serve
<1> QED  BY <1>1, <1>2, <1>4, <1>5 DEF Redis!Next, RedisP!Next

(* ... and promise the same. *)
LEMMA RedisPromises == RedisP!RedisSound => RedisSound
BY RedisWords
   DEF RedisSound, Redis!RedisSound, Redis!TypeOK, Redis!SentAtMostTwice, RedisP!RedisSound, RedisP!TypeOK,
       RedisP!SentAtMostTwice

\* Readers of the Redis buffer are sent no chunk more than twice, and read on
\* from a chunk of the run, for any numbers of readers, of workers and of
\* chunks that are retained (RedisRunBuffer.subscribe).
THEOREM RedisIsSound == PartSpec => []RedisSound
<1>1. PartInit => RedisP!IInv
  BY RedisStarts, RedisAssumption, RedisP!InitIInv DEF PartInit
<1>2. RedisP!IInv /\ [PartNext]_all => RedisP!IInv'
  <2>1. [PartNext]_all => Redis!Next \/ UNCHANGED redis
    BY DEF PartNext, all
  <2>2. UNCHANGED redis => UNCHANGED RedisP!vars
    BY DEF redis, RedisP!vars, RedisP!keys, RedisP!writer, RedisP!reader, RedisP!run
  <2> QED  BY <2>1, <2>2, RedisMoves, RedisAssumption, RedisP!NextIInv
<1>3. RedisP!IInv => RedisSound
  BY RedisPromises, RedisP!TwiceAtMost DEF RedisP!RedisSound, RedisP!IInv
<1> QED  BY <1>1, <1>2, <1>3, PTL DEF PartSpec
=============================================================================
