------------------------- MODULE ConversationsProofs -------------------------
(***************************************************************************)
(* Proofs about Conversations, part by part. Of the stream of a turn: that *)
(* its bill, its end and its cancellation are what they should be, for any *)
(* length of the queue, any number of rounds and of chunks, and both ways  *)
(* to start a turn. Of the two gates: what AdmissionProofs has of them.    *)
(* Of iMessage: that a turn gives back what it borrowed, for any           *)
(* deliveries, processes, tools, failures and deaths. Of ChatSession: that *)
(* no owner's messages get into another's turn, for any conversations.     *)
(***************************************************************************)
EXTENDS Conversations, SequenceTheorems, FiniteSetTheorems, WellFoundedInduction, TLAPS

----------------------------------------------------------------------------
(* The stream: ChatStream.                                                  *)

Event == Nat \ {Sentinel}

\* Where the events are: what was sent and what is queued make up what had
\* room, and only a task that is over has put the end mark behind it.
FlowInv ==
    /\ accepted \in Seq(Event) /\ sent \in Seq(Event)
    /\ \/ sent \o queue = accepted
       \/ apc = "over" /\ sent \o queue = Append(accepted, Sentinel)

\* A generator that reads no more has sent all, and the bill is made by none
\* but such a one.
ReadInv ==
    /\ cpc = "boot" => apc = "none"
    /\ cpc \in {"settle", "end", "ended"} \/ settled => apc = "over" /\ sent = accepted
    /\ settled => cpc \in {"end", "ended", "gone"}

\* Nothing is dropped on a stream without cancelling it.
DropInv == mode = "stream" /\ ~cancel => Len(accepted) = emitted

\* The task is over only after its finally clause.
SavedInv == apc = "over" => saved \/ broken

IInv == TypeOK /\ FlowInv /\ ReadInv /\ DropInv /\ SavedInv

----------------------------------------------------------------------------
LEMMA Associative == \A a, b, c \in Seq(Nat) : (a \o b) \o c = a \o (b \o c)
  BY ConcatAssociative

\* An element put behind the second of two sequences is behind both.
LEMMA ConcatAppend ==
    ASSUME NEW S, NEW s \in Seq(S), NEW t \in Seq(S), NEW e \in S
    PROVE  s \o Append(t, e) = Append(s \o t, e)
<1>1. s \o t \in Seq(S)
  BY ConcatProperties
<1>2. <<e>> \in Seq(S)
  OBVIOUS
<1>3. Append(t, e) = t \o <<e>>
  BY AppendIsConcat
<1>4. Append(s \o t, e) = (s \o t) \o <<e>>
  BY <1>1, AppendIsConcat
<1>5. (s \o t) \o <<e>> = s \o (t \o <<e>>)
  BY <1>2, ConcatAssociative
<1> QED  BY <1>3, <1>4, <1>5

\* What emit does: the events that have room go behind those in the queue, and
\* on a stream nothing is left out without setting the event (chat_routes.py,
\* emit).
LEMMA OfferAccepts ==
    ASSUME StreamAssumption, TypeOK, FlowInv, DropInv, apc # "over",
           NEW n \in Nat, Offer(n), UNCHANGED <<sent, mode>>
    PROVE  /\ cancel' \in BOOLEAN /\ emitted' \in Nat
           /\ queue' \in Seq(Nat) /\ Len(queue') <= QueueMax
           /\ accepted' \in Seq(Event) /\ sent' \o queue' = accepted'
           /\ DropInv'
<1> DEFINE r == Room(n)
           taken == [i \in 1..r |-> emitted + i]
<1>1. /\ queue \in Seq(Nat) /\ Len(queue) \in Nat /\ Len(queue) <= QueueMax /\ QueueMax \in Nat
      /\ emitted \in Nat /\ cancel \in BOOLEAN /\ sent \in Seq(Nat) /\ accepted \in Seq(Nat)
  BY DEF TypeOK, StreamAssumption
<1>2. r \in Nat /\ r <= n /\ Len(queue) + r <= QueueMax
  BY <1>1 DEF Room
<1> HIDE DEF r
<1>3. taken \in Seq(Event) /\ taken \in Seq(Nat) /\ Len(taken) = r
  <2>1. \A i \in 1..r : emitted + i \in Event /\ emitted + i \in Nat
    BY <1>1, <1>2 DEF Event, Sentinel
  <2>2. taken \in [1..r -> Event] /\ taken \in [1..r -> Nat]
    BY <2>1
  <2>3. taken \in Seq(Event) /\ taken \in Seq(Nat)
    BY <2>2, <1>2
  <2>4. DOMAIN taken = 1..r
    OBVIOUS
  <2> HIDE DEF taken
  <2> QED  BY <2>3, <2>4, <1>2
<1>4. /\ queue' = queue \o taken /\ accepted' = accepted \o taken
      /\ emitted' = emitted + n
      /\ cancel' = (cancel \/ (mode = "stream" /\ r < n))
  BY DEF Offer, Cancelled, r
<1> HIDE DEF taken
<1>5. cancel' \in BOOLEAN /\ emitted' \in Nat
  BY <1>1, <1>4
<1>6. queue' \in Seq(Nat) /\ Len(queue') <= QueueMax
  <2>1. queue \o taken \in Seq(Nat) /\ Len(queue \o taken) = Len(queue) + Len(taken)
    BY <1>1, <1>3, ConcatProperties
  <2> QED  BY <2>1, <1>2, <1>3, <1>4
<1>7. accepted' \in Seq(Event) /\ Len(accepted') = Len(accepted) + r
  <2>1. accepted \in Seq(Event)
    BY DEF FlowInv
  <2>2. accepted \o taken \in Seq(Event) /\ Len(accepted \o taken) = Len(accepted) + Len(taken)
    <3>1. \A a, b \in Seq(Event) : a \o b \in Seq(Event) /\ Len(a \o b) = Len(a) + Len(b)
      BY ConcatProperties
    <3> QED  BY <2>1, <1>3, <3>1
  <2> QED  BY <2>2, <1>3, <1>4
<1>8. sent' \o queue' = accepted'
  <2>1. sent \o queue = accepted
    BY DEF FlowInv
  <2>2. (sent \o queue) \o taken = sent \o (queue \o taken)
    <3>1. sent \in Seq(Nat) /\ queue \in Seq(Nat) /\ taken \in Seq(Nat)
      BY <1>1, <1>3
    <3> HIDE DEF taken
    <3> QED  BY <3>1, Associative
  <2> QED  BY <2>1, <2>2, <1>4
<1>9. DropInv'
  <2>1. Len(accepted) \in Nat
    BY <1>1
  <2> SUFFICES ASSUME mode = "stream", ~cancel'  PROVE Len(accepted') = emitted'
    BY DEF DropInv
  <2>2. ~(cancel \/ (mode = "stream" /\ r < n))
    BY <1>4
  <2>3. r = n /\ ~cancel
    BY <2>2, <1>2
  <2> QED  BY <2>1, <2>3, <1>4, <1>7, <1>1 DEF DropInv
<1> QED  BY <1>5, <1>6, <1>7, <1>8, <1>9

\* A step of the agent that announces events and goes on keeps the invariant.
LEMMA Announces ==
    ASSUME StreamAssumption, IInv,
           apc \notin {"none", "over"},
           apc' \in {"step", "llm", "marking", "tools", "synthesis", "final"},
           rounds' \in 0..MaxRounds, deltas' \in 0..MaxDeltas,
           UNCHANGED <<client, saved, broken, generator>>,
           (\E n \in Nat : Offer(n)) \/ UNCHANGED <<events, cancel>>
    PROVE  IInv'
<1> USE DEF IInv
<1>1. UNCHANGED <<mode, connected, watching, saved, broken, cpc, settled, sent>>
  BY DEF client, generator
<1>2. cpc \in {"read", "gone"} /\ ~settled
  BY DEF ReadInv, TypeOK
<1>3. /\ cancel' \in BOOLEAN /\ emitted' \in Nat
      /\ queue' \in Seq(Nat) /\ Len(queue') <= QueueMax
      /\ accepted' \in Seq(Event) /\ sent' \o queue' = accepted'
      /\ DropInv'
  <2>1. CASE \E n \in Nat : Offer(n)
    BY <2>1, <1>1, OfferAccepts
  <2>2. CASE UNCHANGED <<events, cancel>>
    BY <2>2, <1>1 DEF events, TypeOK, FlowInv, DropInv
  <2> QED  BY <2>1, <2>2
<1>4. accepted' \in Seq(Nat)
  BY <1>3, SeqMonotonic DEF Event
<1>5. TypeOK'
  BY <1>1, <1>3, <1>4 DEF TypeOK
<1>6. FlowInv'
  BY <1>1, <1>3 DEF FlowInv
<1>7. ReadInv'
  BY <1>1, <1>2 DEF ReadInv
<1>8. SavedInv'
  BY DEF SavedInv
<1> QED  BY <1>3, <1>5, <1>6, <1>7, <1>8

\* What is sent next is what was accepted next.
LEMMA HeadIsSent ==
    ASSUME TypeOK, queue # <<>>
    PROVE  /\ Head(queue) \in Nat /\ Tail(queue) \in Seq(Nat)
           /\ Len(Tail(queue)) = Len(queue) - 1
           /\ Append(sent, Head(queue)) \o Tail(queue) = sent \o queue
<1>1. queue \in Seq(Nat) /\ sent \in Seq(Nat)
  BY DEF TypeOK
<1>2. /\ Head(queue) \in Nat /\ Tail(queue) \in Seq(Nat)
      /\ Len(Tail(queue)) = Len(queue) - 1
  BY <1>1, HeadTailProperties
<1>3. queue = <<Head(queue)>> \o Tail(queue)
  BY <1>1
<1>4. Append(sent, Head(queue)) = sent \o <<Head(queue)>> /\ <<Head(queue)>> \in Seq(Nat)
  BY <1>1, <1>2, AppendIsConcat
<1>5. (sent \o <<Head(queue)>>) \o Tail(queue) = sent \o (<<Head(queue)>> \o Tail(queue))
  BY <1>1, <1>2, <1>4, Associative
<1>6. Append(sent, Head(queue)) \o Tail(queue) = sent \o queue
  BY <1>3, <1>4, <1>5
<1> QED  BY <1>2, <1>6

\* An event that was accepted is no end mark, so a queue that is empty, or has
\* the mark in front, has given out all that was accepted.
LEMMA AllSent ==
    ASSUME TypeOK, FlowInv,
           queue = <<>> \/ Head(queue) = Sentinel
    PROVE  sent = accepted /\ (queue # <<>> => Tail(queue) = <<>>)
<1>1. /\ queue \in Seq(Nat) /\ sent \in Seq(Event) /\ accepted \in Seq(Event)
      /\ sent \in Seq(Nat) /\ accepted \in Seq(Nat)
  BY DEF TypeOK, FlowInv
<1>2. \A s \in Seq(Event) : \A i \in 1..Len(s) : s[i] # Sentinel
  BY ElementOfSeq DEF Event
<1>3. CASE queue = <<>>
  <2>1. sent \o queue = sent
    BY <1>1, <1>3, ConcatEmptySeq
  <2>2. sent # Append(accepted, Sentinel)
    <3>1. Append(accepted, Sentinel)[Len(accepted) + 1] = Sentinel
          /\ Len(Append(accepted, Sentinel)) = Len(accepted) + 1
      BY <1>1, AppendProperties DEF Sentinel
    <3>2. Len(accepted) + 1 \in 1..(Len(accepted) + 1)
      BY <1>1
    <3> QED  BY <1>1, <1>2, <3>1, <3>2
  <2> QED  BY <1>3, <2>1, <2>2 DEF FlowInv
<1>4. CASE queue # <<>> /\ Head(queue) = Sentinel
  <2> DEFINE s == sent \o queue
             m == Len(sent) + 1
  <2>1. Len(queue) \in Nat \ {0} /\ Len(sent) \in Nat /\ queue[1] = Sentinel
    BY <1>1, <1>4
  <2>2. Len(s) = Len(sent) + Len(queue) /\ s[m] = Sentinel
        /\ \A i \in 1..Len(sent) : s[i] = sent[i]
    BY <1>1, <2>1, ConcatProperties
  <2> HIDE DEF s
  <2>3. s # accepted
    <3>1. m \in 1..Len(s)
      BY <2>1, <2>2
    <3>2. accepted \in Seq(Event) /\ s[m] = Sentinel
      BY <1>1, <2>2
    <3> HIDE DEF m
    <3> QED  BY <1>2, <3>1, <3>2
  <2>4. s = Append(accepted, Sentinel)
    BY <2>3 DEF FlowInv, s
  <2>5. /\ Len(s) = Len(accepted) + 1 /\ Len(accepted) \in Nat
        /\ \A i \in 1..Len(accepted) : s[i] = accepted[i]
    BY <1>1, <2>4, AppendProperties DEF Sentinel
  <2>6. Len(sent) = Len(accepted)
    <3>1. ~(Len(sent) < Len(accepted))
      <4>1. ASSUME Len(sent) < Len(accepted)  PROVE FALSE
        <5>1. m \in 1..Len(accepted)
          BY <4>1, <2>1, <2>5
        <5>2. accepted[m] = Sentinel
          BY <5>1, <2>2, <2>5
        <5> QED  BY <5>1, <5>2, <1>1, <1>2
      <4> QED  BY <4>1
    <3>2. Len(sent) + Len(queue) = Len(accepted) + 1
      BY <2>2, <2>5
    <3> QED  BY <3>1, <3>2, <2>1, <2>5
  <2>7. sent = accepted
    BY <2>6, <2>2, <2>5, <1>1, SeqEqual
  <2>8. Len(queue) = 1
    <3>1. Len(sent) + Len(queue) = Len(accepted) + 1
      BY <2>2, <2>5
    <3> QED  BY <3>1, <2>6, <2>1, <2>5
  <2>9. Tail(queue) \in Seq(Nat) /\ Len(Tail(queue)) = 0
    BY <2>8, <1>1, <1>4, HeadTailProperties
  <2> QED  BY <2>7, <2>9, EmptySeq
<1> QED  BY <1>3, <1>4

----------------------------------------------------------------------------
LEMMA InitInv == StreamAssumption /\ Init => IInv
<1> SUFFICES ASSUME StreamAssumption, Init  PROVE IInv
  OBVIOUS
<1> USE DEF Init
<1>1. /\ <<>> \in Seq(Nat) /\ <<>> \in Seq(Event) /\ Len(<<>>) = 0
      /\ <<>> \o <<>> = <<>>
  OBVIOUS
<1>2. TypeOK
  <2>1. /\ QueueMax \in Nat /\ 0 <= QueueMax
        /\ 0 \in 0..MaxRounds /\ 0 \in 0..MaxDeltas
    BY DEF StreamAssumption
  <2>2. queue \in Seq(Nat) /\ Len(queue) <= QueueMax
    BY <1>1, <2>1
  <2>3. watching \in BOOLEAN
    OBVIOUS
  <2> QED  BY <1>1, <2>1, <2>2, <2>3 DEF TypeOK
<1>3. FlowInv
  BY <1>1 DEF FlowInv
<1>4. ReadInv /\ DropInv /\ SavedInv
  BY <1>1 DEF ReadInv, DropInv, SavedInv
<1> QED  BY <1>2, <1>3, <1>4 DEF IInv

\* The steps of the agent from the announcement of the mode to that of the end.
LEMMA AgentKeepsInv ==
    ASSUME StreamAssumption, IInv,
           \/ Start \/ Exhausted \/ RoundBegin \/ Delta \/ Answer \/ Marked \/ ToolEvent
           \/ ToolsOver \/ SynthesisDelta \/ SynthesisOver \/ Raise
    PROVE  IInv'
<1>1. /\ rounds \in 0..MaxRounds /\ deltas \in 0..MaxDeltas
      /\ MaxRounds \in Nat /\ MaxDeltas \in Nat
  BY DEF IInv, TypeOK, StreamAssumption
<1>2. {1, 2, 3} \subseteq Nat /\ 0 \in 0..MaxDeltas
  BY <1>1
<1>3. CASE Start
  BY <1>1, <1>2, <1>3, Announces DEF Start, To
<1>4. CASE Exhausted
  <2>1. rounds' \in 0..MaxRounds /\ deltas' \in 0..MaxDeltas
    BY <1>1, <1>4 DEF Exhausted
  <2>2. (\E n \in Nat : Offer(n)) \/ UNCHANGED <<events, cancel>>
    BY <1>2, <1>4 DEF Exhausted
  <2> QED  BY <1>4, <2>1, <2>2, Announces DEF Exhausted, To
<1>5. CASE RoundBegin
  <2>1. rounds' \in 0..MaxRounds /\ deltas' \in 0..MaxDeltas
    BY <1>1, <1>5 DEF RoundBegin
  <2>2. \E n \in Nat : Offer(n)
    BY <1>2, <1>5 DEF RoundBegin
  <2> QED  BY <1>5, <2>1, <2>2, Announces DEF RoundBegin, To
<1>6. CASE Delta
  <2>1. rounds' \in 0..MaxRounds /\ deltas' \in 0..MaxDeltas
    BY <1>1, <1>6 DEF Delta
  <2>2. \E n \in Nat : Offer(n)
    BY <1>2, <1>6 DEF Delta
  <2> QED  BY <1>6, <2>1, <2>2, Announces DEF Delta, To
<1>7. CASE Answer
  <2>1. \E n \in Nat : Offer(n)
    BY <1>2, <1>7 DEF Answer
  <2> QED  BY <1>1, <1>2, <1>7, <2>1, Announces DEF Answer, To
<1>8. CASE Marked
  BY <1>1, <1>2, <1>8, Announces DEF Marked, To
<1>9. CASE ToolEvent
  <2>1. deltas' \in 0..MaxDeltas
    BY <1>1, <1>9 DEF ToolEvent
  <2> QED  BY <1>1, <1>2, <1>9, <2>1, Announces DEF ToolEvent
<1>10. CASE ToolsOver
  BY <1>1, <1>2, <1>10, Announces DEF ToolsOver, To
<1>11. CASE SynthesisDelta
  <2>1. deltas' \in 0..MaxDeltas
    BY <1>1, <1>11 DEF SynthesisDelta
  <2> QED  BY <1>1, <1>2, <1>11, <2>1, Announces DEF SynthesisDelta
<1>12. CASE SynthesisOver
  BY <1>1, <1>2, <1>12, Announces DEF SynthesisOver, To
<1>13. CASE Raise
  BY <1>1, <1>2, <1>13, Announces DEF Raise, To
<1> QED  BY <1>3, <1>4, <1>5, <1>6, <1>7, <1>8, <1>9, <1>10, <1>11, <1>12, <1>13

\* The finally clause, with the end mark or an exception.
LEMMA WindUpKeepsInv ==
    ASSUME StreamAssumption, IInv, WindUp \/ WindUpRaises
    PROVE  IInv'
<1> USE DEF IInv
<1>1. /\ apc = "final" /\ apc' = "over"
      /\ UNCHANGED <<mode, connected, watching, cancel, rounds, deltas, emitted, accepted,
                    cpc, settled, sent>>
      /\ saved' \in BOOLEAN /\ broken' \in BOOLEAN /\ (saved' \/ broken')
      /\ queue' = queue \/ (Len(queue) < QueueMax /\ queue' = Append(queue, Sentinel))
  BY DEF WindUp, WindUpRaises, client, generator, events, To, TypeOK
<1>2. /\ queue \in Seq(Nat) /\ sent \in Seq(Nat) /\ Sentinel \in Nat
      /\ sent \o queue = accepted /\ cpc \in {"read", "gone"} /\ ~settled
  BY <1>1 DEF TypeOK, FlowInv, ReadInv, Sentinel
<1>3. queue' \in Seq(Nat) /\ Len(queue') <= QueueMax
  <2>1. Len(queue) <= QueueMax /\ QueueMax \in Nat
    BY DEF TypeOK, StreamAssumption
  <2>2. Append(queue, Sentinel) \in Seq(Nat) /\ Len(Append(queue, Sentinel)) = Len(queue) + 1
    BY <1>2, AppendProperties
  <2>3. Len(queue) < QueueMax => Len(queue) + 1 <= QueueMax
    BY <2>1, <1>2
  <2>4. CASE queue' = queue
    BY <2>4, <1>2, <2>1
  <2>5. CASE Len(queue) < QueueMax /\ queue' = Append(queue, Sentinel)
    BY <2>5, <2>2, <2>3
  <2> QED  BY <1>1, <2>4, <2>5
<1>4. sent' \o queue' = accepted' \/ sent' \o queue' = Append(accepted', Sentinel)
  <2>1. sent \o Append(queue, Sentinel) = Append(sent \o queue, Sentinel)
    BY <1>2, ConcatAppend
  <2> QED  BY <1>1, <1>2, <2>1
<1>5. TypeOK'
  BY <1>1, <1>3 DEF TypeOK
<1>6. FlowInv'
  BY <1>1, <1>4 DEF FlowInv
<1>7. ReadInv' /\ DropInv' /\ SavedInv'
  BY <1>1, <1>2 DEF ReadInv, DropInv, SavedInv
<1> QED  BY <1>5, <1>6, <1>7

\* The generator reads the queue.
LEMMA ReadingKeepsInv ==
    ASSUME StreamAssumption, IInv, Send \/ EndMark \/ Idle
    PROVE  IInv'
<1> USE DEF IInv
<1>1. UNCHANGED <<mode, connected, cancel, apc, rounds, deltas, saved, broken, emitted, accepted,
                  settled>>
  BY DEF Send, EndMark, Idle, client, agent, events
<1>2. cpc = "read" /\ ~settled
  BY DEF Send, EndMark, Idle, ReadInv, TypeOK
<1>3. DropInv' /\ SavedInv'
  BY <1>1 DEF DropInv, SavedInv
<1>4. CASE Send
  <2>1. /\ UNCHANGED <<watching, cpc>> /\ queue # <<>> /\ Head(queue) # Sentinel
        /\ sent' = Append(sent, Head(queue)) /\ queue' = Tail(queue)
    BY <1>4 DEF Send, client
  <2>2. /\ Head(queue) \in Event /\ queue' \in Seq(Nat) /\ Len(queue') <= QueueMax
        /\ sent' \o queue' = sent \o queue
    <3>1. Len(queue) \in Nat /\ Len(queue) <= QueueMax /\ QueueMax \in Nat
      BY DEF TypeOK, StreamAssumption
    <3>2. /\ Head(queue) \in Nat /\ Tail(queue) \in Seq(Nat) /\ Len(Tail(queue)) = Len(queue) - 1
          /\ Append(sent, Head(queue)) \o Tail(queue) = sent \o queue
      BY <2>1, HeadIsSent
    <3>3. Head(queue) \in Event
      BY <2>1, <3>2 DEF Event
    <3>4. Len(queue') <= QueueMax
      BY <2>1, <3>1, <3>2
    <3> QED  BY <2>1, <3>2, <3>3, <3>4
  <2>3. sent' \in Seq(Event) /\ sent' \in Seq(Nat)
    BY <2>1, <2>2, AppendProperties DEF FlowInv, TypeOK, Event
  <2>4. TypeOK'
    BY <1>1, <2>1, <2>2, <2>3 DEF TypeOK
  <2>5. FlowInv'
    BY <1>1, <2>2, <2>3 DEF FlowInv
  <2>6. ReadInv'
    BY <1>1, <1>2, <2>1 DEF ReadInv
  <2> QED  BY <1>3, <2>4, <2>5, <2>6
<1>5. CASE EndMark \/ Idle
  <2>1. cpc' = "settle" /\ watching' = FALSE /\ sent' = sent
        /\ (queue = <<>> \/ Head(queue) = Sentinel)
    BY <1>5 DEF EndMark, Idle
  <2>2. sent = accepted /\ (queue # <<>> => Tail(queue) = <<>>)
    BY <2>1, AllSent
  <2>3. queue' = <<>>
    BY <1>5, <2>2 DEF EndMark, Idle, events
  <2>4. apc = "over"
    <3>1. CASE Idle
      BY <3>1 DEF Idle
    <3>2. CASE EndMark
      <4>1. queue # <<>>
        BY <3>2 DEF EndMark
      <4>2. sent \in Seq(Nat) /\ queue \in Seq(Nat)
        BY DEF TypeOK
      <4>3. sent \o queue # accepted
        BY <4>1, <4>2, <2>2, ConcatEqualIffEmpty
      <4> QED  BY <4>3 DEF FlowInv
    <3> QED  BY <1>5, <3>1, <3>2
  <2>5. /\ <<>> \in Seq(Nat) /\ Len(<<>>) = 0 /\ sent \in Seq(Nat)
        /\ sent \o <<>> = sent /\ QueueMax \in Nat
    BY ConcatEmptySeq DEF TypeOK, StreamAssumption
  <2>6. TypeOK'
    <3>1. queue' \in Seq(Nat) /\ Len(queue') <= QueueMax
      BY <2>3, <2>5
    <3> QED  BY <1>1, <2>1, <3>1 DEF TypeOK
  <2>7. FlowInv'
    BY <1>1, <2>1, <2>2, <2>3, <2>5 DEF FlowInv
  <2>8. ReadInv'
    BY <1>1, <1>2, <2>1, <2>2, <2>4 DEF ReadInv
  <2> QED  BY <1>3, <2>6, <2>7, <2>8
<1> QED  BY <1>4, <1>5

\* What the client, the watcher and the rest of the generator do.
LEMMA OthersKeepInv ==
    ASSUME StreamAssumption, IInv, Boot \/ Settle \/ End \/ Leave \/ Abandon \/ Watch
    PROVE  IInv'
<1> USE DEF IInv, client, agent, events, generator
<1>1. UNCHANGED <<mode, rounds, deltas, saved, broken, queue, emitted, accepted, sent>>
  BY DEF Boot, Settle, End, Leave, Abandon, Watch
<1>2. TypeOK'
  <2>1. /\ mode' \in Modes /\ rounds' \in 0..MaxRounds /\ deltas' \in 0..MaxDeltas
        /\ queue' \in Seq(Nat) /\ Len(queue') <= QueueMax
        /\ saved' \in BOOLEAN /\ broken' \in BOOLEAN
        /\ emitted' \in Nat /\ accepted' \in Seq(Nat) /\ sent' \in Seq(Nat)
    BY <1>1 DEF TypeOK
  <2>2. /\ apc' = apc \/ apc' = "start"
        /\ cpc' = cpc \/ cpc' \in {"read", "end", "ended", "gone"}
    BY DEF Boot, Settle, End, Leave, Abandon, Watch
  <2>3. /\ connected' = connected \/ connected' = FALSE
        /\ watching' = watching \/ watching' = FALSE
        /\ cancel' = cancel \/ cancel' = TRUE
        /\ settled' = settled \/ settled' = TRUE
    BY DEF Boot, Settle, End, Leave, Abandon, Watch
  <2>4. connected' \in BOOLEAN /\ watching' \in BOOLEAN /\ cancel' \in BOOLEAN /\ settled' \in BOOLEAN
    BY <2>3 DEF TypeOK
  <2> QED
    BY <2>1, <2>2, <2>4 DEF TypeOK
<1>3. FlowInv'
  BY <1>1 DEF FlowInv, ReadInv, Boot, Settle, End, Leave, Abandon, Watch
<1>4. ReadInv'
  BY <1>1 DEF TypeOK, ReadInv, Alive, Boot, Settle, End, Leave, Abandon, Watch
<1>5. DropInv'
  BY <1>1 DEF DropInv, Boot, Settle, End, Leave, Abandon, Watch
<1>6. SavedInv'
  BY <1>1 DEF SavedInv, Boot, Settle, End, Leave, Abandon, Watch
<1> QED  BY <1>2, <1>3, <1>4, <1>5, <1>6

LEMMA NextInv == StreamAssumption /\ IInv /\ [Next]_vars => IInv'
<1> SUFFICES ASSUME StreamAssumption, IInv, [Next]_vars  PROVE IInv'
  OBVIOUS
<1>1. CASE UNCHANGED vars
  <2> USE <1>1 DEF vars, client, agent, events, generator
  <2>1. TypeOK' /\ FlowInv'
    <3>1. TypeOK'
      BY DEF IInv, TypeOK
    <3>2. FlowInv'
      BY DEF IInv, FlowInv
    <3> QED  BY <3>1, <3>2
  <2>2. ReadInv' /\ DropInv'
    BY DEF IInv, ReadInv, DropInv
  <2>3. SavedInv'
    BY DEF IInv, SavedInv
  <2> QED  BY <2>1, <2>2, <2>3 DEF IInv
<1>2. CASE Agent
  BY <1>2, AgentKeepsInv, WindUpKeepsInv DEF Agent
<1>3. CASE Generator
  BY <1>3, ReadingKeepsInv, OthersKeepInv DEF Generator
<1>4. CASE Leave \/ Abandon \/ Watch
  BY <1>4, OthersKeepInv
<1> QED  BY <1>1, <1>2, <1>3, <1>4 DEF Next

----------------------------------------------------------------------------
\* The invariant of the stream holds of every behaviour of it.
THEOREM InductiveInvariant == Spec => []IInv
<1>1. Init => IInv
  BY InitInv, StreamAssumption
<1>2. IInv /\ [Next]_vars => IInv'
  BY NextInv, StreamAssumption
<1> QED  BY <1>1, <1>2, PTL DEF Spec

\* Every variable stays in its type, and the queue within its bound.
THEOREM TypeCorrect == Spec => []TypeOK
<1>1. IInv => TypeOK
  BY DEF IInv
<1> QED  BY <1>1, InductiveInvariant, PTL

\* When the bill is made (_settle_stream_credits) the agent is over and all it
\* announced was sent, unless the stream was cancelled for what had no room.
THEOREM BilledComplete == Spec => []CompleteWhenSettled
<1>1. IInv => CompleteWhenSettled
  BY DEF IInv, ReadInv, DropInv, CompleteWhenSettled
<1> QED  BY <1>1, InductiveInvariant, PTL

\* Whoever reads the end of the stream finds the turn in the session, unless
\* the memory or the session store failed.
THEOREM EndIsSaved == Spec => []EndedIsSaved
<1>1. IInv => EndedIsSaved
  BY DEF IInv, ReadInv, SavedInv, EndedIsSaved
<1> QED  BY <1>1, InductiveInvariant, PTL

----------------------------------------------------------------------------
(* The gates: Admission, with the settings of each.                         *)

LimiterP == INSTANCE AdmissionProofs WITH
    client <- clients, Requests <- LimiterSetup.requests, Home <- LimiterSetup.home,
    Reserve <- LimiterSetup.reserve, Costs <- LimiterSetup.costs, Limit <- LimiterSetup.limit,
    Grants <- LimiterSetup.grants, Limits <- LimiterSetup.limits, MaxHits <- LimiterSetup.maxHits,
    Window <- LimiterSetup.window, Month <- LimiterSetup.month, MaxTime <- LimiterSetup.maxTime,
    MaxPosts <- LimiterSetup.maxPosts, MaxActs <- LimiterSetup.maxActs
CreditsP == INSTANCE AdmissionProofs WITH
    client <- clients, Requests <- CreditsSetup.requests, Home <- CreditsSetup.home,
    Reserve <- CreditsSetup.reserve, Costs <- CreditsSetup.costs, Limit <- CreditsSetup.limit,
    Grants <- CreditsSetup.grants, Limits <- CreditsSetup.limits, MaxHits <- CreditsSetup.maxHits,
    Window <- CreditsSetup.window, Month <- CreditsSetup.month, MaxTime <- CreditsSetup.maxTime,
    MaxPosts <- CreditsSetup.maxPosts, MaxActs <- CreditsSetup.maxActs


(* Admission is the same under both names: its words... *)
LEMMA LimiterWords ==
    /\ \A S : Limiter!Cardinality(S) = LimiterP!Cardinality(S) /\ Limiter!Max(S) = LimiterP!Max(S)
    /\ \A t : Limiter!Bucket(t) = LimiterP!Bucket(t) /\ Limiter!Period(t) = LimiterP!Period(t)
    /\ Limiter!Processes = LimiterP!Processes /\ Limiter!Periods = LimiterP!Periods /\ Limiter!InFlight = LimiterP!InFlight
<1>1. \A S : Limiter!Cardinality(S) = LimiterP!Cardinality(S)
  BY DEF Limiter!Cardinality, LimiterP!Cardinality
<1>2. \A S : Limiter!Max(S) = LimiterP!Max(S)
  BY DEF Limiter!Max, LimiterP!Max
<1>3. \A t : Limiter!Bucket(t) = LimiterP!Bucket(t) /\ Limiter!Period(t) = LimiterP!Period(t)
  BY DEF Limiter!Bucket, Limiter!Period, LimiterP!Bucket, LimiterP!Period
<1>4. Limiter!Processes = LimiterP!Processes /\ Limiter!Periods = LimiterP!Periods /\ Limiter!InFlight = LimiterP!InFlight
  BY <1>3 DEF Limiter!Processes, Limiter!Periods, Limiter!InFlight, LimiterP!Processes, LimiterP!Periods,
         LimiterP!InFlight
<1> QED  BY <1>1, <1>2, <1>3, <1>4

(* ... its settings and initial states... *)
LEMMA LimiterSets == LimiterP!Settings
BY SetupAssumption DEF Limiter!Settings, Limiter!IsFiniteSet, LimiterP!Settings, LimiterP!IsFiniteSet
LEMMA LimiterStarts == Limiter!Init => LimiterP!Init
BY LimiterWords DEF Limiter!Init, LimiterP!Init

(* ... its steps... *)
LEMMA LimiterMoves == Limiter!Next => LimiterP!Next
<1>1. \A p : Limiter!Recent(p) = LimiterP!Recent(p)
  BY LimiterWords DEF Limiter!Recent, LimiterP!Recent
<1>2. \A r, where : Limiter!Go(r, where) <=> LimiterP!Go(r, where)
  BY DEF Limiter!Go, LimiterP!Go
<1>3. \A r, by : Limiter!Enters(r, by) <=> LimiterP!Enters(r, by)
  BY DEF Limiter!Enters, LimiterP!Enters
<1>4. \A r, by : Limiter!EnforceInMemory(r, by) <=> LimiterP!EnforceInMemory(r, by)
  BY <1>1, <1>2, <1>3 DEF Limiter!EnforceInMemory, LimiterP!EnforceInMemory
<1>5. \A r : Limiter!Limiting(r) => LimiterP!Limiting(r)
  BY LimiterWords, <1>2, <1>3, <1>4
     DEF Limiter!Limiting, Limiter!NoLimit, Limiter!Ping, Limiter!Pinged, Limiter!PingFails,
         Limiter!NoClient, Limiter!HasClient, Limiter!Count, Limiter!CountFails, Limiter!credit,
         Limiter!books, Limiter!plan, LimiterP!Limiting, LimiterP!NoLimit, LimiterP!Ping,
         LimiterP!Pinged, LimiterP!PingFails, LimiterP!NoClient, LimiterP!HasClient, LimiterP!Count,
         LimiterP!CountFails, LimiterP!credit, LimiterP!books, LimiterP!plan
<1>6. \A r : Limiter!Charging(r) => LimiterP!Charging(r)
  BY LimiterWords, <1>2
     DEF Limiter!Charging, Limiter!ReadSuspension, Limiter!CheckPasses, Limiter!CheckFailsOpen,
         Limiter!CheckRefuses, Limiter!Refuse, Limiter!Settle, Limiter!NotSettled, Limiter!PostAgain,
         Limiter!HasCredit, Limiter!Starts, Limiter!credit, Limiter!books, Limiter!plan,
         LimiterP!Charging, LimiterP!ReadSuspension, LimiterP!CheckPasses, LimiterP!CheckFailsOpen,
         LimiterP!CheckRefuses, LimiterP!Refuse, LimiterP!Settle, LimiterP!NotSettled,
         LimiterP!PostAgain, LimiterP!HasCredit, LimiterP!Starts, LimiterP!credit, LimiterP!books,
         LimiterP!plan
<1>7. Limiter!Operating => LimiterP!Operating
  BY LimiterWords DEF Limiter!Operating, Limiter!SetState, Limiter!Grant, Limiter!ReadPeriod, Limiter!PatchPeriod,
         Limiter!PatchFails, Limiter!Acts, Limiter!requests, LimiterP!Operating, LimiterP!SetState,
         LimiterP!Grant, LimiterP!ReadPeriod, LimiterP!PatchPeriod, LimiterP!PatchFails, LimiterP!Acts,
         LimiterP!requests
<1>8. Limiter!Tick => LimiterP!Tick
  BY DEF Limiter!Tick, Limiter!credit, Limiter!books, Limiter!plan, LimiterP!Tick, LimiterP!credit,
         LimiterP!books, LimiterP!plan
<1> QED  BY <1>5, <1>6, <1>7, <1>8 DEF Limiter!Next, LimiterP!Next

(* ... and what it promises. *)
LEMMA LimiterPromises == LimiterP!AdmissionBounded => Limiter!AdmissionBounded
BY LimiterWords
   DEF Limiter!AdmissionBounded, Limiter!RateBounded, Limiter!Admitted, Limiter!OverdraftBounded,
       Limiter!Spare, Limiter!Dearest, Limiter!LedgerExplains, LimiterP!AdmissionBounded,
       LimiterP!RateBounded, LimiterP!Admitted, LimiterP!OverdraftBounded, LimiterP!Spare,
       LimiterP!Dearest, LimiterP!LedgerExplains

(* Admission is the same under both names: its words... *)
LEMMA CreditsWords ==
    /\ \A S : Credits!Cardinality(S) = CreditsP!Cardinality(S) /\ Credits!Max(S) = CreditsP!Max(S)
    /\ \A t : Credits!Bucket(t) = CreditsP!Bucket(t) /\ Credits!Period(t) = CreditsP!Period(t)
    /\ Credits!Processes = CreditsP!Processes /\ Credits!Periods = CreditsP!Periods /\ Credits!InFlight = CreditsP!InFlight
<1>1. \A S : Credits!Cardinality(S) = CreditsP!Cardinality(S)
  BY DEF Credits!Cardinality, CreditsP!Cardinality
<1>2. \A S : Credits!Max(S) = CreditsP!Max(S)
  BY DEF Credits!Max, CreditsP!Max
<1>3. \A t : Credits!Bucket(t) = CreditsP!Bucket(t) /\ Credits!Period(t) = CreditsP!Period(t)
  BY DEF Credits!Bucket, Credits!Period, CreditsP!Bucket, CreditsP!Period
<1>4. Credits!Processes = CreditsP!Processes /\ Credits!Periods = CreditsP!Periods /\ Credits!InFlight = CreditsP!InFlight
  BY <1>3 DEF Credits!Processes, Credits!Periods, Credits!InFlight, CreditsP!Processes, CreditsP!Periods,
         CreditsP!InFlight
<1> QED  BY <1>1, <1>2, <1>3, <1>4

(* ... its settings and initial states... *)
LEMMA CreditsSets == CreditsP!Settings
BY SetupAssumption DEF Credits!Settings, Credits!IsFiniteSet, CreditsP!Settings, CreditsP!IsFiniteSet
LEMMA CreditsStarts == Credits!Init => CreditsP!Init
BY CreditsWords DEF Credits!Init, CreditsP!Init

(* ... its steps... *)
LEMMA CreditsMoves == Credits!Next => CreditsP!Next
<1>1. \A p : Credits!Recent(p) = CreditsP!Recent(p)
  BY CreditsWords DEF Credits!Recent, CreditsP!Recent
<1>2. \A r, where : Credits!Go(r, where) <=> CreditsP!Go(r, where)
  BY DEF Credits!Go, CreditsP!Go
<1>3. \A r, by : Credits!Enters(r, by) <=> CreditsP!Enters(r, by)
  BY DEF Credits!Enters, CreditsP!Enters
<1>4. \A r, by : Credits!EnforceInMemory(r, by) <=> CreditsP!EnforceInMemory(r, by)
  BY <1>1, <1>2, <1>3 DEF Credits!EnforceInMemory, CreditsP!EnforceInMemory
<1>5. \A r : Credits!Limiting(r) => CreditsP!Limiting(r)
  BY CreditsWords, <1>2, <1>3, <1>4
     DEF Credits!Limiting, Credits!NoLimit, Credits!Ping, Credits!Pinged, Credits!PingFails,
         Credits!NoClient, Credits!HasClient, Credits!Count, Credits!CountFails, Credits!credit,
         Credits!books, Credits!plan, CreditsP!Limiting, CreditsP!NoLimit, CreditsP!Ping,
         CreditsP!Pinged, CreditsP!PingFails, CreditsP!NoClient, CreditsP!HasClient, CreditsP!Count,
         CreditsP!CountFails, CreditsP!credit, CreditsP!books, CreditsP!plan
<1>6. \A r : Credits!Charging(r) => CreditsP!Charging(r)
  BY CreditsWords, <1>2
     DEF Credits!Charging, Credits!ReadSuspension, Credits!CheckPasses, Credits!CheckFailsOpen,
         Credits!CheckRefuses, Credits!Refuse, Credits!Settle, Credits!NotSettled, Credits!PostAgain,
         Credits!HasCredit, Credits!Starts, Credits!credit, Credits!books, Credits!plan,
         CreditsP!Charging, CreditsP!ReadSuspension, CreditsP!CheckPasses, CreditsP!CheckFailsOpen,
         CreditsP!CheckRefuses, CreditsP!Refuse, CreditsP!Settle, CreditsP!NotSettled,
         CreditsP!PostAgain, CreditsP!HasCredit, CreditsP!Starts, CreditsP!credit, CreditsP!books,
         CreditsP!plan
<1>7. Credits!Operating => CreditsP!Operating
  BY CreditsWords DEF Credits!Operating, Credits!SetState, Credits!Grant, Credits!ReadPeriod, Credits!PatchPeriod,
         Credits!PatchFails, Credits!Acts, Credits!requests, CreditsP!Operating, CreditsP!SetState,
         CreditsP!Grant, CreditsP!ReadPeriod, CreditsP!PatchPeriod, CreditsP!PatchFails, CreditsP!Acts,
         CreditsP!requests
<1>8. Credits!Tick => CreditsP!Tick
  BY DEF Credits!Tick, Credits!credit, Credits!books, Credits!plan, CreditsP!Tick, CreditsP!credit,
         CreditsP!books, CreditsP!plan
<1> QED  BY <1>5, <1>6, <1>7, <1>8 DEF Credits!Next, CreditsP!Next

(* ... and what it promises. *)
LEMMA CreditsPromises == CreditsP!AdmissionBounded => Credits!AdmissionBounded
BY CreditsWords
   DEF Credits!AdmissionBounded, Credits!RateBounded, Credits!Admitted, Credits!OverdraftBounded,
       Credits!Spare, Credits!Dearest, Credits!LedgerExplains, CreditsP!AdmissionBounded,
       CreditsP!RateBounded, CreditsP!Admitted, CreditsP!OverdraftBounded, CreditsP!Spare,
       CreditsP!Dearest, CreditsP!LedgerExplains

\* A limiter lets in no more than its two counters allow, and no period of the
\* ledger ends further above its limit than its runs explain, for any requests,
\* reserves, costs, limits and grants (rate_limit.py, credits/store.py).
THEOREM GatesBound == PartSpec => []AdmissionBounded
<1> DEFINE Inv == (part = "limiter" => LimiterP!IInv) /\ (part = "credits" => CreditsP!IInv)
<1>1. PartInit => Inv
  BY LimiterSets, LimiterStarts, LimiterP!InitIInv, CreditsSets, CreditsStarts, CreditsP!InitIInv DEF PartInit
<1>2. Inv /\ [PartNext]_all => Inv'
  <2> SUFFICES ASSUME Inv, [PartNext]_all PROVE Inv'
    OBVIOUS
  <2>1. part' = part
    BY DEF PartNext, all
  <2>2. CASE part = "limiter"
    <3>1. \/ Limiter!Tick \/ \E r \in LimiterSetup.requests : Limiter!Limiting(r)
          \/ UNCHANGED LimiterP!vars
      BY <2>2 DEF PartNext, all, door, LimiterP!vars, LimiterP!credit, LimiterP!books, LimiterP!plan
    <3>2. [LimiterP!Next]_(LimiterP!vars)
      BY <3>1, LimiterMoves DEF Limiter!Next
    <3>3. LimiterP!IInv'
      BY <2>2, <3>2, LimiterSets, LimiterP!NextIInv
    <3> QED  BY <2>1, <2>2, <3>3
  <2>3. CASE part = "credits"
    <3>1. Credits!Next \/ UNCHANGED CreditsP!vars
      BY <2>3 DEF PartNext, all, door, CreditsP!vars, CreditsP!credit, CreditsP!books, CreditsP!plan
    <3>2. [CreditsP!Next]_(CreditsP!vars)
      BY <3>1, CreditsMoves
    <3>3. CreditsP!IInv'
      BY <2>3, <3>2, CreditsSets, CreditsP!NextIInv
    <3> QED  BY <2>1, <2>3, <3>3
  <2> QED  BY <2>1, <2>2, <2>3
<1>3. LimiterP!IInv => LimiterP!AdmissionBounded
  BY LimiterSets, LimiterP!BoundFollows
<1>4. CreditsP!IInv => CreditsP!AdmissionBounded
  BY CreditsSets, CreditsP!BoundFollows
<1>5. Inv => AdmissionBounded
  BY <1>3, <1>4, LimiterPromises, CreditsPromises DEF AdmissionBounded
<1> QED  BY <1>1, <1>2, <1>5, PTL DEF PartSpec
----------------------------------------------------------------------------
(* The channel: IMessage.                                                   *)

Fresh == {"new", "deduped", "503", "queued", "linked", "unlinked", "linking", "relinking", "confirming", "hinting"}
Halted == {"tailing", "failing", "over", "lost"}
Managers == Phone!Deliveries \cup {"web"}

PhoneTypes ==
    /\ scene \in PhoneScenes
    /\ pc \in [Phone!Deliveries -> Fresh \cup Phone!Working \cup {"over", "lost"}]
    /\ manager \in [Phone!Processes -> Managers]
    /\ prev \in [Phone!Deliveries -> Managers]
    /\ began \in Seq(Phone!Deliveries)

\* Typing is halted at the end of a turn, and stays so.
TypingInv ==
    /\ typing \cap stopped = {}
    /\ stopped \subseteq Phone!Deliveries
    /\ \A d \in stopped : pc[d] \in Halted

\* A turn begins once, and none is under way that has not begun.
BeganInv ==
    /\ \A i, j \in DOMAIN began : began[i] = began[j] => i = j
    /\ \A i \in DOMAIN began : pc[began[i]] \notin Fresh
    /\ \A d \in Phone!Deliveries : pc[d] \in Phone!Working => \E i \in DOMAIN began : began[i] = d

\* The managers of the turns under way are a stack: the agent has that of the
\* last of them to begin, each turn remembers that of the last before it, and
\* the first of them that of the web -- unless turns ended in another order.
Before(d, e) == \E i, j \in DOMAIN began : i < j /\ began[i] = d /\ began[j] = e
Latest(v, turns) == IF turns = {} THEN v = "web" ELSE v \in turns /\ \A e \in turns : ~Before(v, e)
Earlier(p, d) == {e \in Phone!InTurn(p) : Before(e, d)}
StackOf(p) ==
    /\ Latest(manager[p], Phone!InTurn(p))
    /\ \A d \in Phone!InTurn(p) : Latest(prev[d], Earlier(p, d))
StackInv == \A p \in Phone!Processes \ crossed : StackOf(p)

PhoneInv == PhoneTypes /\ TypingInv /\ BeganInv /\ StackInv

(* The process of a delivery is one. *)
LEMMA ProcIsProcess ==
    ASSUME PhoneTypes, NEW d \in Phone!Deliveries
    PROVE  Phone!Proc(d) \in Phone!Processes
BY DEF Phone!Proc, Phone!Processes

(* The invariant holds at the start. *)
LEMMA PhoneStarts == Phone!Init => PhoneInv
<1> SUFFICES ASSUME Phone!Init PROVE PhoneInv
  OBVIOUS
<1>1. began = <<>> /\ DOMAIN began = {} /\ began \in Seq(Phone!Deliveries)
  BY DEF Phone!Init
<1>2. PhoneTypes
  BY <1>1 DEF PhoneTypes, Phone!Init, Fresh, Managers
<1>3. TypingInv
  BY DEF TypingInv, Phone!Init
<1>4. \A d \in Phone!Deliveries : pc[d] \notin Phone!Working
  BY DEF Phone!Init, Phone!Working
<1>5. BeganInv
  BY <1>1, <1>4 DEF BeganInv
<1>6. \A p \in Phone!Processes : Phone!InTurn(p) = {} /\ manager[p] = "web"
  BY <1>4 DEF Phone!InTurn, Phone!Init
<1>7. StackInv
  BY <1>6 DEF StackInv, StackOf, Latest
<1> QED  BY <1>2, <1>3, <1>5, <1>7 DEF PhoneInv

(* A step in which no turn begins or leaves. *)
LEMMA PhoneMoves ==
    ASSUME PhoneInv, UNCHANGED <<scene, manager, prev, began, crossed>>,
           pc' \in [Phone!Deliveries -> Fresh \cup Phone!Working \cup {"over", "lost"}],
           \A d \in Phone!Deliveries :
               /\ pc'[d] \in Phone!Working <=> pc[d] \in Phone!Working
               /\ pc'[d] \in Fresh => pc[d] \in Fresh,
           typing' \cap stopped' = {},
           stopped' \subseteq Phone!Deliveries,
           \A d \in stopped' : pc'[d] \in Halted
    PROVE  PhoneInv'
<1>1. /\ Phone!Deliveries' = Phone!Deliveries /\ Phone!Processes' = Phone!Processes
      /\ \A d : Phone!Proc(d)' = Phone!Proc(d)
  BY DEF Phone!Deliveries, Phone!Processes, Phone!Proc
<1>2. PhoneTypes'
  BY <1>1 DEF PhoneInv, PhoneTypes, Managers
<1>3. TypingInv'
  BY <1>1 DEF TypingInv
<1>4. BeganInv'
  <2>1. \A i \in DOMAIN began : began[i] \in Phone!Deliveries
    BY DEF PhoneInv, PhoneTypes
  <2> QED  BY <1>1, <2>1 DEF PhoneInv, BeganInv
<1>5. \A p : Phone!InTurn(p)' = Phone!InTurn(p)
  BY <1>1 DEF Phone!InTurn
<1>6. \A d, e : Before(d, e)' <=> Before(d, e)
  BY DEF Before
<1>7. StackInv'
  BY <1>1, <1>5, <1>6 DEF PhoneInv, StackInv, StackOf, Latest, Earlier
<1> QED  BY <1>2, <1>3, <1>4, <1>7 DEF PhoneInv

(* Claims expire, tools and bubbles come and go: no turn moves. *)
LEMMA PhoneStays ==
    ASSUME PhoneInv,
           \/ Phone!Expire
           \/ \E d \in Phone!Deliveries :
                 \/ Phone!UseTool(d) \/ Phone!BubbleStarts(d) \/ Phone!BubbleSent(d) \/ Phone!BubbleRecorded(d)
                 \/ Phone!SaySent(d) \/ Phone!SayRecorded(d) \/ \E text : Phone!Say(d, text)
    PROVE  PhoneInv'
<1>1. UNCHANGED <<scene, pc, manager, prev, began, crossed, stopped>>
  BY DEF Phone!Expire, Phone!UseTool, Phone!BubbleStarts, Phone!BubbleSent, Phone!BubbleRecorded, Phone!SaySent,
         Phone!SayRecorded, Phone!Say, Phone!phone, Phone!turn, Phone!claims
<1>2. \/ typing' \subseteq typing
      \/ \E d : d \notin stopped /\ typing' = typing \cup {d}
  BY DEF Phone!Expire, Phone!UseTool, Phone!BubbleStarts, Phone!BubbleSent, Phone!BubbleRecorded, Phone!SaySent,
         Phone!SayRecorded, Phone!Say, Phone!Paused, Phone!Resumed, Phone!turn
<1>3. typing' \cap stopped' = {}
  BY <1>1, <1>2 DEF PhoneInv, TypingInv
<1> QED  BY <1>1, <1>3, PhoneMoves DEF PhoneInv, PhoneTypes, TypingInv

(* The webhook and what comes before a turn. *)
LEMMA PhoneArrives ==
    ASSUME PhoneInv, NEW d \in Phone!Deliveries,
           \/ Phone!Claim(d) \/ Phone!ClaimLocally(d) \/ Phone!Lookup(d) \/ Phone!Hint(d)
           \/ Phone!Confirm(d) \/ Phone!LinkPhone(d) \/ Phone!Verified(d)
    PROVE  PhoneInv'
<1>1. UNCHANGED <<scene, manager, prev, began, crossed, typing, stopped>>
  BY DEF Phone!Claim, Phone!ClaimLocally, Phone!Lookup, Phone!Hint, Phone!Confirm, Phone!LinkPhone, Phone!Verified,
         Phone!turn
<1>2. /\ pc[d] \in Fresh
      /\ \E where \in Fresh \cup {"over"} : pc' = [pc EXCEPT ![d] = where]
  BY DEF Phone!Claim, Phone!ClaimLocally, Phone!Lookup, Phone!Hint, Phone!Confirm, Phone!LinkPhone, Phone!Verified,
         Phone!Accept, Phone!Go, Fresh
<1>3. PICK where \in Fresh \cup {"over"} : pc' = [pc EXCEPT ![d] = where]
  BY <1>2
<1>4. /\ pc' \in [Phone!Deliveries -> Fresh \cup Phone!Working \cup {"over", "lost"}]
      /\ \A e \in Phone!Deliveries : pc'[e] = IF e = d THEN where ELSE pc[e]
  BY <1>3 DEF PhoneInv, PhoneTypes
<1>5. Fresh \cap Phone!Working = {} /\ "over" \notin Phone!Working /\ Fresh \cap Halted = {}
  BY DEF Fresh, Phone!Working, Halted
<1>6. d \notin stopped
  BY <1>2, <1>5 DEF PhoneInv, TypingInv
<1> QED  BY <1>1, <1>2, <1>4, <1>5, <1>6, PhoneMoves DEF PhoneInv, TypingInv

(* A turn under way. *)
LEMMA PhoneWorks ==
    ASSUME PhoneInv, NEW d \in Phone!Deliveries,
           Phone!Prepare(d) \/ Phone!AgentEnds(d) \/ Phone!Drain(d) \/ Phone!Raises(d)
    PROVE  PhoneInv'
<1>1. UNCHANGED <<scene, manager, prev, began, crossed>>
  BY DEF Phone!Prepare, Phone!AgentEnds, Phone!Drain, Phone!Raises, Phone!turn
<1>2. PICK where \in Phone!Working :
        /\ pc[d] \in Phone!Working /\ pc' = [pc EXCEPT ![d] = where]
        /\ \/ where \in {"tailing", "failing"} /\ typing' = typing \ {d} /\ stopped' = stopped \cup {d}
           \/ pc[d] \notin Halted /\ UNCHANGED <<typing, stopped>>
  BY DEF Phone!Prepare, Phone!AgentEnds, Phone!Drain, Phone!Raises, Phone!turn, Phone!Go, Phone!Working, Halted
<1>3. /\ pc' \in [Phone!Deliveries -> Fresh \cup Phone!Working \cup {"over", "lost"}]
      /\ \A e \in Phone!Deliveries : pc'[e] = IF e = d THEN where ELSE pc[e]
  BY <1>2 DEF PhoneInv, PhoneTypes
<1>4. Fresh \cap Phone!Working = {}
  BY DEF Fresh, Phone!Working
<1>5. typing' \cap stopped' = {} /\ stopped' \subseteq Phone!Deliveries
  BY <1>2 DEF PhoneInv, TypingInv
<1>6. ASSUME NEW e \in stopped' PROVE pc'[e] \in Halted
  <2>1. CASE e = d
    BY <1>2, <1>3, <1>6, <2>1 DEF PhoneInv, TypingInv, Halted
  <2>2. CASE e # d
    BY <1>2, <1>3, <1>6, <2>2 DEF PhoneInv, TypingInv
  <2> QED  BY <2>1, <2>2
<1> QED  BY <1>1, <1>2, <1>3, <1>4, <1>5, <1>6, PhoneMoves

(* A turn begins: it is the last of its process, and remembers the one before. *)
LEMMA PhoneBegins ==
    ASSUME PhoneInv, NEW d \in Phone!Deliveries, Phone!Begin(d)
    PROVE  PhoneInv'
<1> DEFINE p == Phone!Proc(d)
<1>1. /\ UNCHANGED <<scene, stopped, crossed>> /\ pc[d] = "linked" /\ pc' = [pc EXCEPT ![d] = "preparing"]
      /\ prev' = [prev EXCEPT ![d] = manager[p]] /\ manager' = [manager EXCEPT ![p] = d]
      /\ typing' = typing \cup {d} /\ began' = Append(began, d)
  BY DEF Phone!Begin, Phone!Go
<1>2. /\ Phone!Deliveries' = Phone!Deliveries /\ Phone!Processes' = Phone!Processes
      /\ \A e : Phone!Proc(e)' = Phone!Proc(e)
  BY <1>1 DEF Phone!Deliveries, Phone!Processes, Phone!Proc
<1>3. p \in Phone!Processes
  BY ProcIsProcess DEF PhoneInv
<1>4. /\ \A e \in Phone!Deliveries : pc'[e] = IF e = d THEN "preparing" ELSE pc[e]
      /\ \A e \in Phone!Deliveries : prev'[e] = IF e = d THEN manager[p] ELSE prev[e]
      /\ \A q \in Phone!Processes : manager'[q] = IF q = p THEN d ELSE manager[q]
  BY <1>1 DEF PhoneInv, PhoneTypes
<1>5. "linked" \in Fresh /\ "preparing" \notin Fresh /\ "preparing" \in Phone!Working
      /\ "linked" \notin Halted /\ "linked" \notin Phone!Working
  BY DEF Fresh, Phone!Working, Halted
<1>6. PhoneTypes'
  <2>1. manager[p] \in Managers /\ d \in Managers
    BY <1>3 DEF PhoneInv, PhoneTypes, Managers
  <2>2. Managers' = Managers /\ Phone!Working' = Phone!Working
    BY <1>2 DEF Managers, Phone!Working
  <2>3. pc' \in [Phone!Deliveries -> Fresh \cup Phone!Working \cup {"over", "lost"}]
    BY <1>1, <1>5 DEF PhoneInv, PhoneTypes
  <2>4. prev' \in [Phone!Deliveries -> Managers] /\ manager' \in [Phone!Processes -> Managers]
    BY <1>1, <2>1 DEF PhoneInv, PhoneTypes
  <2>5. began' \in Seq(Phone!Deliveries)
    BY <1>1 DEF PhoneInv, PhoneTypes
  <2> QED  BY <1>1, <1>2, <2>2, <2>3, <2>4, <2>5 DEF PhoneInv, PhoneTypes
<1>7. TypingInv'
  <2>1. d \notin stopped
    BY <1>1, <1>5 DEF PhoneInv, TypingInv
  <2> QED  BY <1>1, <1>2, <1>4, <2>1 DEF PhoneInv, TypingInv
<1> DEFINE n == Len(began)
<1>8. /\ n \in Nat /\ DOMAIN began = 1..n /\ DOMAIN began' = 1..(n + 1)
      /\ began'[n + 1] = d /\ \A i \in 1..n : began'[i] = began[i] /\ began[i] \in Phone!Deliveries
  BY <1>1 DEF PhoneInv, PhoneTypes
<1>9. \A i \in 1..n : began[i] # d
  BY <1>1, <1>5, <1>8 DEF PhoneInv, BeganInv
<1>10. BeganInv'
  <2>1. \A i, j \in DOMAIN began' : began'[i] = began'[j] => i = j
    BY <1>8, <1>9 DEF PhoneInv, BeganInv
  <2>2. \A i \in DOMAIN began' : pc'[began'[i]] \notin Fresh
    BY <1>4, <1>5, <1>8 DEF PhoneInv, BeganInv
  <2>3. ASSUME NEW e \in Phone!Deliveries, pc'[e] \in Phone!Working PROVE \E i \in DOMAIN began' : began'[i] = e
    <3>1. CASE e = d
      BY <1>8, <3>1
    <3>2. CASE e # d
      BY <1>4, <1>8, <2>3, <3>2 DEF PhoneInv, BeganInv
    <3> QED  BY <3>1, <3>2
  <2> QED  BY <1>2, <2>1, <2>2, <2>3 DEF BeganInv, Phone!Working
<1>11. /\ \A e \in Phone!InTurn(p) : \E i \in 1..n : began[i] = e
       /\ \A q : d \notin Phone!InTurn(q)
       /\ \A q : Phone!InTurn(q)' = IF q = p THEN Phone!InTurn(q) \cup {d} ELSE Phone!InTurn(q)
  <2>1. \A q : d \notin Phone!InTurn(q)
    BY <1>1, <1>5 DEF Phone!InTurn
  <2>2. \A e \in Phone!InTurn(p) : \E i \in 1..n : began[i] = e
    BY <1>8 DEF Phone!InTurn, PhoneInv, BeganInv
  <2>3. \A q : Phone!InTurn(q)' = IF q = p THEN Phone!InTurn(q) \cup {d} ELSE Phone!InTurn(q)
    BY <1>2, <1>4, <1>5 DEF Phone!InTurn, Phone!Working
  <2> QED  BY <2>1, <2>2, <2>3
<1>12. /\ \A e, f : e # d /\ f # d => (Before(e, f)' <=> Before(e, f))
       /\ \A e : ~Before(d, e)'
       /\ \A e \in Phone!InTurn(p) : Before(e, d)'
  <2>1. \A e, f : e # d /\ f # d => (Before(e, f)' <=> Before(e, f))
    BY <1>8 DEF Before
  <2>2. \A e : ~Before(d, e)'
    BY <1>8, <1>9 DEF Before
  <2>3. \A e \in Phone!InTurn(p) : Before(e, d)'
    BY <1>8, <1>11 DEF Before
  <2> QED  BY <2>1, <2>2, <2>3
<1>13. StackInv'
  <2> SUFFICES ASSUME NEW q \in Phone!Processes \ crossed PROVE StackOf(q)'
    BY <1>1, <1>2 DEF StackInv
  <2>0. StackOf(q)
    BY DEF PhoneInv, StackInv
  <2>1. CASE q # p
    <3>1. Phone!InTurn(q)' = Phone!InTurn(q) /\ d \notin Phone!InTurn(q)
      BY <1>11, <2>1
    <3>2. manager'[q] = manager[q] /\ \A e \in Phone!InTurn(q) : prev'[e] = prev[e]
      BY <1>4, <2>1, <3>1 DEF Phone!InTurn
    <3>3. \A e, f \in Phone!InTurn(q) : Before(e, f)' <=> Before(e, f)
      BY <1>12, <3>1
    <3>4. \A e \in Phone!InTurn(q) : Earlier(q, e)' = Earlier(q, e)
      BY <3>1, <3>3 DEF Earlier
    <3>5. Latest(manager[q], Phone!InTurn(q))'
      BY <2>0, <3>1, <3>2, <3>3 DEF StackOf, Latest
    <3>6. ASSUME NEW e \in Phone!InTurn(q) PROVE Latest(prev[e], Earlier(q, e))'
      BY <2>0, <3>2, <3>3, <3>4 DEF StackOf, Latest, Earlier
    <3> QED  BY <3>1, <3>5, <3>6 DEF StackOf
  <2>2. CASE q = p
    <3>1. Latest(manager[q], Phone!InTurn(q))'
      BY <1>3, <1>4, <1>11, <1>12, <2>2 DEF Latest
    <3>2. Earlier(q, d)' = Phone!InTurn(q)
      BY <1>11, <1>12, <2>2 DEF Earlier
    <3>3. Latest(prev[d], Earlier(q, d))'
      BY <1>4, <1>11, <1>12, <2>0, <2>2, <3>2 DEF StackOf, Latest
    <3>4. ASSUME NEW e \in Phone!InTurn(q) PROVE Latest(prev[e], Earlier(q, e))'
      <4>1. e # d /\ d \notin Phone!InTurn(q) /\ prev'[e] = prev[e]
        BY <1>4, <1>11 DEF Phone!InTurn
      <4>2. Earlier(q, e)' = Earlier(q, e)
        BY <1>11, <1>12, <2>2, <4>1 DEF Earlier
      <4>3. Latest(prev[e], Earlier(q, e)) /\ \A f \in Earlier(q, e) : f # d
        BY <2>0, <4>1 DEF StackOf, Earlier
      <4> QED  BY <1>12, <4>1, <4>2, <4>3 DEF Latest
    <3> QED  BY <1>11, <2>2, <3>1, <3>3, <3>4 DEF StackOf
  <2> QED  BY <2>1, <2>2
<1> QED  BY <1>6, <1>7, <1>10, <1>13 DEF PhoneInv

(* The turns of a process under way are in the order in which they began. *)
LEMMA InOrder ==
    ASSUME PhoneInv, NEW p \in Phone!Processes, NEW d \in Phone!InTurn(p), NEW e \in Phone!InTurn(p), d # e
    PROVE  Before(d, e) \/ Before(e, d)
<1>1. PICK i \in DOMAIN began : began[i] = d
  BY DEF PhoneInv, BeganInv, Phone!InTurn
<1>2. PICK j \in DOMAIN began : began[j] = e
  BY DEF PhoneInv, BeganInv, Phone!InTurn
<1>3. i \in Nat /\ j \in Nat
  BY DEF PhoneInv, PhoneTypes
<1>4. i < j \/ j < i
  BY <1>1, <1>2, <1>3
<1> QED  BY <1>1, <1>2, <1>4 DEF Before

(* A turn ends, and the manager it remembers is the agent's again. *)
LEMMA PhoneLeaves ==
    ASSUME PhoneInv, NEW d \in Phone!Deliveries, Phone!Ends(d) \/ Phone!Apologises(d)
    PROVE  PhoneInv'
<1> DEFINE p == Phone!Proc(d)
<1>1. /\ UNCHANGED <<scene, prev, began, typing, stopped>>
      /\ pc[d] \in {"tailing", "failing"} /\ pc' = [pc EXCEPT ![d] = "over"]
      /\ manager' = [manager EXCEPT ![p] = prev[d]]
  BY DEF Phone!Ends, Phone!Apologises, Phone!Leaves, Phone!Restores, Phone!Go
<1>2. /\ Phone!Deliveries' = Phone!Deliveries /\ Phone!Processes' = Phone!Processes
      /\ \A e : Phone!Proc(e)' = Phone!Proc(e)
  BY <1>1 DEF Phone!Deliveries, Phone!Processes, Phone!Proc
<1>3. p \in Phone!Processes
  BY ProcIsProcess DEF PhoneInv
<1>4. /\ \A e \in Phone!Deliveries : pc'[e] = IF e = d THEN "over" ELSE pc[e]
      /\ \A q \in Phone!Processes : manager'[q] = IF q = p THEN prev[d] ELSE manager[q]
  BY <1>1 DEF PhoneInv, PhoneTypes
<1>5. crossed \subseteq crossed' /\ ((\E e \in Phone!InTurn(p) : Before(d, e)) => p \in crossed')
  BY DEF Phone!Ends, Phone!Apologises, Phone!Leaves, Before
<1>6. /\ "over" \notin Fresh /\ "over" \in Halted /\ "over" \notin Phone!Working
      /\ "tailing" \in Phone!Working /\ "failing" \in Phone!Working
  BY DEF Fresh, Phone!Working, Halted
<1>7. PhoneTypes'
  <2>1. Managers' = Managers /\ Phone!Working' = Phone!Working
    BY <1>2 DEF Managers, Phone!Working
  <2>2. pc' \in [Phone!Deliveries -> Fresh \cup Phone!Working \cup {"over", "lost"}]
    BY <1>1 DEF PhoneInv, PhoneTypes
  <2>3. manager' \in [Phone!Processes -> Managers]
    BY <1>1 DEF PhoneInv, PhoneTypes
  <2> QED  BY <1>1, <1>2, <2>1, <2>2, <2>3 DEF PhoneInv, PhoneTypes
<1>8. TypingInv'
  BY <1>1, <1>2, <1>4, <1>6 DEF PhoneInv, TypingInv
<1>9. BeganInv'
  <2>1. \A i \in DOMAIN began : began[i] \in Phone!Deliveries
    BY DEF PhoneInv, PhoneTypes
  <2> QED  BY <1>1, <1>2, <1>4, <1>6, <2>1 DEF PhoneInv, BeganInv, Phone!Working
<1>10. \A q : Phone!InTurn(q)' = Phone!InTurn(q) \ {d}
  BY <1>2, <1>4, <1>6 DEF Phone!InTurn, Phone!Working
<1>11. \A e, f : Before(e, f)' <=> Before(e, f)
  BY <1>1 DEF Before
<1>12. StackInv'
  <2> SUFFICES ASSUME NEW q \in Phone!Processes \ crossed' PROVE StackOf(q)'
    BY <1>2 DEF StackInv
  <2>1. StackOf(q)
    BY <1>5 DEF PhoneInv, StackInv
  <2>2. CASE q # p
    <3>1. Phone!InTurn(q)' = Phone!InTurn(q) /\ manager'[q] = manager[q]
      BY <1>4, <1>10, <2>2 DEF Phone!InTurn
    <3> QED  BY <1>1, <1>11, <2>1, <3>1 DEF StackOf, Latest, Earlier
  <2>3. CASE q = p
    <3>1. d \in Phone!InTurn(q) /\ \A e \in Phone!InTurn(q) : ~Before(d, e)
      BY <1>1, <1>5, <1>6, <2>3 DEF Phone!InTurn
    <3>2. \A e \in Phone!InTurn(q) \ {d} : Before(e, d)
      BY <3>1, InOrder
    <3>3. Earlier(q, d) = Phone!InTurn(q) \ {d}
      BY <3>1, <3>2 DEF Earlier
    <3>4. Latest(manager[q], Phone!InTurn(q))'
      BY <1>3, <1>4, <1>10, <1>11, <2>1, <2>3, <3>1, <3>3 DEF StackOf, Latest
    <3>5. ASSUME NEW e \in Phone!InTurn(q) \ {d} PROVE Latest(prev[e], Earlier(q, e))'
      <4>1. Earlier(q, e)' = Earlier(q, e)
        BY <1>10, <1>11, <3>1 DEF Earlier
      <4> QED  BY <1>1, <1>11, <2>1, <4>1 DEF StackOf, Latest
    <3> QED  BY <1>10, <3>4, <3>5 DEF StackOf
  <2> QED  BY <2>2, <2>3
<1> QED  BY <1>7, <1>8, <1>9, <1>12 DEF PhoneInv

(* A process dies, and its turns with it: the next has the manager of the web. *)
LEMMA PhoneDies ==
    ASSUME PhoneInv, NEW p \in Phone!Processes, Phone!Dies(p)
    PROVE  PhoneInv'
<1>1. /\ UNCHANGED <<scene, prev, began, stopped>> /\ typing' \subseteq typing
      /\ manager' = [manager EXCEPT ![p] = "web"] /\ crossed' = crossed \ {p}
  BY DEF Phone!Dies
<1>2. pc' = [d \in Phone!Deliveries |->
                IF Phone!Proc(d) = p /\ pc[d] \notin {"new", "over", "deduped", "503"} THEN "lost" ELSE pc[d]]
  BY DEF Phone!Dies
<1>3. /\ Phone!Deliveries' = Phone!Deliveries /\ Phone!Processes' = Phone!Processes
      /\ \A e : Phone!Proc(e)' = Phone!Proc(e)
  BY <1>1 DEF Phone!Deliveries, Phone!Processes, Phone!Proc
<1>4. /\ \A d \in Phone!Deliveries : pc'[d] = pc[d] \/ (pc'[d] = "lost" /\ Phone!Proc(d) = p)
      /\ \A d \in Phone!Deliveries : Phone!Proc(d) = p => pc'[d] \notin Phone!Working
  BY <1>2 DEF Phone!Working
<1>5. "lost" \notin Fresh /\ "lost" \in Halted /\ "lost" \notin Phone!Working
  BY DEF Fresh, Phone!Working, Halted
<1>6. PhoneTypes'
  <2>1. Managers' = Managers /\ Phone!Working' = Phone!Working
    BY <1>3 DEF Managers, Phone!Working
  <2>2. pc' \in [Phone!Deliveries -> Fresh \cup Phone!Working \cup {"over", "lost"}]
    BY <1>2 DEF PhoneInv, PhoneTypes
  <2>3. manager' \in [Phone!Processes -> Managers]
    BY <1>1 DEF PhoneInv, PhoneTypes, Managers
  <2> QED  BY <1>1, <1>3, <2>1, <2>2, <2>3 DEF PhoneInv, PhoneTypes
<1>7. TypingInv'
  BY <1>1, <1>3, <1>4, <1>5 DEF PhoneInv, TypingInv
<1>8. BeganInv'
  <2>1. \A i \in DOMAIN began : began[i] \in Phone!Deliveries
    BY DEF PhoneInv, PhoneTypes
  <2> QED  BY <1>1, <1>3, <1>4, <1>5, <2>1 DEF PhoneInv, BeganInv, Phone!Working
<1>9. \A q : Phone!InTurn(q)' = IF q = p THEN {} ELSE Phone!InTurn(q)
  BY <1>3, <1>4, <1>5 DEF Phone!InTurn, Phone!Working
<1>10. \A e, f : Before(e, f)' <=> Before(e, f)
  BY <1>1 DEF Before
<1>11. StackInv'
  <2> SUFFICES ASSUME NEW q \in Phone!Processes \ crossed' PROVE StackOf(q)'
    BY <1>3 DEF StackInv
  <2>1. CASE q = p
    <3>1. manager'[q] = "web" /\ Phone!InTurn(q)' = {}
      BY <1>1, <1>9, <2>1 DEF PhoneInv, PhoneTypes
    <3> QED  BY <3>1 DEF StackOf, Latest
  <2>2. CASE q # p
    <3>1. manager'[q] = manager[q] /\ Phone!InTurn(q)' = Phone!InTurn(q) /\ StackOf(q)
      BY <1>1, <1>9, <2>2 DEF PhoneInv, PhoneTypes, StackInv
    <3> QED  BY <1>1, <1>10, <3>1 DEF StackOf, Latest, Earlier
  <2> QED  BY <2>1, <2>2
<1> QED  BY <1>6, <1>7, <1>8, <1>11 DEF PhoneInv

(* Every step keeps the invariant. *)
LEMMA PhoneSteps == PhoneInv /\ [Phone!Next]_(Phone!vars) => PhoneInv'
<1> SUFFICES ASSUME PhoneInv, [Phone!Next]_(Phone!vars) PROVE PhoneInv'
  OBVIOUS
<1>1. CASE UNCHANGED Phone!vars
  <2>1. UNCHANGED <<scene, pc, manager, prev, began, crossed, typing, stopped>>
    BY <1>1 DEF Phone!vars
  <2> QED  BY <2>1, PhoneMoves DEF PhoneInv, PhoneTypes, TypingInv
<1>2. ASSUME NEW p \in Phone!Processes, Phone!Dies(p) PROVE PhoneInv'
  BY <1>2, PhoneDies
<1>3. ASSUME NEW d \in Phone!Deliveries, Phone!Begin(d) PROVE PhoneInv'
  BY <1>3, PhoneBegins
<1>4. ASSUME NEW d \in Phone!Deliveries, Phone!Ends(d) \/ Phone!Apologises(d) PROVE PhoneInv'
  BY <1>4, PhoneLeaves
<1>5. ASSUME NEW d \in Phone!Deliveries,
             Phone!Prepare(d) \/ Phone!AgentEnds(d) \/ Phone!Drain(d) \/ Phone!Raises(d)
      PROVE  PhoneInv'
  BY <1>5, PhoneWorks
<1>6. ASSUME NEW d \in Phone!Deliveries,
             \/ Phone!Claim(d) \/ Phone!ClaimLocally(d) \/ Phone!Lookup(d) \/ Phone!Hint(d)
             \/ Phone!Confirm(d) \/ Phone!LinkPhone(d) \/ Phone!Verified(d)
      PROVE  PhoneInv'
  BY <1>6, PhoneArrives
<1> QED  BY <1>1, <1>2, <1>3, <1>4, <1>5, <1>6, PhoneStays DEF Phone!Next

\* Whatever deliveries, tools, failures and deaths there are, and in whichever
\* order turns end: typing stays off after a turn, and the agent has the
\* manager of the web once no turn is under way, unless one ended before a
\* later one did (imessage_runner.py:290).
THEOREM BorrowedIsBack == PartSpec => []GivenBack
<1> DEFINE Inv == part = "imessage" => PhoneInv
<1>1. PartInit => Inv
  BY PhoneStarts DEF PartInit
<1>2. Inv /\ [PartNext]_all => Inv'
  <2> SUFFICES ASSUME Inv, [PartNext]_all, part = "imessage" PROVE PhoneInv'
    BY DEF PartNext, all
  <2>1. [Phone!Next]_(Phone!vars)
    BY DEF PartNext, all, texting, Phone!vars
  <2> QED  BY <2>1, PhoneSteps
<1>3. PhoneInv => Phone!GivenBack
  <2> SUFFICES ASSUME PhoneInv PROVE Phone!GivenBack
    OBVIOUS
  <2>1. \A p \in Phone!Processes \ crossed : Phone!InTurn(p) = {} => manager[p] = "web"
    BY DEF PhoneInv, StackInv, StackOf, Latest
  <2> QED  BY <2>1 DEF Phone!GivenBack, PhoneInv, TypingInv
<1>4. Inv => GivenBack
  BY <1>3 DEF GivenBack
<1> QED  BY <1>1, <1>2, <1>4, PTL DEF PartSpec

(* A message starts one turn: with no fault the deliveries that got past the  *)
(* claim have handles of their own, which are claimed.                       *)
NoFaults == [calls |-> 0, deaths |-> 0, expiries |-> 0]
Passed(d) == pc[d] \notin {"new", "deduped"}
OnceInv ==
    /\ faults \in [calls : Nat, deaths : Nat, expiries : Nat]
    /\ faults = NoFaults =>
          /\ \A d \in Phone!Deliveries : Passed(d) => scene.handle[d] \in claimed
          /\ \A d, e \in Phone!Deliveries :
                Passed(d) /\ Passed(e) /\ scene.handle[d] = scene.handle[e] => d = e

LEMMA OnceStarts == Phone!Init => OnceInv
BY DEF Phone!Init, OnceInv, Passed

(* Faults are counted, and a step without one lets nobody past but by a claim. *)
LEMMA FaultsCount ==
    ASSUME PhoneTypes, faults \in [calls : Nat, deaths : Nat, expiries : Nat], [Phone!Next]_(Phone!vars)
    PROVE  /\ faults' \in [calls : Nat, deaths : Nat, expiries : Nat]
           /\ UNCHANGED scene
           /\ faults' = NoFaults =>
                 /\ faults = NoFaults
                 /\ \/ \E d \in Phone!Deliveries : Phone!Claim(d)
                    \/ UNCHANGED claimed /\ \A d \in Phone!Deliveries : Passed(d)' => Passed(d)
<1> DEFINE Counted == faults' \in [calls : Nat, deaths : Nat, expiries : Nat] /\ faults' # NoFaults
           Quietly == UNCHANGED <<scene, faults, claimed>> /\ \A d \in Phone!Deliveries : Passed(d)' => Passed(d)
<1>1. Phone!CallFails => Counted
  BY DEF Phone!CallFails, NoFaults
<1>2. ASSUME NEW d, NEW message, Phone!Sends(d, message) PROVE Counted \/ UNCHANGED faults
  BY <1>1, <1>2 DEF Phone!Sends
<1>11. Phone!Expire => Counted /\ UNCHANGED scene
  BY DEF Phone!Expire, NoFaults
<1>3. ASSUME NEW p, Phone!Dies(p) PROVE Counted /\ UNCHANGED scene
  BY <1>3 DEF Phone!Dies, NoFaults
<1>4. ASSUME NEW d \in Phone!Deliveries, NEW where, pc' = [pc EXCEPT ![d] = where], Passed(d)
      PROVE  \A e \in Phone!Deliveries : Passed(e)' => Passed(e)
  BY <1>4 DEF Passed, PhoneTypes
<1>5. ASSUME NEW d \in Phone!Deliveries,
             \/ Phone!Lookup(d) \/ Phone!Hint(d) \/ Phone!Confirm(d) \/ Phone!LinkPhone(d)
             \/ Phone!Verified(d) \/ Phone!Begin(d)
      PROVE  UNCHANGED scene /\ (Counted \/ Quietly)
  BY <1>1, <1>4, <1>5 DEF Phone!Lookup, Phone!Hint, Phone!Confirm, Phone!LinkPhone, Phone!Verified,
         Phone!Begin, Phone!Go,
         Phone!claims, Passed
<1>6. ASSUME NEW d \in Phone!Deliveries,
             \/ Phone!Prepare(d) \/ Phone!AgentEnds(d) \/ Phone!Drain(d) \/ Phone!Ends(d) \/ Phone!Raises(d)
             \/ Phone!Apologises(d)
      PROVE  UNCHANGED scene /\ (Counted \/ Quietly)
  <2>1. UNCHANGED <<scene, claimed>> /\ (Counted \/ UNCHANGED faults)
    BY <1>1, <1>2, <1>6 DEF Phone!Prepare, Phone!AgentEnds, Phone!Drain, Phone!Ends, Phone!Raises,
       Phone!Apologises, Phone!claims
  <2>2. Passed(d) /\ \E where : pc' = [pc EXCEPT ![d] = where]
    BY <1>6 DEF Phone!Prepare, Phone!AgentEnds, Phone!Drain, Phone!Ends, Phone!Raises, Phone!Apologises,
       Phone!Leaves, Phone!Go, Passed
  <2> QED  BY <1>4, <2>1, <2>2
<1>7. ASSUME NEW d \in Phone!Deliveries,
             \/ Phone!UseTool(d) \/ Phone!BubbleStarts(d) \/ Phone!BubbleSent(d) \/ Phone!BubbleRecorded(d)
             \/ Phone!SaySent(d) \/ Phone!SayRecorded(d) \/ \E text : Phone!Say(d, text)
      PROVE  UNCHANGED scene /\ (Counted \/ Quietly)
  <2>1. UNCHANGED <<scene, pc, claimed>>
    BY <1>7 DEF Phone!UseTool, Phone!BubbleStarts, Phone!BubbleSent, Phone!BubbleRecorded, Phone!SaySent,
       Phone!SayRecorded, Phone!Say, Phone!claims
  <2>2. Counted \/ UNCHANGED faults
    BY <1>1, <1>2, <1>7 DEF Phone!UseTool, Phone!BubbleStarts, Phone!BubbleSent, Phone!BubbleRecorded,
       Phone!SaySent, Phone!SayRecorded, Phone!Say
  <2> QED  BY <2>1, <2>2 DEF Passed
<1>8. ASSUME NEW d \in Phone!Deliveries, Phone!ClaimLocally(d) PROVE Counted /\ UNCHANGED scene
  BY <1>1, <1>8 DEF Phone!ClaimLocally
<1>9. ASSUME NEW d \in Phone!Deliveries, Phone!Claim(d) PROVE UNCHANGED <<scene, faults>>
  BY <1>9 DEF Phone!Claim
<1>10. CASE UNCHANGED Phone!vars
  BY <1>10 DEF Phone!vars, Passed
<1> QED  BY <1>3, <1>5, <1>6, <1>7, <1>8, <1>9, <1>10, <1>11 DEF Phone!Next

LEMMA OnceSteps == PhoneTypes /\ OnceInv /\ [Phone!Next]_(Phone!vars) => OnceInv'
<1> SUFFICES ASSUME PhoneTypes, OnceInv, [Phone!Next]_(Phone!vars), faults' = NoFaults
             PROVE  /\ \A d \in Phone!Deliveries : Passed(d)' => scene.handle[d] \in claimed'
                    /\ \A d, e \in Phone!Deliveries :
                          Passed(d)' /\ Passed(e)' /\ scene.handle[d] = scene.handle[e] => d = e
  BY FaultsCount DEF OnceInv, Phone!Deliveries
<1>1. faults = NoFaults
  BY FaultsCount DEF OnceInv
<1>2. CASE UNCHANGED claimed /\ \A d \in Phone!Deliveries : Passed(d)' => Passed(d)
  BY <1>1, <1>2 DEF OnceInv
<1>3. ASSUME NEW d \in Phone!Deliveries, Phone!Claim(d)
      PROVE  /\ \A e \in Phone!Deliveries : Passed(e)' => scene.handle[e] \in claimed'
             /\ \A e, f \in Phone!Deliveries :
                   Passed(e)' /\ Passed(f)' /\ scene.handle[e] = scene.handle[f] => e = f
  <2>1. PICK where : pc' = [pc EXCEPT ![d] = where]
    BY <1>3 DEF Phone!Claim, Phone!Accept, Phone!Go
  <2>2. \A e \in Phone!Deliveries : e # d => (Passed(e)' <=> Passed(e))
    BY <2>1 DEF Passed, PhoneTypes
  <2>3. CASE scene.handle[d] \in claimed
    <3>1. ~Passed(d)' /\ UNCHANGED claimed
      BY <1>3, <2>3 DEF Phone!Claim, Phone!Go, Passed, PhoneTypes
    <3> QED  BY <1>1, <2>2, <3>1 DEF OnceInv
  <2>4. CASE scene.handle[d] \notin claimed
    <3>1. claimed' = claimed \cup {scene.handle[d]}
      BY <1>3, <2>4 DEF Phone!Claim
    <3> QED  BY <1>1, <2>2, <2>4, <3>1 DEF OnceInv
  <2> QED  BY <2>3, <2>4
<1> QED  BY <1>2, <1>3, FaultsCount DEF OnceInv

(* None and one are no more than one. *)
LEMMA AtMostOne == Phone!Cardinality({}) <= 1 /\ \A x : Phone!Cardinality({x}) <= 1
<1>1. \A S : Phone!Cardinality(S) = Cardinality(S)
  BY DEF Phone!Cardinality, Cardinality
<1> QED  BY <1>1, FS_EmptySet, FS_Singleton

\* However often a message is delivered, and to whichever processes, it starts
\* one turn, as long as no claim failed, expired or died (imessage_runner.py:75).
THEOREM OneTurnEach == PartSpec => [](part = "imessage" => Phone!OneTurn)
<1> DEFINE Inv == part = "imessage" => PhoneInv /\ OnceInv
<1>1. PartInit => Inv
  BY PhoneStarts, OnceStarts DEF PartInit
<1>2. Inv /\ [PartNext]_all => Inv'
  <2> SUFFICES ASSUME Inv, [PartNext]_all, part = "imessage" PROVE PhoneInv' /\ OnceInv'
    BY DEF PartNext, all
  <2>1. [Phone!Next]_(Phone!vars)
    BY DEF PartNext, all, texting, Phone!vars
  <2> QED  BY <2>1, PhoneSteps, OnceSteps DEF PhoneInv
<1>3. PhoneInv /\ OnceInv => Phone!OneTurn
  <2> SUFFICES ASSUME PhoneInv, OnceInv, faults = NoFaults, NEW h
               PROVE  Phone!Cardinality(Phone!TurnsOf(h)) <= 1
    BY DEF Phone!OneTurn, NoFaults
  <2>1. ASSUME NEW d \in Phone!TurnsOf(h), NEW e \in Phone!TurnsOf(h) PROVE d = e
    <3>1. \A f \in Phone!TurnsOf(h) : f \in Phone!Deliveries /\ Passed(f) /\ scene.handle[f] = h
      BY DEF Phone!TurnsOf, Phone!ToSet, PhoneInv, PhoneTypes, BeganInv, Passed, Fresh
    <3> QED  BY <3>1 DEF OnceInv
  <2>2. CASE Phone!TurnsOf(h) = {}
    BY <2>2, AtMostOne
  <2>3. CASE Phone!TurnsOf(h) # {}
    <3>1. PICK d : Phone!TurnsOf(h) = {d}
      BY <2>1, <2>3
    <3> QED  BY <3>1, AtMostOne
  <2> QED  BY <2>2, <2>3
<1> QED  BY <1>1, <1>2, <1>3, PTL DEF PartSpec

----------------------------------------------------------------------------
(* What a turn knows: OrgContext.                                           *)

Keys == Context!Users \X ContextSetup.orgs
SkillRow == [enabled : BOOLEAN, body : BOOLEAN]
SkillRows == UNION {[slugs -> SkillRow] : slugs \in SUBSET ContextSetup.slugs}
Profiles == [of : Keys, version : Nat]
Founds == [of : ContextSetup.orgs, rows : SkillRows]
Stages == {"no", "get", "touch", "fetch", "store", "done", "raised"}
Gots == Profiles \cup Founds \cup {Context!Unset}
Works ==
    [kind : Context!Kinds \cup {"idle"}, at : {"idle", "reading", "running", "write", "invalidate"},
     org : ContextSetup.orgs \cup {"none"}, listed : SUBSET (ContextSetup.slugs \cup ContextSetup.bundled),
     wrote : Nat, stage : [Context!Topics -> Stages], got : [Context!Topics -> Gots]]

ContextTypes ==
    /\ scene \in ContextSetup.scenes
    /\ profile \in [Keys -> Nat] /\ kept_profile \in [Keys -> Nat]
    /\ skills \in [ContextSetup.orgs -> SkillRows]
    /\ orgs \in [Context!Homes -> [Context!Users -> {Context!Unset} \cup [list : SUBSET ContextSetup.orgs]]]
    /\ profiles \in [Context!Homes -> [Keys -> {Context!Unset} \cup Profiles]]
    /\ org_rows \in [Context!Homes -> [ContextSetup.orgs -> {Context!Unset} \cup Founds]]
    /\ index \in [Context!Homes -> [SUBSET ContextSetup.slugs ->
                     {Context!Unset} \cup [slugs : SUBSET (ContextSetup.slugs \cup ContextSetup.bundled)]]]
    /\ work \in [Context!Threads -> Works]

\* Who is or was let into what: the tables and the lists that are cached.
LetInInv ==
    /\ members \subseteq ever
    /\ \A u \in Context!Users : <<u, ContextSetup.personal[u]>> \in ever
    /\ \A p \in Context!Homes, u \in Context!Users :
          orgs[p][u] # Context!Unset => \A o \in orgs[p][u].list : <<u, o>> \in ever

\* A cache has under a key what is of that key.
FiledInv ==
    \A p \in Context!Homes :
        /\ \A k \in Keys : profiles[p][k] # Context!Unset => profiles[p][k].of = k
        /\ \A o \in ContextSetup.orgs : org_rows[p][o] # Context!Unset => org_rows[p][o].of = o
        /\ \A slugs \in SUBSET ContextSetup.slugs :
              index[p][slugs] # Context!Unset => index[p][slugs].slugs = slugs \cup ContextSetup.bundled

\* A thread has what is of its user and organisation, and a turn that runs
\* reads no more.
OwnOf(t) ==
    /\ work[t].at = "idle" => work[t] = Context!Idle
    /\ work[t].at # "idle" => work[t].org \in ContextSetup.orgs
    /\ LET got == work[t].got["profile"] IN got = Context!Unset \/ (got \in Profiles /\ got.of = Context!Key(t))
    /\ LET got == work[t].got["skills"] IN got = Context!Unset \/ (got \in Founds /\ got.of = work[t].org)
    /\ work[t].kind \notin {"idle", "automation"} => Context!Key(t) \in ever
    /\ work[t].at = "running" =>
          Context!Read(t) /\ work[t].listed = DOMAIN Context!Bound(t) \cup ContextSetup.bundled
OwnInv == \A t \in Context!Threads : OwnOf(t)

\* How old a profile may be: no older than the last save that was answered, nor
\* than one another process is about to answer; what is about to be stored is
\* not old at all.
Answering(t) == work[t].at = "invalidate" /\ work[t].kind = "put"
AgeInv ==
    /\ \A k \in Keys : kept_profile[k] <= profile[k]
    /\ \A t \in Context!Threads : Answering(t) => work[t].wrote <= profile[Context!Key(t)]
    /\ \A p \in Context!Homes, k \in Keys :
          profiles[p][k] # Context!Unset /\ <<p, k>> \notin overtaken =>
             /\ profiles[p][k].version >= kept_profile[k]
             /\ \A t \in Context!Threads :
                   Answering(t) /\ Context!Key(t) = k /\ Context!Home[t] # p => profiles[p][k].version >= work[t].wrote
    /\ \A t \in Context!Threads :
          /\ work[t].stage["profile"] = "store" /\ work[t].got["profile"] # Context!Unset
          /\ <<Context!Home[t], Context!Key(t)>> \notin overtaken
          => work[t].got["profile"].version = profile[Context!Key(t)]

ContextInv == ContextTypes /\ LetInInv /\ FiledInv /\ OwnInv /\ AgeInv

(* The situations. *)
LEMMA ContextScene ==
    ASSUME scene \in ContextSetup.scenes, NEW t \in Context!Threads
    PROVE  /\ Context!Home[t] \in Context!Homes /\ Context!Who[t] \in Context!Users
           /\ scene.names[t] \in ContextSetup.orgs \cup {"none"}
           /\ scene.does[t] \subseteq Context!Kinds
           /\ ContextSetup.personal[Context!Who[t]] \in ContextSetup.orgs
BY SetupAssumption DEF Context!Threads, Context!Home, Context!Homes, Context!Who

LEMMA IdleWorks == Context!Idle \in Works
BY DEF Context!Idle, Works, Gots, Stages, Context!Topics

(* The invariant holds at the start. *)
LEMMA ContextStarts == Context!Init => ContextInv
<1> SUFFICES ASSUME Context!Init PROVE ContextInv
  OBVIOUS
<1>1. [s \in {} |-> Context!Unset] \in SkillRows
  <2>1. [s \in {} |-> Context!Unset] \in [{} -> SkillRow]
    OBVIOUS
  <2> QED  BY <2>1 DEF SkillRows
<1>2. ContextTypes
  BY <1>1, IdleWorks DEF ContextTypes, Context!Init, Keys
<1>3. LetInInv
  BY DEF LetInInv, Context!Init
<1>4. FiledInv
  BY DEF FiledInv, Context!Init, Keys
<1>5. OwnInv
  BY DEF OwnInv, OwnOf, Context!Init, Context!Idle, Context!Topics
<1>6. AgeInv
  BY DEF AgeInv, Answering, Context!Init, Context!Idle, Context!Topics, Keys
<1> QED  BY <1>2, <1>3, <1>4, <1>5, <1>6 DEF ContextInv

(* A thread that has not moved has what it had. *)
LEMMA OwnStays ==
    ASSUME UNCHANGED scene, ever \subseteq ever', NEW t \in Context!Threads, work'[t] = work[t], OwnOf(t)
    PROVE  OwnOf(t)'
<1>1. Context!Key(t)' = Context!Key(t) /\ Context!Read(t)' = Context!Read(t) /\ Context!Bound(t)' = Context!Bound(t)
  BY DEF Context!Key, Context!Who, Context!Read, Context!Bound, Context!Topics
<1> QED  BY <1>1, Zenon DEF OwnOf, Context!Idle, Profiles, Founds, Keys, SkillRows, SkillRow, Context!Users,
            Context!Unset, Context!Topics

(* A read of thread t is at s now, and has brought v. *)
Reading == {"get", "touch", "fetch", "store"}
ReadAt(t, x, s, v) ==
    /\ work' \in [Context!Threads -> Works]
    /\ \A u \in Context!Threads : u # t => work'[u] = work[u]
    /\ work'[t].kind = work[t].kind /\ work'[t].at = work[t].at /\ work'[t].org = work[t].org
    /\ work'[t].listed = work[t].listed /\ work'[t].wrote = work[t].wrote
    /\ \A y \in Context!Topics : /\ work'[t].stage[y] = IF y = x THEN s ELSE work[t].stage[y]
                                 /\ work'[t].got[y] = IF y = x THEN v ELSE work[t].got[y]

LEMMA Brought ==
    ASSUME ContextTypes, NEW t \in Context!Threads, NEW x \in Context!Topics, NEW s \in Stages, NEW v \in Gots,
           work' = [work EXCEPT ![t].stage[x] = s, ![t].got[x] = v]
    PROVE  ReadAt(t, x, s, v)
<1> DEFINE w == [[work[t] EXCEPT !.stage[x] = s] EXCEPT !.got[x] = v]
<1>1. work[t] \in Works
  BY DEF ContextTypes
<1>2. w \in Works
  BY <1>1 DEF Works
<1>3. work' \in [Context!Threads -> Works] /\ \A u \in Context!Threads : work'[u] = IF u = t THEN w ELSE work[u]
  BY <1>1, <1>2 DEF ContextTypes, Works
<1> QED  BY <1>1, <1>3 DEF ReadAt, Works

LEMMA Staged ==
    ASSUME ContextTypes, NEW t \in Context!Threads, NEW x \in Context!Topics, NEW s \in Stages,
           work' = [work EXCEPT ![t].stage[x] = s]
    PROVE  ReadAt(t, x, s, work[t].got[x])
<1> DEFINE w == [work[t] EXCEPT !.stage[x] = s]
<1>1. work[t] \in Works
  BY DEF ContextTypes
<1>2. w \in Works
  BY <1>1 DEF Works
<1>3. work' \in [Context!Threads -> Works] /\ \A u \in Context!Threads : work'[u] = IF u = t THEN w ELSE work[u]
  BY <1>1, <1>2 DEF ContextTypes, Works
<1> QED  BY <1>1, <1>3 DEF ReadAt, Works

(* Only a thread that has not finished its reads is about to read. *)
LEMMA ReadsWhileReading ==
    ASSUME ContextTypes, NEW t \in Context!Threads, OwnOf(t), NEW x \in Context!Topics, work[t].stage[x] \in Reading
    PROVE  work[t].at \notin {"idle", "running"} /\ work[t].org \in ContextSetup.orgs /\ Context!Key(t) \in Keys
<1>1. ~Context!Read(t)
  BY DEF Context!Read, Reading
<1>2. work[t] # Context!Idle
  BY DEF Context!Idle, Reading
<1>3. work[t].org \in ContextSetup.orgs
  BY <1>2 DEF OwnOf
<1> QED  BY <1>1, <1>2, <1>3, ContextScene DEF OwnOf, ContextTypes, Context!Key, Keys

(* What a thread may have got. *)
Owned(t, x, v) ==
    \/ v = Context!Unset
    \/ x = "profile" /\ v \in Profiles /\ v.of = Context!Key(t)
    \/ x = "skills" /\ v \in Founds /\ v.of = work[t].org

LEMMA ReadOwn ==
    ASSUME ContextTypes, OwnInv, UNCHANGED <<scene, ever>>, NEW t \in Context!Threads, NEW x \in Context!Topics,
           NEW s \in Stages, NEW v, work[t].at \notin {"idle", "running"}, ReadAt(t, x, s, v), Owned(t, x, v)
    PROVE  OwnInv'
<1>1. OwnOf(t) /\ work[t].at \notin {"idle", "running"} /\ work[t].org \in ContextSetup.orgs
  BY DEF OwnInv, OwnOf
<1>2. Context!Threads' = Context!Threads /\ Context!Key(t)' = Context!Key(t)
  BY DEF Context!Threads, Context!Key, Context!Who, ReadAt
<1>3. work'[t].at \notin {"idle", "running"} /\ work'[t].org \in ContextSetup.orgs
  BY <1>1 DEF ReadAt
<1>4. "profile" \in Context!Topics /\ "skills" \in Context!Topics
  BY DEF Context!Topics
<1> DEFINE a == work'[t].got["profile"]
           b == work'[t].got["skills"]
<1>5. a = Context!Unset \/ (a \in Profiles /\ a.of = Context!Key(t))
  <2>1. CASE x = "profile"
    BY <1>4, <2>1 DEF ReadAt, Owned
  <2>2. CASE x # "profile"
    BY <1>1, <1>4, <2>2 DEF ReadAt, OwnOf
  <2> QED  BY <2>1, <2>2
<1>6. b = Context!Unset \/ (b \in Founds /\ b.of = work[t].org)
  <2>1. CASE x = "skills"
    BY <1>4, <2>1 DEF ReadAt, Owned
  <2>2. CASE x # "skills"
    BY <1>1, <1>4, <2>2 DEF ReadAt, OwnOf
  <2> QED  BY <2>1, <2>2
<1>7. work'[t].kind \notin {"idle", "automation"} => Context!Key(t) \in ever
  BY <1>1 DEF ReadAt, OwnOf
<1>8. work'[t].org = work[t].org /\ ever' = ever
  BY DEF ReadAt
<1>9. OwnOf(t)'
  <2>1. Profiles' = Profiles /\ Founds' = Founds /\ Context!Unset' = Context!Unset
    BY DEF Profiles, Founds, Keys, SkillRows, SkillRow, Context!Users, Context!Unset
  <2> QED  BY <1>2, <1>3, <1>5, <1>6, <1>7, <1>8, <2>1 DEF OwnOf
<1>10. ASSUME NEW u \in Context!Threads, u # t PROVE OwnOf(u)'
  BY <1>10, OwnStays DEF OwnInv, ReadAt
<1> QED  BY <1>2, <1>9, <1>10 DEF OwnInv

(* A read keeps the ages: what it brings to be stored is what the row is, and  *)
(* what it stores is that still.                                             *)
LEMMA ReadAges ==
    ASSUME ContextTypes, AgeInv, UNCHANGED <<scene, profile, kept_profile, overtaken>>,
           NEW t \in Context!Threads, NEW x \in Context!Topics, NEW s \in Stages, NEW v,
           ReadAt(t, x, s, v),
           x = "profile" /\ s = "store" /\ v # Context!Unset => v.version = profile[Context!Key(t)],
           \A p \in Context!Homes, k \in Keys :
               \/ profiles'[p][k] = profiles[p][k]
               \/ /\ p = Context!Home[t] /\ k = Context!Key(t) /\ work[t].stage["profile"] = "store"
                  /\ profiles'[p][k] = work[t].got["profile"]
    PROVE  AgeInv'
<1>1. /\ Context!Threads' = Context!Threads /\ Context!Homes' = Context!Homes /\ Context!Home' = Context!Home
      /\ Keys' = Keys /\ Context!Unset' = Context!Unset
  BY DEF Context!Threads, Context!Homes, Context!Home, Keys, Context!Users, Context!Unset
<1>2. \A u \in Context!Threads : /\ Context!Key(u)' = Context!Key(u) /\ (Answering(u)' <=> Answering(u))
                                 /\ work'[u].wrote = work[u].wrote
  BY DEF Context!Key, Context!Who, ReadAt, Answering
<1>3. \A k \in Keys : profile[k] \in Nat /\ kept_profile[k] \in Nat /\ kept_profile[k] <= profile[k]
  BY DEF AgeInv, ContextTypes
<1>4. ASSUME NEW p \in Context!Homes, NEW k \in Keys, profiles'[p][k] # Context!Unset, <<p, k>> \notin overtaken
      PROVE  /\ profiles'[p][k].version >= kept_profile[k]
             /\ \A u \in Context!Threads :
                   Answering(u) /\ Context!Key(u) = k /\ Context!Home[u] # p => profiles'[p][k].version >= work[u].wrote
  <2>1. CASE profiles'[p][k] = profiles[p][k]
    BY <1>4, <2>1 DEF AgeInv
  <2>2. CASE /\ p = Context!Home[t] /\ k = Context!Key(t) /\ work[t].stage["profile"] = "store"
             /\ profiles'[p][k] = work[t].got["profile"]
    <3>1. profiles'[p][k].version = profile[k]
      BY <1>4, <2>2 DEF AgeInv
    <3> QED  BY <1>3, <3>1 DEF AgeInv, ContextTypes, Works
  <2> QED  BY <2>1, <2>2
<1>5. ASSUME NEW u \in Context!Threads, work'[u].stage["profile"] = "store", work'[u].got["profile"] # Context!Unset,
             <<Context!Home[u], Context!Key(u)>> \notin overtaken
      PROVE  work'[u].got["profile"].version = profile[Context!Key(u)]
  <2>1. CASE u = t /\ x = "profile"
    BY <1>5, <2>1 DEF ReadAt
  <2>2. CASE ~(u = t /\ x = "profile")
    <3>1. "profile" \in Context!Topics
      BY DEF Context!Topics
    <3>2. work'[u].stage["profile"] = work[u].stage["profile"] /\ work'[u].got["profile"] = work[u].got["profile"]
      BY <2>2, <3>1 DEF ReadAt
    <3> QED  BY <1>5, <3>2 DEF AgeInv
  <2> QED  BY <2>1, <2>2
<1>6. \A u \in Context!Threads : Answering(u) => work[u].wrote <= profile[Context!Key(u)]
  BY DEF AgeInv
<1> QED  BY <1>1, <1>2, <1>3, <1>4, <1>5, <1>6 DEF AgeInv

(* One entry of a table of tables is changed. *)
LEMMA EntrySet ==
    ASSUME NEW A, NEW B, NEW C, NEW f \in [A -> [B -> C]], NEW a \in A, NEW b \in B, NEW v \in C
    PROVE  /\ [f EXCEPT ![a][b] = v] \in [A -> [B -> C]]
           /\ \A i \in A, j \in B : [f EXCEPT ![a][b] = v][i][j] = IF i = a /\ j = b THEN v ELSE f[i][j]
OBVIOUS

(* A thread reads. *)
LEMMA ContextReads ==
    ASSUME ContextInv, UNCHANGED scene, NEW t \in Context!Threads, NEW x \in Context!Topics, Context!Reads(t, x)
    PROVE  ContextInv'
<1> DEFINE cache == Context!Cache(t, x)
           got == work[t].got[x]
<1>1. work[t].stage[x] \in Reading
  BY DEF Context!Reads, Context!Hit, Context!Touch, Context!Miss, Context!Fetch, Context!FetchFails, Context!Store, Reading
<1>2. /\ work[t].at \notin {"idle", "running"} /\ work[t].org \in ContextSetup.orgs /\ Context!Key(t) \in Keys
      /\ Context!Home[t] \in Context!Homes
  BY <1>1, ReadsWhileReading, ContextScene DEF ContextInv, OwnInv, ContextTypes
<1>3. work[t] \in Works /\ got \in Gots /\ Owned(t, x, got)
  BY DEF ContextInv, ContextTypes, Works, OwnInv, OwnOf, Owned, Context!Topics
<1>4. cache \in Gots /\ Owned(t, x, cache)
  <2>1. CASE x = "profile"
    <3>1. cache = profiles[Context!Home[t]][Context!Key(t)]
      BY <2>1 DEF Context!Cache
    <3>2. cache \in {Context!Unset} \cup Profiles
      BY <1>2, <3>1 DEF ContextInv, ContextTypes
    <3> HIDE DEF cache
    <3> QED  BY <1>2, <2>1, <3>1, <3>2 DEF ContextInv, FiledInv, Owned, Gots
  <2>2. CASE x = "skills"
    <3>1. cache = org_rows[Context!Home[t]][work[t].org]
      BY <2>2 DEF Context!Cache
    <3>2. cache \in {Context!Unset} \cup Founds
      BY <1>2, <3>1 DEF ContextInv, ContextTypes
    <3> HIDE DEF cache
    <3> QED  BY <1>2, <2>2, <3>1, <3>2 DEF ContextInv, FiledInv, Owned, Gots
  <2> QED  BY <2>1, <2>2 DEF Context!Topics
<1>5. Context!Table(t, x) \in Gots /\ Owned(t, x, Context!Table(t, x))
      /\ (x = "profile" => Context!Table(t, x).version = profile[Context!Key(t)])
  <2>1. CASE x = "profile"
    <3>1. Context!Table(t, x) = [of |-> Context!Key(t), version |-> profile[Context!Key(t)]]
      BY <2>1 DEF Context!Table
    <3> QED  BY <1>2, <2>1, <3>1 DEF ContextInv, ContextTypes, Gots, Profiles, Owned
  <2>2. CASE x = "skills"
    <3>1. PICK listed \in SUBSET DOMAIN skills[work[t].org] :
            Context!Table(t, x) = [of |-> work[t].org, rows |-> [s \in listed |-> skills[work[t].org][s]]]
      BY <2>2 DEF Context!Table
    <3>2. skills[work[t].org] \in SkillRows
      BY <1>2 DEF ContextInv, ContextTypes
    <3>3. PICK slugs \in SUBSET ContextSetup.slugs : skills[work[t].org] \in [slugs -> SkillRow]
      BY <3>2 DEF SkillRows
    <3>4. [s \in listed |-> skills[work[t].org][s]] \in [listed -> SkillRow] /\ listed \in SUBSET ContextSetup.slugs
      BY <3>1, <3>3
    <3>5. [s \in listed |-> skills[work[t].org][s]] \in SkillRows
      BY <3>4 DEF SkillRows
    <3>6. Context!Table(t, x) \in Founds /\ Context!Table(t, x).of = work[t].org
      BY <1>2, <3>1, <3>5 DEF Founds
    <3> QED  BY <2>2, <3>6 DEF Gots, Owned
  <2> QED  BY <2>1, <2>2 DEF Context!Topics
<1>6. PICK s \in Stages, v \in Gots :
        /\ ReadAt(t, x, s, v) /\ Owned(t, x, v)
        /\ x = "profile" /\ s = "store" => v.version = profile[Context!Key(t)]
  <2>1. Context!Unset \in Gots /\ Owned(t, x, Context!Unset) /\ ContextTypes
    BY DEF Gots, Owned, ContextInv
  <2>2. Reading \cup {"done", "raised"} \subseteq Stages /\ "store" \notin {"touch", "done", "raised", "fetch"}
    BY DEF Reading, Stages
  <2> HIDE DEF cache, got
  <2>3. CASE Context!Hit(t, x)
    <3>1. work' = [work EXCEPT ![t].stage[x] = "touch", ![t].got[x] = cache]
      BY <2>3 DEF Context!Hit, Context!Brings, cache
    <3> QED  BY <1>4, <2>1, <2>2, <3>1, Brought DEF Reading
  <2>4. CASE Context!Touch(t, x)
    <3>1. \/ work' = [work EXCEPT ![t].stage[x] = "done"]
          \/ work' = [work EXCEPT ![t].stage[x] = "raised", ![t].got[x] = Context!Unset]
      BY <2>4 DEF Context!Touch, Context!Brings, Context!Stage
    <3> QED  BY <1>3, <2>1, <2>2, <3>1, Brought, Staged DEF got
  <2>5. CASE Context!Miss(t, x) \/ Context!FetchFails(t, x) \/ Context!Store(t, x)
    <3>1. work' = [work EXCEPT ![t].stage[x] = "fetch"] \/ work' = [work EXCEPT ![t].stage[x] = "done"]
      BY <2>5 DEF Context!Miss, Context!FetchFails, Context!Store, Context!Stage
    <3> QED  BY <1>3, <2>1, <2>2, <3>1, Staged DEF got, Reading
  <2>6. CASE Context!Fetch(t, x)
    <3>1. work' = [work EXCEPT ![t].stage[x] = "store", ![t].got[x] = Context!Table(t, x)]
      BY <2>6 DEF Context!Fetch, Context!Brings
    <3> QED  BY <1>5, <2>1, <2>2, <3>1, Brought DEF Reading
  <2> QED  BY <2>3, <2>4, <2>5, <2>6 DEF Context!Reads
<1>7. /\ UNCHANGED <<members, ever, profile, skills, kept_profile, overtaken, orgs, index>>
      /\ \/ UNCHANGED <<profiles, org_rows>>
         \/ /\ x = "profile" /\ work[t].stage[x] = "store" /\ UNCHANGED org_rows
            /\ profiles' = [profiles EXCEPT ![Context!Home[t]][Context!Key(t)] = got]
         \/ /\ x = "skills" /\ UNCHANGED profiles
            /\ org_rows' = [org_rows EXCEPT ![Context!Home[t]][work[t].org] = got]
  BY DEF Context!Reads, Context!Hit, Context!Touch, Context!Miss, Context!Fetch, Context!FetchFails, Context!Store,
         Context!tables, Context!caches, Context!ghosts, Context!Topics
<1> HIDE DEF cache
<1>8. /\ profiles' \in [Context!Homes -> [Keys -> {Context!Unset} \cup Profiles]]
      /\ \A p \in Context!Homes, k \in Keys :
            \/ profiles'[p][k] = profiles[p][k]
            \/ /\ p = Context!Home[t] /\ k = Context!Key(t) /\ x = "profile" /\ work[t].stage["profile"] = "store"
               /\ profiles'[p][k] = got
  <2> HIDE DEF got
  <2>1. x = "profile" => got \in {Context!Unset} \cup Profiles
    BY <1>3 DEF Owned
  <2>2. profiles \in [Context!Homes -> [Keys -> {Context!Unset} \cup Profiles]]
    BY DEF ContextInv, ContextTypes
  <2>3. CASE UNCHANGED profiles
    BY <2>2, <2>3
  <2>4. CASE /\ x = "profile" /\ work[t].stage[x] = "store"
             /\ profiles' = [profiles EXCEPT ![Context!Home[t]][Context!Key(t)] = got]
    BY <1>2, <2>1, <2>2, <2>4, EntrySet
  <2> QED  BY <1>7, <2>3, <2>4
<1>9. /\ org_rows' \in [Context!Homes -> [ContextSetup.orgs -> {Context!Unset} \cup Founds]]
      /\ \A p \in Context!Homes, o \in ContextSetup.orgs :
            \/ org_rows'[p][o] = org_rows[p][o]
            \/ o = work[t].org /\ x = "skills" /\ org_rows'[p][o] = got
  <2> HIDE DEF got
  <2>1. x = "skills" => got \in {Context!Unset} \cup Founds
    BY <1>3 DEF Owned
  <2>2. org_rows \in [Context!Homes -> [ContextSetup.orgs -> {Context!Unset} \cup Founds]]
    BY DEF ContextInv, ContextTypes
  <2>3. CASE UNCHANGED org_rows
    BY <2>2, <2>3
  <2>4. CASE x = "skills" /\ org_rows' = [org_rows EXCEPT ![Context!Home[t]][work[t].org] = got]
    BY <1>2, <2>1, <2>2, <2>4, EntrySet
  <2> QED  BY <1>7, <2>3, <2>4
<1>10. /\ Context!Threads' = Context!Threads /\ Context!Homes' = Context!Homes /\ Context!Users' = Context!Users
       /\ Keys' = Keys /\ Context!Unset' = Context!Unset
  BY DEF Context!Threads, Context!Homes, Context!Home, Keys, Context!Users, Context!Unset
<1>11. ContextTypes'
  <2>1. work' \in [Context!Threads -> Works] /\ Works' = Works /\ Profiles' = Profiles /\ Founds' = Founds /\ SkillRows' = SkillRows
    BY <1>6, <1>10 DEF ReadAt, Works, Gots, Profiles, Founds, SkillRows, SkillRow, Stages, Context!Kinds, Context!Turns,
           Context!Changes, Context!Topics
  <2> QED  BY <1>7, <1>8, <1>9, <1>10, <2>1 DEF ContextInv, ContextTypes
<1>12. LetInInv'
  BY <1>7, <1>10 DEF ContextInv, LetInInv
<1>13. FiledInv'
  <2>1. ASSUME NEW p \in Context!Homes, NEW k \in Keys, profiles'[p][k] # Context!Unset PROVE profiles'[p][k].of = k
    BY <1>3, <1>8, <2>1 DEF ContextInv, FiledInv, Owned
  <2>2. ASSUME NEW p \in Context!Homes, NEW o \in ContextSetup.orgs, org_rows'[p][o] # Context!Unset
        PROVE  org_rows'[p][o].of = o
    BY <1>3, <1>9, <2>2 DEF ContextInv, FiledInv, Owned
  <2> QED  BY <1>7, <1>10, <2>1, <2>2 DEF ContextInv, FiledInv
<1>14. OwnInv'
  BY <1>2, <1>6, <1>7, ReadOwn DEF ContextInv
<1>15. AgeInv'
  BY <1>6, <1>7, <1>8, ReadAges DEF ContextInv
<1> QED  BY <1>11, <1>12, <1>13, <1>14, <1>15 DEF ContextInv

(* A step in which thread t moves and no profile does. *)
OrgsOK ==
    /\ orgs \in [Context!Homes -> [Context!Users -> {Context!Unset} \cup [list : SUBSET ContextSetup.orgs]]]
    /\ \A p \in Context!Homes, u \in Context!Users :
          orgs[p][u] # Context!Unset => \A o \in orgs[p][u].list : <<u, o>> \in ever
RowsOK ==
    /\ org_rows \in [Context!Homes -> [ContextSetup.orgs -> {Context!Unset} \cup Founds]]
    /\ \A p \in Context!Homes, o \in ContextSetup.orgs :
          org_rows[p][o] # Context!Unset => org_rows[p][o].of = o
IndexOK ==
    /\ index \in [Context!Homes -> [SUBSET ContextSetup.slugs ->
                     {Context!Unset} \cup [slugs : SUBSET (ContextSetup.slugs \cup ContextSetup.bundled)]]]
    /\ \A p \in Context!Homes, slugs \in SUBSET ContextSetup.slugs :
          index[p][slugs] # Context!Unset => index[p][slugs].slugs = slugs \cup ContextSetup.bundled
ProfilesOK ==
    /\ profiles \in [Context!Homes -> [Keys -> {Context!Unset} \cup Profiles]]
    /\ \A p \in Context!Homes, k \in Keys : profiles[p][k] # Context!Unset => profiles[p][k].of = k

(* Words that are the same before and after a step. *)
LEMMA SameWords ==
    ASSUME UNCHANGED scene
    PROVE  /\ Context!Threads' = Context!Threads /\ Context!Homes' = Context!Homes /\ Context!Users' = Context!Users
           /\ Context!Home' = Context!Home /\ Context!Who' = Context!Who
           /\ Keys' = Keys /\ Context!Unset' = Context!Unset /\ Context!Idle' = Context!Idle
           /\ Works' = Works /\ Profiles' = Profiles /\ Founds' = Founds /\ SkillRows' = SkillRows
           /\ Context!Topics' = Context!Topics
BY DEF Context!Threads, Context!Homes, Context!Home, Context!Who, Keys, Context!Users, Context!Unset, Context!Idle,
       Works, Gots, Profiles, Founds, SkillRows, SkillRow, Stages, Context!Kinds, Context!Turns, Context!Changes,
       Context!Topics

LEMMA TablesOK == ContextInv => OrgsOK /\ RowsOK /\ IndexOK /\ ProfilesOK
BY DEF ContextInv, ContextTypes, LetInInv, FiledInv, OrgsOK, RowsOK, IndexOK, ProfilesOK

(* What stays of the tables. *)
LEMMA TablesStay ==
    ASSUME ContextInv, UNCHANGED <<scene, members, ever, profile, kept_profile, profiles>>,
           work' \in [Context!Threads -> Works],
           skills' \in [ContextSetup.orgs -> SkillRows],
           UNCHANGED orgs \/ OrgsOK', UNCHANGED org_rows \/ RowsOK', UNCHANGED index \/ IndexOK'
    PROVE  ContextTypes' /\ LetInInv' /\ FiledInv'
<1>1. OrgsOK'
  BY SameWords, TablesOK DEF OrgsOK
<1>3. RowsOK'
  BY SameWords, TablesOK DEF RowsOK
<1>4. IndexOK'
  BY SameWords, TablesOK DEF IndexOK
<1>5. ProfilesOK'
  BY SameWords, TablesOK DEF ProfilesOK
<1>2. /\ scene' \in ContextSetup.scenes /\ profile' \in [Keys' -> Nat] /\ kept_profile' \in [Keys' -> Nat]
      /\ skills' \in [ContextSetup.orgs -> SkillRows'] /\ work' \in [Context!Threads' -> Works']
      /\ members' \subseteq ever' /\ \A u \in Context!Users' : <<u, ContextSetup.personal[u]>> \in ever'
  BY SameWords DEF ContextInv, ContextTypes, LetInInv
<1> QED  BY <1>1, <1>2, <1>3, <1>4, <1>5 DEF ContextTypes, LetInInv, FiledInv, OrgsOK, RowsOK, IndexOK, ProfilesOK

LEMMA ThreadMoves ==
    ASSUME ContextInv, UNCHANGED <<scene, members, ever, profile, kept_profile, profiles, overtaken>>,
           NEW t \in Context!Threads, work' \in [Context!Threads -> Works],
           \A u \in Context!Threads : u # t => work'[u] = work[u],
           OwnOf(t)', ~Answering(t)',
           \/ work'[t].stage["profile"] # "store"
           \/ work'[t].stage = work[t].stage /\ work'[t].got = work[t].got /\ work'[t].org = work[t].org,
           skills' \in [ContextSetup.orgs -> SkillRows],
           UNCHANGED orgs \/ OrgsOK', UNCHANGED org_rows \/ RowsOK', UNCHANGED index \/ IndexOK'
    PROVE  ContextInv'
<1>1. ContextTypes' /\ LetInInv' /\ FiledInv'
  BY TablesStay
<1>2. OwnInv'
  <2>1. \A u \in Context!Threads : u # t => OwnOf(u)'
    BY OwnStays DEF ContextInv, OwnInv
  <2> QED  BY <2>1, SameWords DEF OwnInv
<1>3. AgeInv'
  <2>1. \A u \in Context!Threads :
          u # t => /\ Context!Key(u)' = Context!Key(u) /\ (Answering(u)' <=> Answering(u)) /\ work'[u] = work[u]
    BY SameWords DEF Context!Key, Answering
  <2>2. work'[t].org = work[t].org => Context!Key(t)' = Context!Key(t)
    BY SameWords DEF Context!Key
  <2>3. \A u \in Context!Threads : Answering(u)' => Answering(u) /\ Context!Key(u)' = Context!Key(u) /\ work'[u] = work[u]
    BY <2>1
  <2>4. ASSUME NEW u \in Context!Threads, work'[u].stage["profile"] = "store"
        PROVE  /\ work[u].stage["profile"] = "store" /\ work'[u].got["profile"] = work[u].got["profile"]
               /\ Context!Key(u)' = Context!Key(u)
    BY <2>1, <2>2, <2>4
  <2>5. AgeInv
    BY DEF ContextInv
  <2> QED  BY <2>3, <2>4, <2>5, SameWords DEF AgeInv
<1> QED  BY <1>1, <1>2, <1>3 DEF ContextInv

(* A thread is idle again. *)
LEMMA IdleOwn ==
    ASSUME UNCHANGED scene, NEW t \in Context!Threads, work'[t] = Context!Idle
    PROVE  OwnOf(t)' /\ ~Answering(t)' /\ work'[t].stage["profile"] # "store"
BY SameWords DEF OwnOf, Answering, Context!Idle, Context!Topics

LEMMA ContextIdles ==
    ASSUME ContextInv, UNCHANGED scene, NEW t \in Context!Threads,
           UNCHANGED <<members, ever, profile, skills, kept_profile, profiles, overtaken, orgs, index>>,
           work' = [work EXCEPT ![t] = Context!Idle],
           UNCHANGED org_rows \/ RowsOK'
    PROVE  ContextInv'
<1>1. work' \in [Context!Threads -> Works] /\ \A u \in Context!Threads : work'[u] = IF u = t THEN Context!Idle ELSE work[u]
  BY IdleWorks DEF ContextInv, ContextTypes
<1>2. skills' \in [ContextSetup.orgs -> SkillRows]
  BY DEF ContextInv, ContextTypes
<1> QED  BY <1>1, <1>2, IdleOwn, ThreadMoves

(* The run of an automation goes on to its skills, or fails. *)
LEMMA ContextGoesOn ==
    ASSUME ContextInv, UNCHANGED scene, NEW t \in Context!Threads, Context!ThenSkills(t)
    PROVE  ContextInv'
<1>1. /\ work[t].at = "reading"
      /\ UNCHANGED <<members, ever, profile, skills, kept_profile, overtaken, orgs, profiles, org_rows, index>>
      /\ \/ work' = [work EXCEPT ![t] = Context!Idle]
         \/ work' = [work EXCEPT ![t].stage["skills"] = "get"]
  BY DEF Context!ThenSkills, Context!Stage, Context!tables, Context!caches, Context!ghosts
<1>2. CASE work' = [work EXCEPT ![t] = Context!Idle]
  BY <1>1, <1>2, ContextIdles
<1>3. CASE work' = [work EXCEPT ![t].stage["skills"] = "get"]
  <2> DEFINE got == work[t].got["skills"]
  <2>1. "skills" \in Context!Topics /\ "get" \in Stages /\ ContextTypes /\ OwnInv /\ AgeInv
    BY DEF Context!Topics, Stages, ContextInv
  <2>2. ReadAt(t, "skills", "get", got)
    BY <1>3, <2>1, Staged
  <2>3. Owned(t, "skills", got)
    BY <2>1 DEF OwnInv, OwnOf, Owned
  <2> HIDE DEF got
  <2>4. work' \in [Context!Threads -> Works] /\ skills' \in [ContextSetup.orgs -> SkillRows]
    BY <1>1, <2>1, <2>2 DEF ReadAt, ContextTypes
  <2>5. ContextTypes' /\ LetInInv' /\ FiledInv'
    BY <1>1, <2>4, TablesStay
  <2>6. OwnInv'
    BY <1>1, <2>1, <2>2, <2>3, ReadOwn
  <2>7. AgeInv'
    BY <1>1, <2>1, <2>2, ReadAges
  <2> QED  BY <2>5, <2>6, <2>7 DEF ContextInv
<1> QED  BY <1>1, <1>2, <1>3

(* A turn ends, a page is answered, a write fails or has dropped its rows. *)
LEMMA ContextEnds ==
    ASSUME ContextInv, UNCHANGED scene, NEW t \in Context!Threads,
           Context!TurnEnds(t) \/ Context!PageAnswered(t) \/ Context!WriteFails(t) \/ Context!InvalidateSkills(t)
    PROVE  ContextInv'
<1>1. /\ work' = [work EXCEPT ![t] = Context!Idle]
      /\ UNCHANGED <<members, ever, profile, skills, kept_profile, profiles, overtaken, orgs, index>>
      /\ \/ UNCHANGED org_rows
         \/ /\ work[t].at = "invalidate"
            /\ org_rows' = [org_rows EXCEPT ![Context!Home[t]][work[t].org] = Context!Unset]
  BY DEF Context!TurnEnds, Context!PageAnswered, Context!WriteFails, Context!InvalidateSkills,
         Context!tables, Context!caches, Context!ghosts
<1>2. CASE UNCHANGED org_rows
  BY <1>1, <1>2, ContextIdles
<1>3. CASE /\ work[t].at = "invalidate"
           /\ org_rows' = [org_rows EXCEPT ![Context!Home[t]][work[t].org] = Context!Unset]
  <2>1. work[t].org \in ContextSetup.orgs /\ Context!Home[t] \in Context!Homes /\ RowsOK
    BY <1>3, ContextScene, TablesOK DEF ContextInv, ContextTypes, OwnInv, OwnOf
  <2>2. /\ org_rows' \in [Context!Homes -> [ContextSetup.orgs -> {Context!Unset} \cup Founds]]
        /\ \A p \in Context!Homes, o \in ContextSetup.orgs :
              org_rows'[p][o] = org_rows[p][o] \/ org_rows'[p][o] = Context!Unset
    BY <1>3, <2>1, EntrySet DEF RowsOK
  <2>3. RowsOK'
    BY <2>1, <2>2, SameWords DEF RowsOK
  <2> QED  BY <1>1, <2>3, ContextIdles
<1> QED  BY <1>1, <1>2, <1>3

(* A turn has its prompt: the index it shows, cached or not, is that of the   *)
(* rows it has found and of what comes with the program.                     *)
LEMMA ContextPrepares ==
    ASSUME ContextInv, UNCHANGED scene, NEW t \in Context!Threads, Context!Prepare(t)
    PROVE  ContextInv'
<1> DEFINE p == Context!Home[t]
           slugs == DOMAIN Context!Bound(t)
           shown0 == Context!IndexShown(p, Context!Bound(t))
           w == [[work[t] EXCEPT !.at = "running"] EXCEPT !.listed = shown0.slugs]
<1>1. /\ work[t].at = "reading" /\ Context!Read(t)
      /\ index' = [index EXCEPT ![p][slugs] = shown0]
      /\ work' = [work EXCEPT ![t].at = "running", ![t].listed = shown0.slugs]
      /\ UNCHANGED <<members, ever, profile, skills, kept_profile, overtaken, orgs, profiles, org_rows>>
  BY DEF Context!Prepare, Context!IndexKey, Context!tables, Context!caches, Context!ghosts
<1>2. ContextTypes /\ OwnOf(t) /\ IndexOK /\ p \in Context!Homes /\ work[t] \in Works
  BY TablesOK, ContextScene DEF ContextInv, ContextTypes, OwnInv
<1>3. slugs \in SUBSET ContextSetup.slugs
  <2>1. CASE work[t].got["skills"] = Context!Unset
    BY <2>1 DEF Context!Bound
  <2>2. CASE work[t].got["skills"] # Context!Unset
    <3>1. Context!Bound(t) \in SkillRows
      BY <1>2, <2>2 DEF Context!Bound, OwnOf, Founds
    <3> QED  BY <3>1 DEF SkillRows
  <2> QED  BY <2>1, <2>2
<1>4. shown0 \in [slugs : SUBSET (ContextSetup.slugs \cup ContextSetup.bundled)]
      /\ shown0.slugs = slugs \cup ContextSetup.bundled
  BY <1>2, <1>3 DEF Context!IndexShown, Context!IndexKey, Context!IndexOf, Context!OrgLines, IndexOK
<1> HIDE DEF shown0, slugs
<1>5. w \in Works /\ w.at = "running" /\ w.listed = slugs \cup ContextSetup.bundled
      /\ w.kind = work[t].kind /\ w.org = work[t].org /\ w.stage = work[t].stage /\ w.got = work[t].got
  BY <1>2, <1>3, <1>4 DEF Works
<1>6. work' = [work EXCEPT ![t] = w]
  BY <1>1, <1>2 DEF ContextTypes
<1> HIDE DEF w
<1>7. work' \in [Context!Threads -> Works] /\ work'[t] = w /\ \A u \in Context!Threads : u # t => work'[u] = work[u]
  BY <1>2, <1>5, <1>6 DEF ContextTypes
<1>8. IndexOK'
  <2> DEFINE Indexes == {Context!Unset} \cup [slugs : SUBSET (ContextSetup.slugs \cup ContextSetup.bundled)]
             Names == SUBSET ContextSetup.slugs
             Good(found, names) == found # Context!Unset => found.slugs = names \cup ContextSetup.bundled
  <2>1. shown0 \in Indexes /\ index \in [Context!Homes -> [Names -> Indexes]] /\ slugs \in Names /\ Good(shown0, slugs)
        /\ \A q \in Context!Homes, names \in Names : Good(index[q][names], names)
    BY <1>2, <1>3, <1>4 DEF IndexOK
  <2>2. IndexOK' <=> /\ index' \in [Context!Homes -> [Names -> Indexes]]
                     /\ \A q \in Context!Homes, names \in Names : Good(index'[q][names], names)
    BY SameWords DEF IndexOK
  <2> HIDE DEF Indexes, p, Names, Good
  <2>3. /\ index' \in [Context!Homes -> [Names -> Indexes]]
        /\ \A q \in Context!Homes, names \in Names :
              index'[q][names] = IF q = p /\ names = slugs THEN shown0 ELSE index[q][names]
    BY <1>1, <1>2, <2>1, EntrySet
  <2> QED  BY <2>1, <2>2, <2>3
<1>9. /\ Context!Key(t)' = Context!Key(t) /\ Context!Read(t)' /\ DOMAIN Context!Bound(t)' = slugs
  <2>1. Context!Bound(t)' = Context!Bound(t)
    BY <1>5, <1>7, SameWords DEF Context!Bound
  <2> QED  BY <1>1, <1>5, <1>7, <2>1, SameWords DEF Context!Key, Context!Read, slugs
<1>10. OwnOf(t)'
  BY <1>1, <1>2, <1>5, <1>7, <1>9, SameWords DEF OwnOf
<1>11. ~Answering(t)' /\ work'[t].stage = work[t].stage /\ work'[t].got = work[t].got /\ work'[t].org = work[t].org
  BY <1>5, <1>7 DEF Answering
<1>12. skills' \in [ContextSetup.orgs -> SkillRows]
  BY <1>1, <1>2 DEF ContextTypes
<1> QED  BY <1>1, <1>7, <1>8, <1>10, <1>11, <1>12, ThreadMoves

(* What the list of a user's organisations is asked for, and kept.            *)
LEMMA ContextLists ==
    ASSUME ContextInv, UNCHANGED <<scene, ever>>, NEW t \in Context!Threads, NEW list \in SUBSET ContextSetup.orgs,
           Context!Lists(t, list)
    PROVE  (UNCHANGED orgs \/ OrgsOK') /\ \A o \in list : <<Context!Who[t], o>> \in ever
<1> DEFINE p == Context!Home[t]
           u == Context!Who[t]
           Lists == {Context!Unset} \cup [list : SUBSET ContextSetup.orgs]
<1>1. p \in Context!Homes /\ u \in Context!Users /\ OrgsOK /\ members \subseteq ever
  BY ContextScene, TablesOK DEF ContextInv, ContextTypes, LetInInv
<1>2. \/ orgs[p][u] # Context!Unset /\ list = orgs[p][u].list /\ UNCHANGED orgs
      \/ list = Context!MemberOf(u) /\ orgs' = [orgs EXCEPT ![p][u] = [list |-> list]]
      \/ list = {} /\ UNCHANGED orgs
  BY DEF Context!Lists
<1>3. \A o \in list : <<u, o>> \in ever
  BY <1>1, <1>2 DEF OrgsOK, Context!MemberOf
<1>4. CASE orgs' = [orgs EXCEPT ![p][u] = [list |-> list]]
  <2>1. [list |-> list] \in Lists /\ orgs \in [Context!Homes -> [Context!Users -> Lists]]
    BY <1>1 DEF OrgsOK
  <2> HIDE DEF p, u, Lists
  <2>2. /\ orgs' \in [Context!Homes -> [Context!Users -> Lists]]
        /\ \A q \in Context!Homes, v \in Context!Users :
              orgs'[q][v] = IF q = p /\ v = u THEN [list |-> list] ELSE orgs[q][v]
    BY <1>1, <1>4, <2>1, EntrySet
  <2>3. \A q \in Context!Homes, v \in Context!Users :
           orgs'[q][v] # Context!Unset => \A o \in orgs'[q][v].list : <<v, o>> \in ever
    BY <1>1, <1>3, <2>2 DEF OrgsOK
  <2> QED  BY <1>3, <2>2, <2>3, SameWords DEF OrgsOK, Lists, u
<1> QED  BY <1>2, <1>3, <1>4

(* A thread starts on what a request is about, in an organisation its user    *)
(* was let into, or goes away.                                               *)
LEMMA ContextBegins ==
    ASSUME ContextInv, UNCHANGED scene, NEW t \in Context!Threads, NEW k \in scene.does[t], Context!Begin(t, k)
    PROVE  ContextInv'
<1>1. /\ work[t].at = "idle" /\ k \in Context!Kinds /\ UNCHANGED <<members, ever, profile, skills, kept_profile, overtaken>>
      /\ UNCHANGED <<profiles, org_rows, index>>
  BY ContextScene DEF Context!Begin, Context!Named, Context!Unnamed, Context!AutomationStarts, ContextInv,
     ContextTypes, Context!tables, Context!caches, Context!ghosts
<1>2. /\ UNCHANGED orgs \/ OrgsOK'
      /\ \/ UNCHANGED work
         \/ \E o \in ContextSetup.orgs : /\ Context!Enters(t, k, o)
                                         /\ k # "automation" => <<Context!Who[t], o>> \in ever
  <2>1. /\ Context!Who[t] \in Context!Users /\ scene.names[t] \in ContextSetup.orgs \cup {"none"}
        /\ Context!PersonalOrg(t) \in ContextSetup.orgs /\ <<Context!Who[t], Context!PersonalOrg(t)>> \in ever
    BY ContextScene DEF ContextInv, ContextTypes, LetInInv, Context!PersonalOrg
  <2>2. CASE Context!Named(t, k)
    <3>1. PICK list \in SUBSET ContextSetup.orgs :
            /\ Context!Lists(t, list)
            /\ IF scene.names[t] \in list THEN Context!Enters(t, k, scene.names[t]) ELSE UNCHANGED work
      BY <2>2 DEF Context!Named
    <3> QED  BY <1>1, <2>1, <3>1, ContextLists
  <2>3. CASE Context!Unnamed(t, k)
    <3>1. CASE Context!Enters(t, k, Context!PersonalOrg(t)) /\ UNCHANGED orgs
      BY <2>1, <3>1
    <3>2. CASE \E list \in SUBSET ContextSetup.orgs :
                 /\ Context!Lists(t, list)
                 /\ UNCHANGED work \/ \E o \in list : Context!Enters(t, k, o)
      <4>1. PICK list \in SUBSET ContextSetup.orgs :
                 /\ Context!Lists(t, list)
                 /\ UNCHANGED work \/ \E o \in list : Context!Enters(t, k, o)
        BY <3>2
      <4> QED  BY <1>1, <4>1, ContextLists
    <3> QED  BY <2>3, <3>1, <3>2 DEF Context!Unnamed
  <2>4. CASE Context!AutomationStarts(t, k)
    BY <2>1, <2>4 DEF Context!AutomationStarts, Context!caches
  <2> QED  BY <2>2, <2>3, <2>4 DEF Context!Begin
<1>3. skills' \in [ContextSetup.orgs -> SkillRows] /\ OwnOf(t) /\ ContextTypes
  BY <1>1 DEF ContextInv, ContextTypes, OwnInv
<1>4. CASE UNCHANGED work
  <2>1. work'[t] = Context!Idle
    BY <1>1, <1>3, <1>4 DEF OwnOf
  <2>2. work' \in [Context!Threads -> Works]
    BY <1>3, <1>4 DEF ContextTypes
  <2> QED  BY <1>1, <1>2, <1>3, <1>4, <2>1, <2>2, IdleOwn, ThreadMoves
<1>5. ASSUME NEW o \in ContextSetup.orgs, Context!Enters(t, k, o), k # "automation" => <<Context!Who[t], o>> \in ever
      PROVE  ContextInv'
  <2> DEFINE w == [Context!Idle EXCEPT
                     !.kind = k, !.org = o, !.at = IF k \in Context!Changes THEN "write" ELSE "reading",
                     !.stage = [profile |-> IF k \in Context!Turns \cup {"get"} THEN "get" ELSE "no",
                                skills |-> IF k \in {"chat", "list"} THEN "get" ELSE "no"]]
  <2>1. /\ w.kind = k /\ w.org = o /\ w.at \in {"write", "reading"} /\ w.stage["profile"] \in {"get", "no"}
        /\ w.got["profile"] = Context!Unset /\ w.got["skills"] = Context!Unset
        /\ w \in Works
    <3>1. [profile |-> IF k \in Context!Turns \cup {"get"} THEN "get" ELSE "no",
           skills |-> IF k \in {"chat", "list"} THEN "get" ELSE "no"] \in [Context!Topics -> Stages]
      BY DEF Context!Topics, Stages
    <3>2. [x \in Context!Topics |-> Context!Unset] \in [Context!Topics -> Gots]
      BY DEF Gots
    <3> QED  BY <1>1, <3>1, <3>2 DEF Context!Idle, Works, Context!Topics
  <2>2. work' = [work EXCEPT ![t] = w]
    BY <1>5 DEF Context!Enters
  <2> HIDE DEF w
  <2>3. work' \in [Context!Threads -> Works] /\ work'[t] = w /\ \A u \in Context!Threads : u # t => work'[u] = work[u]
    BY <1>3, <2>1, <2>2 DEF ContextTypes
  <2>4. Context!Key(t)' = <<Context!Who[t], o>>
    BY <2>1, <2>3, SameWords DEF Context!Key
  <2>5. OwnOf(t)' /\ ~Answering(t)' /\ work'[t].stage["profile"] # "store"
    BY <1>1, <1>5, <2>1, <2>3, <2>4, SameWords DEF OwnOf, Answering
  <2> QED  BY <1>1, <1>2, <1>3, <2>3, <2>5, ThreadMoves
<1> QED  BY <1>2, <1>4, <1>5

(* A row of a skill is written or taken away. *)
LEMMA ContextWritesRows ==
    ASSUME ContextInv, UNCHANGED scene, NEW t \in Context!Threads, Context!UpsertSkill(t) \/ Context!DeleteSkill(t)
    PROVE  ContextInv'
<1> DEFINE old == skills[work[t].org]
           w == [work[t] EXCEPT !.at = "invalidate"]
<1>1. /\ work[t].at = "write" /\ work[t].kind # "put"
      /\ work' = [work EXCEPT ![t].at = "invalidate"]
      /\ UNCHANGED <<members, ever, profile, kept_profile, overtaken, orgs, profiles, org_rows, index>>
  BY DEF Context!UpsertSkill, Context!DeleteSkill, Context!WriteRows, Context!caches, Context!ghosts
<1>2. ContextTypes /\ OwnOf(t) /\ work[t].org \in ContextSetup.orgs /\ work[t] \in Works
  BY <1>1 DEF ContextInv, ContextTypes, OwnInv, OwnOf
<1>3. PICK slugs \in SUBSET ContextSetup.slugs : old \in [slugs -> SkillRow]
  <2>1. old \in SkillRows
    BY <1>2 DEF ContextTypes
  <2> HIDE DEF old
  <2> QED  BY <2>1 DEF SkillRows
<1>4. skills' \in [ContextSetup.orgs -> SkillRows]
  <2> HIDE DEF old
  <2>1. CASE Context!UpsertSkill(t)
    <3>1. PICK s \in ContextSetup.slugs, row \in SkillRow :
            skills' = [skills EXCEPT ![work[t].org] = [r \in DOMAIN old \cup {s} |-> IF r = s THEN row ELSE old[r]]]
      BY <2>1 DEF Context!UpsertSkill, Context!WriteRows, SkillRow, old
    <3>2. [r \in DOMAIN old \cup {s} |-> IF r = s THEN row ELSE old[r]] \in [slugs \cup {s} -> SkillRow]
      BY <1>3
    <3>3. [r \in DOMAIN old \cup {s} |-> IF r = s THEN row ELSE old[r]] \in SkillRows
      BY <3>2 DEF SkillRows
    <3> QED  BY <1>2, <3>1, <3>3 DEF ContextTypes
  <2>2. CASE Context!DeleteSkill(t)
    <3>1. PICK s \in ContextSetup.slugs :
            skills' = [skills EXCEPT ![work[t].org] = [r \in DOMAIN old \ {s} |-> old[r]]]
      BY <2>2 DEF Context!DeleteSkill, Context!WriteRows, old
    <3>2. [r \in DOMAIN old \ {s} |-> old[r]] \in [slugs \ {s} -> SkillRow]
      BY <1>3
    <3>3. [r \in DOMAIN old \ {s} |-> old[r]] \in SkillRows
      BY <3>2 DEF SkillRows
    <3> QED  BY <1>2, <3>1, <3>3 DEF ContextTypes
  <2> QED  BY <2>1, <2>2
<1>5. w \in Works /\ w.at = "invalidate" /\ w.kind = work[t].kind /\ w.org = work[t].org /\ w.stage = work[t].stage
      /\ w.got = work[t].got
  BY <1>2 DEF Works
<1>6. work' = [work EXCEPT ![t] = w]
  BY <1>1, <1>2 DEF ContextTypes
<1> HIDE DEF w, old
<1>7. work' \in [Context!Threads -> Works] /\ work'[t] = w /\ \A u \in Context!Threads : u # t => work'[u] = work[u]
  BY <1>2, <1>5, <1>6 DEF ContextTypes
<1>8. Context!Key(t)' = Context!Key(t)
  BY <1>5, <1>7, SameWords DEF Context!Key
<1>9. OwnOf(t)' /\ ~Answering(t)'
  BY <1>1, <1>2, <1>5, <1>7, <1>8, SameWords DEF OwnOf, Answering
<1> QED  BY <1>1, <1>4, <1>5, <1>7, <1>9, ThreadMoves

(* A profile is written: whoever keeps the old one, or is storing it, in       *)
(* another process or this one, is known for it.                             *)
LEMMA ContextWritesProfile ==
    ASSUME ContextInv, UNCHANGED scene, NEW t \in Context!Threads, Context!WriteProfile(t)
    PROVE  ContextInv'
<1> DEFINE k == Context!Key(t)
           w == [[work[t] EXCEPT !.at = "invalidate"] EXCEPT !.wrote = profile'[k]]
<1>1. /\ work[t].at = "write" /\ work[t].kind = "put"
      /\ profile' = [profile EXCEPT ![k] = @ + 1]
      /\ overtaken' = overtaken \cup {<<p, k>> : p \in {q \in Context!Homes :
                Context!Storing(q, k) \/ (q # Context!Home[t] /\ profiles[q][k] # Context!Unset)}}
      /\ work' = [work EXCEPT ![t].at = "invalidate", ![t].wrote = profile'[k]]
      /\ UNCHANGED <<members, ever, skills, kept_profile, orgs, profiles, org_rows, index>>
  BY DEF Context!WriteProfile, Context!caches
<1>2. /\ ContextTypes /\ OwnOf(t) /\ work[t].org \in ContextSetup.orgs /\ work[t] \in Works /\ k \in Keys
      /\ AgeInv /\ OwnInv
  <2>1. ContextTypes /\ OwnOf(t) /\ work[t] \in Works /\ AgeInv /\ OwnInv
    BY DEF ContextInv, ContextTypes, OwnInv
  <2>2. work[t].org \in ContextSetup.orgs
    BY <1>1, <2>1 DEF OwnOf
  <2> QED  BY <2>1, <2>2, ContextScene DEF ContextTypes, Context!Key, Keys
<1>3. /\ profile \in [Keys -> Nat] /\ profile' \in [Keys -> Nat] /\ profile'[k] = profile[k] + 1
      /\ \A j \in Keys : j # k => profile'[j] = profile[j]
  BY <1>1, <1>2 DEF ContextTypes
<1>4. w \in Works /\ w.at = "invalidate" /\ w.kind = work[t].kind /\ w.org = work[t].org /\ w.stage = work[t].stage
      /\ w.got = work[t].got /\ w.wrote = profile'[k]
  BY <1>2, <1>3 DEF Works
<1>5. work' = [work EXCEPT ![t] = w]
  BY <1>1, <1>2 DEF ContextTypes
<1> HIDE DEF w
<1>6. work' \in [Context!Threads -> Works] /\ work'[t] = w /\ \A u \in Context!Threads : u # t => work'[u] = work[u]
  BY <1>2, <1>4, <1>5 DEF ContextTypes
<1>7. \A u \in Context!Threads : /\ Context!Key(u)' = Context!Key(u) /\ work'[u].stage = work[u].stage
                                 /\ work'[u].got = work[u].got
  BY <1>4, <1>6, SameWords DEF Context!Key
<1>8. ContextTypes' /\ LetInInv' /\ FiledInv'
  <2>1. /\ scene' \in ContextSetup.scenes /\ profile' \in [Keys' -> Nat] /\ kept_profile' \in [Keys' -> Nat]
        /\ skills' \in [ContextSetup.orgs -> SkillRows'] /\ work' \in [Context!Threads' -> Works']
        /\ members' \subseteq ever' /\ \A u \in Context!Users' : <<u, ContextSetup.personal[u]>> \in ever'
    BY <1>1, <1>2, <1>3, <1>6, SameWords DEF ContextInv, ContextTypes, LetInInv
  <2>2. OrgsOK' /\ RowsOK' /\ IndexOK' /\ ProfilesOK'
    <3> USE <1>1, TablesOK, SameWords
    <3>1. OrgsOK'
      BY DEF OrgsOK
    <3>2. RowsOK'
      BY DEF RowsOK
    <3>3. IndexOK'
      BY DEF IndexOK
    <3>4. ProfilesOK'
      BY DEF ProfilesOK
    <3> QED  BY <3>1, <3>2, <3>3, <3>4
  <2> QED  BY <2>1, <2>2 DEF ContextTypes, LetInInv, FiledInv, OrgsOK, RowsOK, IndexOK, ProfilesOK
<1>9. OwnInv'
  <2>1. OwnOf(t)'
    BY <1>1, <1>2, <1>4, <1>6, <1>7, SameWords DEF OwnOf
  <2>2. \A u \in Context!Threads : u # t => OwnOf(u)'
    BY <1>1, <1>2, <1>6, OwnStays DEF OwnInv
  <2> QED  BY <2>1, <2>2, SameWords DEF OwnInv
<1>10. AgeInv'
  <2> HIDE DEF k
  <2>1. \A j \in Keys : kept_profile[j] <= profile'[j] /\ profile[j] <= profile'[j]
    <3>1. \A j \in Keys : kept_profile[j] \in Nat /\ profile[j] \in Nat /\ kept_profile[j] <= profile[j]
      BY <1>2 DEF AgeInv, ContextTypes
    <3>2. \A j \in Keys : profile'[j] = profile[j] \/ profile'[j] = profile[j] + 1
      BY <1>3
    <3> QED  BY <3>1, <3>2
  <2>2. ASSUME NEW u \in Context!Threads, Answering(u)'
        PROVE  /\ work'[u].wrote <= profile'[Context!Key(u)]
               /\ u # t => Answering(u) /\ work'[u].wrote = work[u].wrote
    <3>1. CASE u = t
      BY <1>2, <1>3, <1>4, <1>6, <3>1 DEF k
    <3>2. CASE u # t
      <4>1. Answering(u) /\ work'[u] = work[u] /\ work[u] \in Works
        BY <1>2, <1>6, <2>2, <3>2 DEF Answering, ContextTypes
      <4>2. Context!Key(u) \in Keys
        BY <1>2, <4>1, ContextScene DEF ContextTypes, OwnInv, OwnOf, Answering, Context!Key, Keys
      <4>3. work[u].wrote \in Nat /\ work[u].wrote <= profile[Context!Key(u)]
        BY <1>2, <4>1 DEF AgeInv, Works
      <4> QED  BY <1>3, <2>1, <4>1, <4>2, <4>3
    <3> QED  BY <3>1, <3>2
  <2>3. ASSUME NEW p \in Context!Homes, NEW j \in Keys, profiles[p][j] # Context!Unset, <<p, j>> \notin overtaken'
        PROVE  /\ <<p, j>> \notin overtaken
               /\ j = k => p = Context!Home[t]
    BY <1>1, <2>3
  <2>4. ASSUME NEW p \in Context!Homes, NEW j \in Keys, profiles[p][j] # Context!Unset, <<p, j>> \notin overtaken',
               NEW u \in Context!Threads, Answering(u)', Context!Key(u) = j, Context!Home[u] # p
        PROVE  profiles[p][j].version >= work'[u].wrote
    <3>1. u # t
      BY <2>3, <2>4 DEF k
    <3> QED  BY <1>2, <2>2, <2>3, <2>4, <3>1 DEF AgeInv
  <2>5. ASSUME NEW u \in Context!Threads, work[u].stage["profile"] = "store", work[u].got["profile"] # Context!Unset,
               <<Context!Home[u], Context!Key(u)>> \notin overtaken'
        PROVE  work[u].got["profile"].version = profile'[Context!Key(u)]
    <3>1. Context!Home[u] \in Context!Homes /\ Context!Key(u) \in Keys
      <4>1. work[u].org \in ContextSetup.orgs /\ OwnOf(u)
        BY <1>2, <2>5, ReadsWhileReading DEF OwnInv, Reading, Context!Topics
      <4> QED  BY <1>2, <4>1, ContextScene DEF ContextTypes, Context!Key, Keys
    <3>2. Context!Key(u) # k
      BY <1>1, <2>5, <3>1 DEF Context!Storing
    <3>3. <<Context!Home[u], Context!Key(u)>> \notin overtaken
      BY <1>1, <2>5
    <3> QED  BY <1>2, <1>3, <2>5, <3>1, <3>2, <3>3 DEF AgeInv
  <2>6. kept_profile' = kept_profile /\ profiles' = profiles
    BY <1>1
  <2>7. \A u \in Context!Threads : Answering(u)' => work'[u].wrote <= profile'[Context!Key(u)']
    BY <1>7, <2>2
  <2>8. ASSUME NEW p \in Context!Homes, NEW j \in Keys, profiles'[p][j] # Context!Unset, <<p, j>> \notin overtaken'
        PROVE  /\ profiles'[p][j].version >= kept_profile'[j]
               /\ \A u \in Context!Threads :
                     Answering(u)' /\ Context!Key(u)' = j /\ Context!Home[u] # p => profiles'[p][j].version >= work'[u].wrote
    <3>1. profiles'[p][j].version >= kept_profile'[j]
      BY <1>2, <2>3, <2>6, <2>8 DEF AgeInv
    <3>2. \A u \in Context!Threads :
             Answering(u)' /\ Context!Key(u)' = j /\ Context!Home[u] # p => profiles'[p][j].version >= work'[u].wrote
      BY <1>7, <2>4, <2>6, <2>8
    <3> QED  BY <3>1, <3>2
  <2>9. ASSUME NEW u \in Context!Threads, work'[u].stage["profile"] = "store", work'[u].got["profile"] # Context!Unset,
               <<Context!Home[u], Context!Key(u)'>> \notin overtaken'
        PROVE  work'[u].got["profile"].version = profile'[Context!Key(u)']
    BY <1>7, <2>5, <2>9
  <2> QED  BY <2>1, <2>6, <2>7, <2>8, <2>9, SameWords DEF AgeInv
<1> QED  BY <1>8, <1>9, <1>10 DEF ContextInv

(* An entry of a profile goes; unless a thread is storing one there, nothing   *)
(* old is left.                                                              *)
LEMMA Dropped ==
    ASSUME ContextInv, UNCHANGED scene, NEW p \in Context!Homes, NEW k \in Keys, Context!Drops(p, k)
    PROVE  /\ ProfilesOK'
           /\ \A q \in Context!Homes, j \in Keys :
                 profiles'[q][j] # Context!Unset => profiles'[q][j] = profiles[q][j] /\ ~(q = p /\ j = k)
           /\ \A q, j : <<q, j>> \in overtaken /\ <<q, j>> \notin overtaken' => q = p /\ j = k /\ ~Context!Storing(p, k)
<1> DEFINE Entries == {Context!Unset} \cup Profiles
<1>1. profiles' = [profiles EXCEPT ![p][k] = Context!Unset]
      /\ overtaken' = IF Context!Storing(p, k) THEN overtaken ELSE overtaken \ {<<p, k>>}
  BY DEF Context!Drops
<1>2. Context!Unset \in Entries /\ profiles \in [Context!Homes -> [Keys -> Entries]] /\ ProfilesOK
  BY TablesOK DEF ProfilesOK
<1>3. /\ profiles' \in [Context!Homes -> [Keys -> Entries]]
      /\ \A q \in Context!Homes, j \in Keys :
            profiles'[q][j] = IF q = p /\ j = k THEN Context!Unset ELSE profiles[q][j]
  <2> HIDE DEF Entries
  <2> QED  BY <1>1, <1>2, EntrySet
<1>4. ProfilesOK'
  BY <1>2, <1>3, SameWords DEF ProfilesOK
<1> QED  BY <1>1, <1>3, <1>4

(* What is stored is kept under a key of the tables. *)
LEMMA StoresAt ==
    ASSUME ContextInv, NEW u \in Context!Threads, work[u].stage["profile"] = "store"
    PROVE  Context!Home[u] \in Context!Homes /\ Context!Key(u) \in Keys
<1>1. ContextTypes /\ OwnOf(u) /\ "profile" \in Context!Topics
  BY DEF ContextInv, OwnInv, Context!Topics
<1>2. Context!Key(u) \in Keys
  BY <1>1, ReadsWhileReading DEF Reading
<1> QED  BY <1>1, <1>2, ContextScene DEF ContextTypes

(* The answer of a save: the entry of its own process is gone, and what the    *)
(* others keep, if it is not known for it, is no older.                      *)
LEMMA ContextSaves ==
    ASSUME ContextInv, UNCHANGED scene, NEW t \in Context!Threads, Context!InvalidateProfile(t)
    PROVE  ContextInv'
<1> DEFINE k == Context!Key(t)
           p == Context!Home[t]
<1>1. /\ Answering(t) /\ Context!Drops(p, k)
      /\ kept_profile' = [kept_profile EXCEPT ![k] = IF work[t].wrote > @ THEN work[t].wrote ELSE @]
      /\ work' = [work EXCEPT ![t] = Context!Idle]
      /\ UNCHANGED <<members, ever, profile, skills, orgs, org_rows, index>>
  BY DEF Context!InvalidateProfile, Context!tables, Answering
<1>2. /\ ContextTypes /\ AgeInv /\ OwnInv /\ OwnOf(t) /\ work[t] \in Works
  BY DEF ContextInv, ContextTypes, OwnInv
<1>3. k \in Keys /\ p \in Context!Homes
  <2>1. work[t].org \in ContextSetup.orgs
    BY <1>1, <1>2 DEF OwnOf, Answering
  <2> QED  BY <1>2, <2>1, ContextScene DEF ContextTypes, Context!Key, Keys
<1> HIDE DEF k, p
<1>4. /\ ProfilesOK'
      /\ \A q \in Context!Homes, j \in Keys :
            profiles'[q][j] # Context!Unset => profiles'[q][j] = profiles[q][j] /\ ~(q = p /\ j = k)
      /\ \A q, j : <<q, j>> \in overtaken /\ <<q, j>> \notin overtaken' => q = p /\ j = k /\ ~Context!Storing(p, k)
  BY <1>1, <1>3, Dropped
<1>5. work[t].wrote \in Nat /\ work[t].wrote <= profile[k] /\ \A j \in Keys : profile[j] \in Nat /\ kept_profile[j] \in Nat
      /\ kept_profile[j] <= profile[j]
  BY <1>1, <1>2, <1>3 DEF k, AgeInv, ContextTypes, Works
<1>6. /\ kept_profile' \in [Keys -> Nat]
      /\ \A j \in Keys : kept_profile'[j] = kept_profile[j] \/ (j = k /\ kept_profile'[j] = work[t].wrote)
  BY <1>1, <1>2, <1>3, <1>5 DEF ContextTypes
<1>7. work' \in [Context!Threads -> Works] /\ work'[t] = Context!Idle /\ \A u \in Context!Threads : u # t => work'[u] = work[u]
  BY <1>1, <1>2, IdleWorks DEF ContextTypes
<1>8. ContextTypes' /\ LetInInv' /\ FiledInv'
  <2>1. /\ scene' \in ContextSetup.scenes /\ profile' \in [Keys' -> Nat] /\ kept_profile' \in [Keys' -> Nat]
        /\ skills' \in [ContextSetup.orgs -> SkillRows'] /\ work' \in [Context!Threads' -> Works']
        /\ members' \subseteq ever' /\ \A u \in Context!Users' : <<u, ContextSetup.personal[u]>> \in ever'
    BY <1>1, <1>2, <1>6, <1>7, SameWords DEF ContextInv, ContextTypes, LetInInv
  <2>2. OrgsOK'
    BY <1>1, TablesOK, SameWords DEF OrgsOK
  <2>3. RowsOK'
    BY <1>1, TablesOK, SameWords DEF RowsOK
  <2>4. IndexOK'
    BY <1>1, TablesOK, SameWords DEF IndexOK
  <2> QED  BY <1>4, <2>1, <2>2, <2>3, <2>4 DEF ContextTypes, LetInInv, FiledInv, OrgsOK, RowsOK, IndexOK, ProfilesOK
<1>9. OwnInv'
  <2>1. \A u \in Context!Threads : u # t => OwnOf(u)'
    BY <1>1, <1>2, <1>7, OwnStays DEF OwnInv
  <2> QED  BY <1>7, <2>1, IdleOwn, SameWords DEF OwnInv
<1>10. AgeInv'
  <2>1. \A j \in Keys : kept_profile'[j] <= profile[j]
    BY <1>5, <1>6
  <2>2. \A u \in Context!Threads : Answering(u)' => /\ u # t /\ Answering(u) /\ work'[u].wrote = work[u].wrote
                                                    /\ Context!Key(u)' = Context!Key(u)
    BY <1>7, IdleOwn, SameWords DEF Answering, Context!Key
  <2>3. ASSUME NEW q \in Context!Homes, NEW j \in Keys, profiles'[q][j] # Context!Unset, <<q, j>> \notin overtaken'
        PROVE  /\ profiles'[q][j].version >= kept_profile'[j]
               /\ \A u \in Context!Threads :
                     Answering(u)' /\ Context!Key(u)' = j /\ Context!Home[u] # q => profiles'[q][j].version >= work'[u].wrote
    <3>1. profiles'[q][j] = profiles[q][j] /\ ~(q = p /\ j = k) /\ <<q, j>> \notin overtaken
      BY <1>4, <2>3
    <3>2. profiles[q][j].version >= kept_profile[j]
          /\ \A u \in Context!Threads :
                Answering(u) /\ Context!Key(u) = j /\ Context!Home[u] # q => profiles[q][j].version >= work[u].wrote
      BY <1>2, <2>3, <3>1 DEF AgeInv
    <3>3. j = k => profiles[q][j].version >= work[t].wrote
      BY <1>1, <3>1, <3>2 DEF k, p
    <3> QED  BY <1>6, <2>2, <3>1, <3>2, <3>3
  <2>4. ASSUME NEW u \in Context!Threads, work'[u].stage["profile"] = "store", work'[u].got["profile"] # Context!Unset,
               <<Context!Home[u], Context!Key(u)'>> \notin overtaken'
        PROVE  work'[u].got["profile"].version = profile[Context!Key(u)']
    <3>1. u # t
      BY <1>7, <2>4, IdleOwn
    <3>2. work'[u] = work[u] /\ Context!Key(u)' = Context!Key(u)
      BY <1>7, <3>1, SameWords DEF Context!Key
    <3>3. <<Context!Home[u], Context!Key(u)>> \notin overtaken
      BY <1>4, <2>4, <3>2 DEF Context!Storing
    <3> QED  BY <1>2, <2>4, <3>2, <3>3 DEF AgeInv
  <2>5. \A u \in Context!Threads : Answering(u)' => work'[u].wrote <= profile[Context!Key(u)']
    BY <1>2, <2>2 DEF AgeInv
  <2> QED  BY <1>1, <2>1, <2>3, <2>4, <2>5, SameWords DEF AgeInv
<1> QED  BY <1>8, <1>9, <1>10 DEF ContextInv

(* Somebody joins or leaves: who was let in stays known. *)
LEMMA ContextMembers ==
    ASSUME ContextInv, UNCHANGED scene, Context!MembersChange
    PROVE  ContextInv'
<1>1. /\ ever' = ever \cup members'
      /\ UNCHANGED <<profile, skills, orgs, profiles, org_rows, index, work, kept_profile, overtaken>>
  BY DEF Context!MembersChange, Context!caches, Context!ghosts
<1>2. OrgsOK'
  BY <1>1, TablesOK, SameWords DEF OrgsOK
<1>3. RowsOK' /\ IndexOK' /\ ProfilesOK'
  BY <1>1, TablesOK, SameWords DEF RowsOK, IndexOK, ProfilesOK
<1>4. ContextTypes' /\ LetInInv' /\ FiledInv'
  <2>1. /\ scene' \in ContextSetup.scenes /\ profile' \in [Keys' -> Nat] /\ kept_profile' \in [Keys' -> Nat]
        /\ skills' \in [ContextSetup.orgs -> SkillRows'] /\ work' \in [Context!Threads' -> Works']
        /\ members' \subseteq ever' /\ \A u \in Context!Users' : <<u, ContextSetup.personal[u]>> \in ever'
    BY <1>1, SameWords DEF ContextInv, ContextTypes, LetInInv
  <2> QED  BY <1>2, <1>3, <2>1 DEF ContextTypes, LetInInv, FiledInv, OrgsOK, RowsOK, IndexOK, ProfilesOK
<1>5. OwnInv'
  <2>1. \A u \in Context!Threads : OwnOf(u)'
    BY <1>1, OwnStays DEF ContextInv, OwnInv
  <2> QED  BY <2>1, SameWords DEF OwnInv
<1>6. AgeInv'
  <2>1. \A u \in Context!Threads : Context!Key(u)' = Context!Key(u) /\ (Answering(u)' <=> Answering(u))
    BY <1>1, SameWords DEF Context!Key, Answering
  <2>2. AgeInv
    BY DEF ContextInv
  <2> QED  BY <1>1, <2>1, <2>2, SameWords DEF AgeInv
<1> QED  BY <1>4, <1>5, <1>6 DEF ContextInv

(* An entry ages. *)
LEMMA ContextAges ==
    ASSUME ContextInv, UNCHANGED scene, NEW p \in Context!Homes, Context!Expire(p)
    PROVE  ContextInv'
<1>1. /\ UNCHANGED <<members, ever, profile, skills, index, work, kept_profile>>
      /\ \/ \E u \in Context!Users : orgs' = [orgs EXCEPT ![p][u] = Context!Unset] /\ UNCHANGED <<profiles, org_rows, overtaken>>
         \/ \E k \in Keys : Context!Drops(p, k) /\ UNCHANGED <<orgs, org_rows>>
         \/ \E o \in ContextSetup.orgs :
               org_rows' = [org_rows EXCEPT ![p][o] = Context!Unset] /\ UNCHANGED <<orgs, profiles, overtaken>>
  BY DEF Context!Expire, Context!tables, Keys
<1>2. OrgsOK'
  <2>1. CASE UNCHANGED orgs
    BY <1>1, <2>1, TablesOK, SameWords DEF OrgsOK
  <2>2. CASE \E u \in Context!Users : orgs' = [orgs EXCEPT ![p][u] = Context!Unset]
    <3> DEFINE Lists == {Context!Unset} \cup [list : SUBSET ContextSetup.orgs]
    <3>1. PICK u \in Context!Users : orgs' = [orgs EXCEPT ![p][u] = Context!Unset]
      BY <2>2
    <3>2. Context!Unset \in Lists /\ orgs \in [Context!Homes -> [Context!Users -> Lists]]
      BY TablesOK DEF OrgsOK
    <3>3. /\ orgs' \in [Context!Homes -> [Context!Users -> Lists]]
          /\ \A q \in Context!Homes, v \in Context!Users : orgs'[q][v] = orgs[q][v] \/ orgs'[q][v] = Context!Unset
      <4> HIDE DEF Lists
      <4> QED  BY <3>1, <3>2, EntrySet
    <3> QED  BY <1>1, <3>3, TablesOK, SameWords DEF OrgsOK
  <2> QED  BY <1>1, <2>1, <2>2
<1>3. RowsOK'
  <2>1. CASE UNCHANGED org_rows
    BY <2>1, TablesOK, SameWords DEF RowsOK
  <2>2. CASE \E o \in ContextSetup.orgs : org_rows' = [org_rows EXCEPT ![p][o] = Context!Unset]
    <3> DEFINE Entries == {Context!Unset} \cup Founds
    <3>1. PICK o \in ContextSetup.orgs : org_rows' = [org_rows EXCEPT ![p][o] = Context!Unset]
      BY <2>2
    <3>2. Context!Unset \in Entries /\ org_rows \in [Context!Homes -> [ContextSetup.orgs -> Entries]]
      BY TablesOK DEF RowsOK
    <3>3. /\ org_rows' \in [Context!Homes -> [ContextSetup.orgs -> Entries]]
          /\ \A q \in Context!Homes, j \in ContextSetup.orgs :
                org_rows'[q][j] = org_rows[q][j] \/ org_rows'[q][j] = Context!Unset
      <4> HIDE DEF Entries
      <4> QED  BY <3>1, <3>2, EntrySet
    <3> QED  BY <3>3, TablesOK, SameWords DEF RowsOK
  <2> QED  BY <1>1, <2>1, <2>2
<1>4. IndexOK'
  BY <1>1, TablesOK, SameWords DEF IndexOK
<1>5. /\ ProfilesOK'
      /\ \A q \in Context!Homes, j \in Keys : profiles'[q][j] # Context!Unset =>
            /\ profiles'[q][j] = profiles[q][j]
            /\ <<q, j>> \notin overtaken' => <<q, j>> \notin overtaken
      /\ \A q, j : <<q, j>> \in overtaken /\ <<q, j>> \notin overtaken' => ~Context!Storing(q, j)
  <2>1. CASE UNCHANGED <<profiles, overtaken>>
    BY <2>1, TablesOK, SameWords DEF ProfilesOK
  <2>2. CASE \E k \in Keys : Context!Drops(p, k)
    <3>1. PICK k \in Keys : Context!Drops(p, k)
      BY <2>2
    <3> QED  BY <3>1, Dropped
  <2> QED  BY <1>1, <2>1, <2>2
<1>6. ContextTypes' /\ LetInInv' /\ FiledInv'
  <2>1. /\ scene' \in ContextSetup.scenes /\ profile' \in [Keys' -> Nat] /\ kept_profile' \in [Keys' -> Nat]
        /\ skills' \in [ContextSetup.orgs -> SkillRows'] /\ work' \in [Context!Threads' -> Works']
        /\ members' \subseteq ever' /\ \A u \in Context!Users' : <<u, ContextSetup.personal[u]>> \in ever'
    BY <1>1, SameWords DEF ContextInv, ContextTypes, LetInInv
  <2> QED  BY <1>2, <1>3, <1>4, <1>5, <2>1 DEF ContextTypes, LetInInv, FiledInv, OrgsOK, RowsOK, IndexOK, ProfilesOK
<1>7. OwnInv'
  <2>1. \A u \in Context!Threads : OwnOf(u)'
    BY <1>1, OwnStays DEF ContextInv, OwnInv
  <2> QED  BY <2>1, SameWords DEF OwnInv
<1>8. AgeInv'
  <2>1. \A u \in Context!Threads : Context!Key(u)' = Context!Key(u) /\ (Answering(u)' <=> Answering(u))
    BY <1>1, SameWords DEF Context!Key, Answering
  <2>2. AgeInv
    BY DEF ContextInv
  <2>3. \A q \in Context!Homes, j \in Keys : profiles'[q][j] # Context!Unset /\ <<q, j>> \notin overtaken' =>
           /\ profiles'[q][j].version >= kept_profile[j]
           /\ \A u \in Context!Threads :
                 Answering(u) /\ Context!Key(u) = j /\ Context!Home[u] # q => profiles'[q][j].version >= work[u].wrote
    BY <1>5, <2>2 DEF AgeInv
  <2>4. ASSUME NEW u \in Context!Threads, work[u].stage["profile"] = "store", work[u].got["profile"] # Context!Unset,
               <<Context!Home[u], Context!Key(u)>> \notin overtaken'
        PROVE  work[u].got["profile"].version = profile[Context!Key(u)]
    <3>1. <<Context!Home[u], Context!Key(u)>> \notin overtaken
      BY <1>5, <2>4 DEF Context!Storing
    <3> QED  BY <2>2, <2>4, <3>1 DEF AgeInv
  <2> QED  BY <1>1, <2>1, <2>2, <2>3, <2>4, SameWords DEF AgeInv
<1> QED  BY <1>6, <1>7, <1>8 DEF ContextInv

(* Every step keeps the invariant. *)
LEMMA ContextSteps == ContextInv /\ [Context!Next]_(Context!vars) => ContextInv'
<1> SUFFICES ASSUME ContextInv, [Context!Next]_(Context!vars) PROVE ContextInv'
  OBVIOUS
<1>1. CASE UNCHANGED Context!vars
  <2>1. UNCHANGED <<scene, members, ever, profile, skills, orgs, profiles, org_rows, index, work, kept_profile, overtaken>>
    BY <1>1 DEF Context!vars, Context!tables, Context!caches, Context!ghosts
  <2>2. work \in [Context!Threads -> Works] /\ skills \in [ContextSetup.orgs -> SkillRows] /\ OwnInv /\ AgeInv
    BY DEF ContextInv, ContextTypes
  <2>3. ContextTypes' /\ LetInInv' /\ FiledInv'
    BY <2>1, <2>2, TablesStay
  <2>4. OwnInv'
    <3>1. \A u \in Context!Threads : OwnOf(u)'
      BY <2>1, <2>2, OwnStays DEF OwnInv
    <3> QED  BY <2>1, <3>1, SameWords DEF OwnInv
  <2>5. \A u \in Context!Threads : Context!Key(u)' = Context!Key(u) /\ (Answering(u)' <=> Answering(u))
    BY <2>1, SameWords DEF Context!Key, Answering
  <2>6. AgeInv'
    BY <2>1, <2>2, <2>5, SameWords DEF AgeInv
  <2> QED  BY <2>3, <2>4, <2>6 DEF ContextInv
<1>2. CASE Context!Next
  <2> USE <1>2
  <2>1. UNCHANGED scene
    BY DEF Context!Next
  <2>2. CASE Context!MembersChange
    BY <2>1, <2>2, ContextMembers
  <2>3. ASSUME NEW t \in Context!Threads, Context!Step(t) PROVE ContextInv'
    BY <2>1, <2>3, ContextGoesOn, ContextPrepares, ContextEnds, ContextWritesRows, ContextWritesProfile, ContextSaves
    DEF Context!Step
  <2>4. ASSUME NEW t \in Context!Threads, NEW k \in scene.does[t], Context!Begin(t, k) PROVE ContextInv'
    BY <2>1, <2>4, ContextBegins
  <2>5. ASSUME NEW t \in Context!Threads, NEW x \in Context!Topics, Context!Reads(t, x) PROVE ContextInv'
    BY <2>1, <2>5, ContextReads
  <2>6. ASSUME NEW p \in Context!Homes, Context!Expire(p) PROVE ContextInv'
    BY <2>1, <2>6, ContextAges
  <2> QED  BY <2>2, <2>3, <2>4, <2>5, <2>6 DEF Context!Next
<1> QED  BY <1>1, <1>2

(* What a turn knows of its organisation is its own: the profile and the rows  *)
(* it has read, through caches that are shared, are those of its user and     *)
(* organisation, one the user was let into; what its prompt lists can be      *)
(* loaded, though turns of several organisations share an index; and a        *)
(* process keeps no profile older than the last save that was answered,       *)
(* unless that was made elsewhere or while a thread was storing the old one.  *)
THEOREM ContextIsOwns == PartSpec => [](part = "context" => Context!ContextIsOwn)
<1> DEFINE Inv == part = "context" => ContextInv
<1>1. PartInit => Inv
  BY ContextStarts DEF PartInit
<1>2. Inv /\ [PartNext]_all => Inv'
  <2> SUFFICES ASSUME Inv, [PartNext]_all, part' = "context" PROVE ContextInv'
    OBVIOUS
  <2>1. part = "context" /\ ContextInv
    BY DEF PartNext, all
  <2>2. [Context!Next]_(Context!vars)
    BY <2>1 DEF PartNext, all, knowing, context_vars, Context!vars, Context!tables, Context!caches, Context!ghosts
  <2> QED  BY <2>1, <2>2, ContextSteps
<1>3. ContextInv => Context!ContextIsOwn
  <2> SUFFICES ASSUME ContextInv PROVE Context!ContextIsOwn
    OBVIOUS
  <2>1. Context!OwnRows
    BY DEF ContextInv, OwnInv, OwnOf, Context!OwnRows, Context!Snippets
  <2>2. Context!ListedLoads
    <3> SUFFICES ASSUME NEW t \in Context!Threads, work[t].at = "running"
                 PROVE  /\ DOMAIN Context!Bound(t) \subseteq work[t].listed
                        /\ \A s \in work[t].listed : Context!LoadSkill(t, s) = "error" => s \in DOMAIN Context!Bound(t)
      BY DEF Context!ListedLoads
    <3>1. work[t].listed = DOMAIN Context!Bound(t) \cup ContextSetup.bundled
      BY DEF ContextInv, OwnInv, OwnOf
    <3> QED  BY <3>1 DEF Context!LoadSkill
  <2>3. Context!SavedIsSeen
    BY DEF ContextInv, AgeInv, Context!SavedIsSeen, Keys
  <2> QED  BY <2>1, <2>2, <2>3 DEF Context!ContextIsOwn
<1> QED  BY <1>1, <1>2, <1>3, PTL DEF PartSpec

----------------------------------------------------------------------------
(* The messages of a session: ChatSession. First what its sequences are made *)
(* of, whose definitions recur or choose.                                    *)

\* A set of naturals has a least element.
LEMMA LeastOf ==
    ASSUME NEW S \in SUBSET Nat, S # {}
    PROVE  \E a \in S : \A b \in S : a <= b
<1>1. PICK a \in S : \A b \in S : ~ (<<b, a>> \in OpToRel(<, Nat))
  BY Zenon, NatLessThanWellFounded, WFMin
<1>2. \A b \in S : ~ (b < a)
  BY <1>1 DEF OpToRel
<1>3. \A b \in S : a <= b
  <2> SUFFICES ASSUME NEW b \in S PROVE a <= b
    OBVIOUS
  <2>1. ~ (b < a) /\ a \in Nat /\ b \in Nat
    BY <1>2
  <2> QED  BY <2>1
<1> QED  BY <1>3

\* Sequences of M, one behind the other, are a sequence of M.
LEMMA FlatTyped ==
    ASSUME NEW M, NEW ss \in Seq(Seq(M))
    PROVE  Chat!FlattenSeq(ss) \in Seq(M)
<1> DEFINE n == Len(ss)
           From(f, i) == IF i = 1 THEN ss[i] ELSE f[i - 1] \o ss[i]
           Upto(f, k) == f \in [1..k -> Seq(M)] /\ \A i \in 1..k : f[i] = From(f, i)
           Unrolls(f) == f = [i \in 1..n |-> From(f, i)]
           F == CHOOSE f : Unrolls(f)
<1>1. n \in Nat /\ \A i \in 1..n : ss[i] \in Seq(M)
  OBVIOUS
<1>2. CASE n = 0
  <2>1. ss = <<>>
    BY <1>2
  <2> QED  BY <2>1, <1>2 DEF Chat!FlattenSeq
<1>3. CASE n # 0
  <2>1. \A k \in 1..n : \E f : Upto(f, k)
    <3> DEFINE Bad == {k \in 1..n : ~ \E f : Upto(f, k)}
    <3> SUFFICES ASSUME Bad # {} PROVE FALSE
      OBVIOUS
    <3>1. Bad \in SUBSET Nat
      OBVIOUS
    <3>2. PICK m \in Bad : \A k \in Bad : m <= k
      <4> HIDE DEF Bad
      <4> QED  BY <3>1, LeastOf
    <3>3. m \in 1..n
      OBVIOUS
    <3>6. ~ \E f : Upto(f, m)
      OBVIOUS
    <3> HIDE DEF Bad
    <3>4. CASE m = 1
      <4> DEFINE f == [i \in 1..1 |-> ss[1]]
      <4>1. Upto(f, 1)
        BY <1>1, <3>3, <3>4
      <4> QED  BY <3>4, <3>6, <4>1
    <3>5. CASE m # 1
      <4>1. m - 1 \in 1..n /\ ~ (m <= m - 1)
        BY <1>1, <3>3, <3>5
      <4>2. PICK g : Upto(g, m - 1)
        <5>1. m - 1 \notin Bad
          BY <3>2, <4>1
        <5> HIDE DEF Upto
        <5> QED  BY <4>1, <5>1 DEF Bad
      <4> DEFINE f == [i \in 1..m |-> IF i = m THEN g[m - 1] \o ss[m] ELSE g[i]]
      <4>3. g[m - 1] \in Seq(M) /\ ss[m] \in Seq(M)
        BY <1>1, <3>3, <4>1, <4>2
      <4>4. f \in [1..m -> Seq(M)]
        BY <3>3, <4>2, <4>3
      <4>5. \A i \in 1..m : f[i] = From(f, i)
        <5> SUFFICES ASSUME NEW i \in 1..m PROVE f[i] = From(f, i)
          OBVIOUS
        <5>1. /\ f[m] = g[m - 1] \o ss[m] /\ \A k \in 1..(m - 1) : f[k] = g[k]
              /\ m - 1 \in 1..(m - 1) /\ m # 1
          <6>1. m - 1 \in 1..(m - 1) /\ m \in 1..m /\ \A k \in 1..(m - 1) : k \in 1..m /\ k # m
            BY <1>1, <3>3, <3>5
          <6> QED  BY <3>5, <6>1
        <5>2. CASE i = m
          <6> HIDE DEF f
          <6> QED  BY <5>1, <5>2
        <5>3. CASE i # m
          <6>1. i \in 1..(m - 1) /\ (i # 1 => i - 1 \in 1..(m - 1))
            BY <3>3, <5>3
          <6>2. g[i] = From(g, i)
            BY <4>2, <6>1
          <6> HIDE DEF f
          <6> QED  BY <5>1, <6>1, <6>2
        <5> QED  BY <5>2, <5>3
      <4>6. Upto(f, m)
        BY <4>4, <4>5
      <4> QED  BY <3>6, <4>6
    <3> QED  BY <3>4, <3>5
  <2>2. \E f : Unrolls(f)
    <3>1. n \in 1..n
      BY <1>1, <1>3
    <3>2. PICK f : Upto(f, n)
      BY <2>1, <3>1
    <3>3. Unrolls(f)
      BY <3>2
    <3> QED  BY <3>3
  <2>3. Unrolls(F)
    <3> HIDE DEF Unrolls
    <3> QED  BY <2>2
  <2>4. \A i \in 1..n : F[i] \in Seq(M)
    <3> HIDE DEF F
    <3> DEFINE Bad == {i \in 1..n : F[i] \notin Seq(M)}
    <3> SUFFICES ASSUME Bad # {} PROVE FALSE
      OBVIOUS
    <3>1. Bad \in SUBSET Nat
      OBVIOUS
    <3>2. PICK m \in Bad : \A k \in Bad : m <= k
      <4> HIDE DEF Bad
      <4> QED  BY <3>1, LeastOf
    <3>3. m \in 1..n /\ F[m] \notin Seq(M) /\ F[m] = From(F, m)
      BY <2>3
    <3>4. CASE m = 1
      BY <1>1, <3>3, <3>4
    <3>5. CASE m # 1
      <4>1. m - 1 \in 1..n /\ m - 1 \notin Bad
        <5>1. m - 1 \in 1..n /\ ~ (m <= m - 1)
          BY <1>1, <3>3, <3>5
        <5> HIDE DEF Bad
        <5> QED  BY <3>2, <5>1
      <4>2. F[m - 1] \in Seq(M) /\ ss[m] \in Seq(M)
        BY <1>1, <3>3, <4>1
      <4> QED  BY <3>3, <3>5, <4>2
    <3> QED  BY <3>4, <3>5
  <2>5. Chat!FlattenSeq(ss) = F[n]
    BY <1>3 DEF Chat!FlattenSeq
  <2> HIDE DEF F
  <2> QED  BY <1>1, <1>3, <2>4, <2>5
<1> QED  BY <1>2, <1>3

(* What ChatSession takes from FiniteSets is FiniteSets. *)
LEMMA ChatSets == \A S : Chat!Cardinality(S) = Cardinality(S)
BY DEF Chat!Cardinality, Cardinality

LEMMA UptoFinite == ASSUME NEW n \in Nat PROVE IsFiniteSet(1..n) /\ Cardinality(1..n) = n
<1>1. 1 \in Int /\ n \in Int
  OBVIOUS
<1>2. IsFiniteSet(1..n) /\ Cardinality(1..n) = IF 1 > n THEN 0 ELSE n - 1 + 1
  BY <1>1, FS_Interval
<1> QED  BY <1>2

\* Every rank up to the size of a finite set of numbers is that of a member.
LEMMA RankTaken ==
    ASSUME NEW S \in SUBSET Nat, IsFiniteSet(S), NEW k \in 1..Cardinality(S)
    PROVE  \E i \in S : Cardinality({j \in S : j <= i}) = k
<1> DEFINE n == Cardinality(S)
           Below(i) == {j \in S : j <= i}
           rank == [i \in S |-> Cardinality(Below(i))]
<1>1. n \in Nat
  BY FS_CardinalityType
<1>2. ASSUME NEW i \in S PROVE IsFiniteSet(Below(i)) /\ Cardinality(Below(i)) \in 1..n
  <2>1. Below(i) \in SUBSET S /\ i \in Below(i)
    OBVIOUS
  <2> HIDE DEF Below
  <2>2. IsFiniteSet(Below(i)) /\ Cardinality(Below(i)) <= n
    BY <2>1, FS_Subset
  <2>3. Cardinality(Below(i)) \in Nat /\ Cardinality(Below(i)) # 0
    BY <2>1, <2>2, FS_CardinalityType, FS_EmptySet
  <2> QED  BY <1>1, <2>2, <2>3
<1>3. ASSUME NEW a \in S, NEW b \in S, a < b PROVE Cardinality(Below(a)) # Cardinality(Below(b))
  <2>1. Below(a) \in SUBSET Below(b) /\ b \in Below(b) /\ b \notin Below(a)
    <3>1. \A j \in S : j <= a => j <= b
      BY <1>3
    <3>2. b <= b /\ ~ (b <= a)
      BY <1>3
    <3> QED  BY <3>1, <3>2
  <2>2. IsFiniteSet(Below(b))
    BY <1>2
  <2> HIDE DEF Below
  <2> QED  BY <2>1, <2>2, FS_Subset
<1> HIDE DEF Below
<1>4. rank \in [S -> 1..n]
  BY <1>2
<1>5. \A a, b \in S : rank[a] = rank[b] => a = b
  <2> SUFFICES ASSUME NEW a \in S, NEW b \in S, rank[a] = rank[b] PROVE a = b
    OBVIOUS
  <2>1. a < b \/ b < a \/ a = b
    OBVIOUS
  <2>2. Cardinality(Below(a)) = Cardinality(Below(b))
    OBVIOUS
  <2> QED  BY <1>3, <2>1, <2>2
<1>6. \A i \in S : rank[i] = Cardinality(Below(i))
  OBVIOUS
<1> HIDE DEF rank
<1>7. rank \in Injection(S, 1..n)
  BY <1>4, <1>5 DEF Injection, IsInjective
<1>8. rank \in Surjection(S, 1..n)
  BY <1>1, <1>7, UptoFinite, FS_Injection
<1>9. PICK i \in S : rank[i] = k
  BY <1>8 DEF Surjection
<1> QED  BY <1>6, <1>9 DEF Below

\* Numbers in their order are the numbers.
LEMMA OrderTyped ==
    ASSUME NEW n \in Nat, NEW S \in SUBSET (1..n)
    PROVE  Chat!InOrder(S) \in Seq(S)
<1>1. IsFiniteSet(S) /\ S \in SUBSET Nat
  <2>1. IsFiniteSet(1..n)
    BY UptoFinite
  <2>2. IsFiniteSet(S)
    BY <2>1, FS_Subset
  <2> QED  BY <2>2
<1>2. Cardinality(S) \in Nat /\ Chat!Cardinality(S) = Cardinality(S)
  BY <1>1, FS_CardinalityType, ChatSets
<1> DEFINE nth(k) == CHOOSE i \in S : Chat!Cardinality({j \in S : j <= i}) = k
<1>3. ASSUME NEW k \in 1..Cardinality(S) PROVE nth(k) \in S
  <2>1. PICK i \in S : Cardinality({j \in S : j <= i}) = k
    BY <1>1, RankTaken
  <2>2. Chat!Cardinality({j \in S : j <= i}) = k
    BY <2>1, ChatSets
  <2> QED  BY <2>2
<1>4. Chat!InOrder(S) = [k \in 1..Cardinality(S) |-> nth(k)]
  BY <1>2 DEF Chat!InOrder
<1> HIDE DEF nth
<1> QED  BY <1>2, <1>3, <1>4

(* The messages of the turns of o, and a session of the owner of a turn. *)
MessagesOf(o) == {m \in (Nat \cup Chat!Turns) \X {"q", "a", "p"} : Chat!Owner(m[1]) = o}

\* Questions and their answers are of the owner of the thread.
LEMMA QuestionsTyped ==
    ASSUME NEW n \in Nat
    PROVE  /\ Chat!Questions(n) \in Seq(Nat)
           /\ \A i \in DOMAIN Chat!Questions(n) : Chat!Owner(Chat!Questions(n)[i]) = Chat!Owner(1)
<1> DEFINE S == {t \in 1..n : Chat!Owner(t) = Chat!Owner(1)}
<1>1. Chat!Questions(n) \in Seq(S)
  BY OrderTyped DEF Chat!Questions
<1>2. \A s \in Seq(S) : s \in Seq(Nat) /\ \A i \in DOMAIN s : s[i] \in S
  OBVIOUS
<1> QED  BY <1>1, <1>2

LEMMA PairsTyped ==
    ASSUME NEW n \in Nat
    PROVE  /\ Chat!FlattenSeq([i \in DOMAIN Chat!Questions(n) |-> Chat!Pair(Chat!Questions(n)[i])]) \in Seq(MessagesOf(Chat!Owner(1)))
           /\ Chat!FlattenSeq([i \in DOMAIN Chat!Questions(n) |-> Chat!Row(Chat!Questions(n)[i])]) \in Seq(MessagesOf(Chat!Owner(1)))
<1> DEFINE M == MessagesOf(Chat!Owner(1))
           qs == Chat!Questions(n)
<1>1. qs \in Seq(Nat) /\ \A i \in DOMAIN qs : Chat!Owner(qs[i]) = Chat!Owner(1)
  BY QuestionsTyped
<1> HIDE DEF qs
<1>2. DOMAIN qs = 1..Len(qs) /\ Len(qs) \in Nat /\ \A i \in DOMAIN qs : qs[i] \in Nat
  BY <1>1
<1>3. \A i \in DOMAIN qs : \A x \in {"q", "a", "p"} : <<qs[i], x>> \in M
  BY <1>1, <1>2 DEF MessagesOf
<1> HIDE DEF M
<1>4. \A i \in DOMAIN qs : Chat!Pair(qs[i]) \in Seq(M) /\ Chat!Row(qs[i]) \in Seq(M)
  BY <1>3 DEF Chat!Pair, Chat!Row
<1>5. [i \in DOMAIN qs |-> Chat!Pair(qs[i])] \in Seq(Seq(M)) /\ [i \in DOMAIN qs |-> Chat!Row(qs[i])] \in Seq(Seq(M))
  BY <1>2, <1>4
<1>6. Chat!FlattenSeq([i \in DOMAIN qs |-> Chat!Pair(qs[i])]) \in Seq(M)
  BY <1>5, FlatTyped
<1>7. Chat!FlattenSeq([i \in DOMAIN qs |-> Chat!Row(qs[i])]) \in Seq(M)
  BY <1>5, FlatTyped
<1> QED  BY <1>6, <1>7 DEF M, qs

\* What is left of the rows.
LEMMA TrimTyped ==
    ASSUME NEW M, NEW s \in Seq(M), NEW t
    PROVE  Chat!Trim(t, s) \in Seq(M)
<1> DEFINE even(n) == (Len(s) - n) % 2 = 0
           cuts == {n \in 0..Len(s) : even(n) /\ \A i \in (n + 1)..Len(s) : even(i) => Chat!OwnPair(t, s, i)}
           cut == CHOOSE n \in cuts : \A k \in cuts : n <= k
<1>1. Len(s) \in Nat
  OBVIOUS
<1>2. Len(s) \in cuts
  <2>1. Len(s) \in 0..Len(s) /\ (Len(s) + 1)..Len(s) = {} /\ even(Len(s))
    BY <1>1
  <2> QED  BY <2>1
<1>3. cuts \in SUBSET Nat /\ \A n \in cuts : n \in 0..Len(s)
  BY <1>1
<1>4. Chat!Trim(t, s) = SubSeq(s, 1, cut)
  BY DEF Chat!Trim
<1> HIDE DEF cuts
<1>5. cut \in cuts
  BY <1>2, <1>3, LeastOf
<1> HIDE DEF cut
<1>6. cut \in 0..Len(s)
  BY <1>3, <1>5
<1>7. \A n \in 0..Len(s) : SubSeq(s, 1, n) \in Seq(M)
  BY <1>1
<1> QED  BY <1>4, <1>6, <1>7

LEMMA MappedTyped ==
    ASSUME NEW M, NEW s \in Seq(M)
    PROVE  Chat!Mapped(s) \in Seq(M)
<1> DEFINE S == {i \in DOMAIN s : s[i][2] # "p"}
           own == Chat!InOrder(S)
<1>1. DOMAIN s = 1..Len(s) /\ Len(s) \in Nat /\ S \in SUBSET DOMAIN s /\ \A i \in DOMAIN s : s[i] \in M
  OBVIOUS
<1>2. Chat!Mapped(s) = [k \in DOMAIN own |-> s[own[k]]]
  BY DEF Chat!Mapped
<1> HIDE DEF S
<1>3. own \in Seq(S)
  BY <1>1, OrderTyped
<1> HIDE DEF own
<1>4. DOMAIN own = 1..Len(own) /\ Len(own) \in Nat /\ \A k \in DOMAIN own : own[k] \in S
  BY <1>3
<1>5. \A k \in DOMAIN own : s[own[k]] \in M
  BY <1>1, <1>4
<1> QED  BY <1>2, <1>4, <1>5

\* In another order the rows are the same rows, and the last of them are rows.
LEMMA OrdersTyped ==
    ASSUME NEW M, NEW s \in Seq(M), NEW order \in Chat!Orders(s)
    PROVE  order \in Seq(M)
<1>1. PICK p : order = [i \in DOMAIN s |-> s[p[i]]] /\ Chat!ToSet(order) = Chat!ToSet(s)
  BY DEF Chat!Orders, Chat!Reordered
<1>2. DOMAIN s = 1..Len(s) /\ Len(s) \in Nat /\ \A i \in DOMAIN s : s[i] \in M
  OBVIOUS
<1>3. \A m \in Chat!ToSet(order) : m \in M
  BY <1>1, <1>2 DEF Chat!ToSet
<1>4. \A i \in DOMAIN s : order[i] \in M
  <2> SUFFICES ASSUME NEW i \in DOMAIN s PROVE order[i] \in Chat!ToSet(order)
    BY <1>3
  <2>1. DOMAIN order = DOMAIN s
    BY <1>1
  <2> QED  BY <2>1 DEF Chat!ToSet
<1> QED  BY <1>1, <1>2, <1>4

LEMMA LatestTyped ==
    ASSUME NEW M, NEW s \in Seq(M)
    PROVE  Chat!Latest(s) \in Seq(M)
<1> DEFINE cut == Len(s) - scene.limit
<1>1. Chat!Latest(s) = IF cut \in 1..Len(s) THEN SubSeq(s, cut + 1, Len(s)) ELSE s
  BY DEF Chat!Latest
<1>2. \A n \in 1..Len(s) : SubSeq(s, n + 1, Len(s)) \in Seq(M)
  OBVIOUS
<1> HIDE DEF cut
<1> QED  BY <1>1, <1>2

(* A session of turn u: it says whose it is, and which object it is. *)
Owns(u, s) == s.owner = Chat!Owner(u) /\ s.object \in Chat!Turns /\ Chat!Owner(s.object) = Chat!Owner(u)
Early(t) == pc[t] \in {"new", "posted", "foreign", "missed"}
Busy(t) == pc[t] \notin {"new", "posted", "foreign", "missed", "done"}
SessionFields == {"owner", "msgs", "object"}

\* A turn works on an object of its owner, with messages of its owner; what the
\* store has is of the owner it names, and in memory so is the object it refers to.
HeapInv ==
    /\ next \in Nat \ {0} /\ DOMAIN pc = Chat!Turns /\ DOMAIN heap = Chat!Turns
    /\ mine \in [Chat!Turns -> Chat!Turns]
    /\ \A t \in Chat!Turns : /\ Chat!Owner(mine[t]) = Chat!Owner(t)
                             /\ ~Chat!Memory \/ Early(t) => mine[t] = t
                             /\ Busy(t) => Owns(mine[t], heap[mine[t]])
                             /\ pc[t] # "new" => t \in 1..(next - 1)
    /\ \A u \in Chat!Turns : DOMAIN heap[u] = SessionFields /\ heap[u].msgs \in Seq(MessagesOf(Chat!Owner(u)))
KeptInv ==
    /\ DOMAIN kept = SessionFields /\ kept.msgs \in Seq(MessagesOf(kept.owner))
    /\ kept # Chat!NoSession =>
          /\ kept.object \in Chat!Turns /\ Chat!Owner(kept.object) = kept.owner
          /\ Chat!Memory => Owns(kept.object, heap[kept.object])
RowsInv == rows \in Seq(MessagesOf(Chat!Owner(1)))
SessionInv == HeapInv /\ KeptInv /\ RowsInv

LEMMA SameSession ==
    ASSUME scene' = scene
    PROVE  /\ Chat!Turns' = Chat!Turns /\ (Chat!Memory' <=> Chat!Memory)
           /\ \A t : Chat!Owner(t)' = Chat!Owner(t)
           /\ \A o : MessagesOf(o)' = MessagesOf(o)
BY DEF Chat!Turns, Chat!Memory, Chat!Owner, MessagesOf

LEMMA SessionStarts == Chat!Init => SessionInv
<1> SUFFICES ASSUME Chat!Init PROVE SessionInv
  OBVIOUS
<1>1. \A M : <<>> \in Seq(M)
  OBVIOUS
<1>2. /\ next = 1 /\ rows = <<>> /\ kept = Chat!NoSession
      /\ DOMAIN pc = Chat!Turns /\ \A t \in Chat!Turns : pc[t] = "new"
      /\ mine \in [Chat!Turns -> Chat!Turns] /\ \A t \in Chat!Turns : mine[t] = t
      /\ DOMAIN heap = Chat!Turns /\ \A t \in Chat!Turns : heap[t] = Chat!NoSession
  BY DEF Chat!Init
<1>3. DOMAIN Chat!NoSession = SessionFields /\ Chat!NoSession.msgs = <<>>
  BY DEF Chat!NoSession, SessionFields
<1>4. HeapInv
  <2>1. ASSUME NEW t \in Chat!Turns PROVE mine[t] = t /\ ~Busy(t) /\ pc[t] = "new"
    BY <1>2 DEF Busy
  <2>2. ASSUME NEW u \in Chat!Turns PROVE DOMAIN heap[u] = SessionFields /\ heap[u].msgs \in Seq(MessagesOf(Chat!Owner(u)))
    BY <1>1, <1>2, <1>3
  <2> QED  BY <1>2, <2>1, <2>2 DEF HeapInv
<1>5. KeptInv /\ RowsInv
  BY <1>1, <1>2, <1>3 DEF KeptInv, RowsInv
<1> QED  BY <1>4, <1>5 DEF SessionInv

(* Steps that leave the sessions alone. *)
LEMMA SessionRests ==
    ASSUME SessionInv, scene' = scene, next' \in Nat \ {0}, UNCHANGED <<heap, mine>>, DOMAIN pc' = DOMAIN pc,
           \A t \in Chat!Turns : (Busy(t)' => Busy(t)) /\ (Early(t)' => Early(t)),
           \A t \in Chat!Turns : pc'[t] # "new" => t \in 1..(next' - 1),
           kept' = kept \/ kept' = Chat!NoSession, RowsInv'
    PROVE  SessionInv'
<1>1. HeapInv'
  <2>1. ASSUME NEW t \in Chat!Turns
        PROVE  /\ Chat!Owner(mine[t]) = Chat!Owner(t)
               /\ ~Chat!Memory \/ Early(t)' => mine[t] = t
               /\ Busy(t)' => Owns(mine[t], heap[mine[t]])
               /\ pc'[t] # "new" => t \in 1..(next' - 1)
    <3>1. /\ Chat!Owner(mine[t]) = Chat!Owner(t)
          /\ ~Chat!Memory \/ Early(t) => mine[t] = t
          /\ Busy(t) => Owns(mine[t], heap[mine[t]])
          /\ pc[t] # "new" => t \in 1..(next - 1)
      BY DEF SessionInv, HeapInv
    <3>2. (Busy(t)' => Busy(t)) /\ (Early(t)' => Early(t))
      OBVIOUS
    <3>3. pc'[t] # "new" => t \in 1..(next' - 1)
      OBVIOUS
    <3> QED  BY <3>1, <3>2, <3>3
  <2> QED  BY <2>1, SameSession DEF SessionInv, HeapInv, Owns
<1>2. KeptInv'
  <2>1. CASE kept' = kept
    BY <2>1, SameSession DEF SessionInv, KeptInv, Owns
  <2>2. CASE kept' = Chat!NoSession
    <3>1. <<>> \in Seq(MessagesOf(Chat!NoSession.owner))
      OBVIOUS
    <3> QED  BY <2>2, <3>1, SameSession DEF KeptInv, Chat!NoSession, SessionFields
  <2> QED  BY <2>1, <2>2
<1> QED  BY <1>1, <1>2 DEF SessionInv

LEMMA SessionIdles ==
    ASSUME SessionInv, Chat!Forget \/ Chat!Persist \/ \E t \in Chat!Turns : Chat!Post(t) \/ Chat!ShowsAnswer(t) \/ Chat!NoAnswer(t)
    PROVE  SessionInv'
<1>1. scene' = scene /\ UNCHANGED <<heap, mine>>
  BY DEF Chat!Forget, Chat!Persist, Chat!Post, Chat!ShowsAnswer, Chat!NoAnswer
<1>2. next' \in Nat \ {0}
  BY DEF Chat!Forget, Chat!Persist, Chat!Post, Chat!ShowsAnswer, Chat!NoAnswer, SessionInv, HeapInv
<1>3. kept' = kept \/ kept' = Chat!NoSession
  BY DEF Chat!Forget, Chat!Persist, Chat!Post, Chat!ShowsAnswer, Chat!NoAnswer
<1>4. /\ DOMAIN pc' = DOMAIN pc
      /\ \A t \in Chat!Turns : (Busy(t)' => Busy(t)) /\ (Early(t)' => Early(t))
      /\ \A t \in Chat!Turns : pc'[t] # "new" => t \in 1..(next' - 1)
  <2>1. \A t \in Chat!Turns : pc[t] # "new" => t \in 1..(next - 1)
    BY DEF SessionInv, HeapInv
  <2>2. next \in Nat /\ next' \in Nat /\ DOMAIN pc = Chat!Turns
    BY <1>2 DEF SessionInv, HeapInv
  <2>3. \/ pc' = pc /\ next' = next
        \/ next' = next + 1 /\ next \in Chat!Turns /\ pc' = [pc EXCEPT ![next] = "posted"]
        \/ next' = next /\ \E u \in Chat!Turns : pc[u] = "asked" /\ pc' = [pc EXCEPT ![u] = "saving"]
    BY DEF Chat!Forget, Chat!Persist, Chat!Post, Chat!ShowsAnswer, Chat!NoAnswer, Chat!Go
  <2>4. pc[next] = "new" \/ next \notin Chat!Turns
    BY <2>1, <2>2
  <2>5. CASE pc' = pc /\ next' = next
    BY <2>1, <2>5 DEF Busy, Early
  <2>6. CASE next' = next + 1 /\ next \in Chat!Turns /\ pc' = [pc EXCEPT ![next] = "posted"]
    <3>1. ASSUME NEW t \in Chat!Turns
          PROVE  pc'[t] = IF t = next THEN "posted" ELSE pc[t]
      BY <2>2, <2>6
    <3>2. DOMAIN pc' = DOMAIN pc
      BY <2>6
    <3>3. next \in 1..(next' - 1) /\ \A t \in 1..(next - 1) : t \in 1..(next' - 1)
      BY <1>2, <2>2, <2>6 DEF SessionInv, HeapInv
    <3> QED  BY <2>1, <2>4, <2>6, <3>1, <3>2, <3>3 DEF Busy, Early
  <2>7. CASE next' = next /\ \E u \in Chat!Turns : pc[u] = "asked" /\ pc' = [pc EXCEPT ![u] = "saving"]
    BY <2>1, <2>2, <2>7 DEF Busy, Early
  <2> QED  BY <2>3, <2>5, <2>6, <2>7
<1>5. RowsInv'
  <2>1. CASE Chat!Persist
    <3>1. next - 1 \in Nat
      BY DEF SessionInv, HeapInv
    <3> QED  BY <2>1, <3>1, <1>1, PairsTyped, SameSession DEF RowsInv, Chat!Persist, Chat!Asked
  <2>2. CASE ~Chat!Persist
    <3>1. rows' = rows
      BY <2>2 DEF Chat!Forget, Chat!Post, Chat!ShowsAnswer, Chat!NoAnswer
    <3> QED  BY <1>1, <3>1, SameSession DEF SessionInv, RowsInv
  <2> QED  BY <2>1, <2>2
<1> QED  BY <1>1, <1>2, <1>3, <1>4, <1>5, SessionRests

(* Steps that change the object of one turn, and what the turn works on. *)
LEMMA ObjectStep ==
    ASSUME SessionInv, scene' = scene, next' = next, rows' = rows, DOMAIN heap' = Chat!Turns,
           mine' \in [Chat!Turns -> Chat!Turns], DOMAIN pc' = Chat!Turns,
           \A t \in Chat!Turns : /\ Chat!Owner(mine'[t]) = Chat!Owner(t)
                                 /\ ~Chat!Memory \/ Early(t)' => mine'[t] = t
                                 /\ Busy(t)' => Owns(mine'[t], heap'[mine'[t]])
                                 /\ pc'[t] # "new" => t \in 1..(next - 1),
           \A u \in Chat!Turns : DOMAIN heap'[u] = SessionFields /\ heap'[u].msgs \in Seq(MessagesOf(Chat!Owner(u))),
           DOMAIN kept' = SessionFields, kept'.msgs \in Seq(MessagesOf(kept'.owner)),
           kept' # Chat!NoSession => /\ kept'.object \in Chat!Turns /\ Chat!Owner(kept'.object) = kept'.owner
                                     /\ Chat!Memory => Owns(kept'.object, heap'[kept'.object])
    PROVE  SessionInv'
<1>1. HeapInv'
  BY SameSession DEF SessionInv, HeapInv, Owns
<1>2. KeptInv'
  <2>1. Chat!NoSession' = Chat!NoSession
    BY DEF Chat!NoSession
  <2> QED  BY <2>1, SameSession DEF KeptInv, Owns
<1>3. RowsInv'
  BY SameSession DEF SessionInv, RowsInv
<1> QED  BY <1>1, <1>2, <1>3 DEF SessionInv

LEMMA FreshOwns ==
    ASSUME NEW t \in Chat!Turns
    PROVE  /\ Owns(t, Chat!Fresh(t)) /\ DOMAIN Chat!Fresh(t) = SessionFields
           /\ Chat!Fresh(t).msgs \in Seq(MessagesOf(Chat!Owner(t)))
           /\ Chat!Fresh(t).owner = Chat!Owner(t) /\ Chat!Fresh(t).object = t
<1>1. \A M : <<>> \in Seq(M)
  OBVIOUS
<1> QED  BY <1>1 DEF Owns, Chat!Fresh, SessionFields

(* What is found in the store is worked on: the object of it, or a copy. *)
LEMMA SessionLooks ==
    ASSUME SessionInv, NEW t \in Chat!Turns, NEW fails \in BOOLEAN, Chat!Look(t, fails)
    PROVE  SessionInv'
<1>1. /\ scene' = scene /\ next' = next /\ rows' = rows /\ kept' = kept /\ pc[t] = "posted"
      /\ next \in Nat \ {0} /\ mine \in [Chat!Turns -> Chat!Turns]
      /\ DOMAIN pc = Chat!Turns /\ DOMAIN heap = Chat!Turns
  BY DEF Chat!Look, SessionInv, HeapInv
<1>2. \A u \in Chat!Turns : /\ Chat!Owner(mine[u]) = Chat!Owner(u)
                            /\ ~Chat!Memory \/ Early(u) => mine[u] = u
                            /\ Busy(u) => Owns(mine[u], heap[mine[u]])
                            /\ pc[u] # "new" => u \in 1..(next - 1)
                            /\ DOMAIN heap[u] = SessionFields /\ heap[u].msgs \in Seq(MessagesOf(Chat!Owner(u)))
  BY DEF SessionInv, HeapInv
<1>3. /\ DOMAIN kept = SessionFields /\ kept.msgs \in Seq(MessagesOf(kept.owner))
      /\ kept # Chat!NoSession => /\ kept.object \in Chat!Turns /\ Chat!Owner(kept.object) = kept.owner
                                  /\ Chat!Memory => Owns(kept.object, heap[kept.object])
  BY DEF SessionInv, KeptInv
<1>4. CASE fails \/ ~Chat!Usable(kept, t)
  <2>1. /\ heap' = heap /\ mine' = mine
        /\ \E where \in {"missed", "foreign"} : pc' = [pc EXCEPT ![t] = where]
    BY <1>4 DEF Chat!Look, Chat!Go
  <2>2. /\ DOMAIN pc' = DOMAIN pc
        /\ \A u \in Chat!Turns : (Busy(u)' => Busy(u)) /\ (Early(u)' => Early(u))
        /\ \A u \in Chat!Turns : pc'[u] # "new" => u \in 1..(next' - 1)
    BY <1>1, <1>2, <2>1 DEF Busy, Early
  <2>3. RowsInv'
    BY <1>1, SameSession DEF SessionInv, RowsInv
  <2> QED  BY <1>1, <2>1, <2>2, <2>3, SessionRests
<1>5. ASSUME ~(fails \/ ~Chat!Usable(kept, t))
      PROVE  /\ pc' = [pc EXCEPT ![t] = "found"]
             /\ kept # Chat!NoSession /\ kept.owner = Chat!Owner(t)
             /\ IF Chat!Memory THEN mine' = [mine EXCEPT ![t] = kept.object] /\ heap' = heap
                ELSE heap' = [heap EXCEPT ![t] = [kept EXCEPT !.object = t]] /\ mine' = mine
  BY <1>5 DEF Chat!Look, Chat!Go, Chat!Usable
<1>6. CASE ~(fails \/ ~Chat!Usable(kept, t)) /\ Chat!Memory
  <2>1. /\ kept.object \in Chat!Turns /\ Chat!Owner(kept.object) = Chat!Owner(t)
        /\ Owns(kept.object, heap[kept.object])
    BY <1>3, <1>5, <1>6
  <2>2. ASSUME NEW u \in Chat!Turns
        PROVE  /\ Chat!Owner(mine'[u]) = Chat!Owner(u)
               /\ ~Chat!Memory \/ Early(u)' => mine'[u] = u
               /\ Busy(u)' => Owns(mine'[u], heap'[mine'[u]])
               /\ pc'[u] # "new" => u \in 1..(next - 1)
    <3>1. CASE u = t
      BY <1>1, <1>2, <1>5, <1>6, <2>1, <3>1 DEF Early
    <3>2. CASE u # t
      BY <1>1, <1>2, <1>5, <1>6, <3>2 DEF Early, Busy
    <3> QED  BY <3>1, <3>2
  <2>3. mine' \in [Chat!Turns -> Chat!Turns] /\ DOMAIN pc' = Chat!Turns /\ heap' = heap
    BY <1>1, <1>5, <1>6, <2>1
  <2> QED  BY <1>1, <1>2, <1>3, <2>2, <2>3, ObjectStep
<1>7. CASE ~(fails \/ ~Chat!Usable(kept, t)) /\ ~Chat!Memory
  <2>1. heap' = [heap EXCEPT ![t] = [kept EXCEPT !.object = t]] /\ mine' = mine
    BY <1>5, <1>7
  <2>2. Owns(t, heap'[t]) /\ DOMAIN heap'[t] = SessionFields /\ heap'[t].msgs \in Seq(MessagesOf(Chat!Owner(t)))
    <3>1. heap'[t] = [kept EXCEPT !.object = t] /\ kept.owner = Chat!Owner(t)
      BY <1>1, <1>5, <1>7, <2>1
    <3> QED  BY <1>3, <3>1 DEF Owns, SessionFields
  <2>3. ASSUME NEW u \in Chat!Turns
        PROVE  /\ DOMAIN heap'[u] = SessionFields /\ heap'[u].msgs \in Seq(MessagesOf(Chat!Owner(u)))
               /\ pc'[u] # "new" => u \in 1..(next - 1)
               /\ mine'[u] = u
               /\ Busy(u)' => Owns(u, heap'[u])
    <3>1. CASE u = t
      BY <1>1, <1>2, <1>7, <2>1, <2>2, <3>1
    <3>2. CASE u # t
      BY <1>1, <1>2, <1>5, <1>7, <2>1, <3>2 DEF Busy
    <3> QED  BY <3>1, <3>2
  <2>4. DOMAIN heap' = Chat!Turns /\ DOMAIN pc' = Chat!Turns /\ mine' \in [Chat!Turns -> Chat!Turns]
    BY <1>1, <1>5, <1>7, <2>1
  <2>5. ASSUME NEW u \in Chat!Turns
        PROVE  /\ Chat!Owner(mine'[u]) = Chat!Owner(u)
               /\ ~Chat!Memory \/ Early(u)' => mine'[u] = u
               /\ Busy(u)' => Owns(mine'[u], heap'[mine'[u]])
               /\ pc'[u] # "new" => u \in 1..(next - 1)
    BY <2>3
  <2>6. /\ DOMAIN kept' = SessionFields /\ kept'.msgs \in Seq(MessagesOf(kept'.owner))
        /\ kept' # Chat!NoSession => /\ kept'.object \in Chat!Turns /\ Chat!Owner(kept'.object) = kept'.owner
                                     /\ Chat!Memory => Owns(kept'.object, heap'[kept'.object])
    BY <1>1, <1>3, <1>7
  <2> QED  BY <1>1, <2>3, <2>4, <2>5, <2>6, ObjectStep
<1> QED  BY <1>4, <1>6, <1>7

(* What a turn has of its own is saved over what the store has by then. *)
LEMMA SessionCreates ==
    ASSUME SessionInv, NEW t \in Chat!Turns, NEW fails \in BOOLEAN, Chat!Create(t, fails)
    PROVE  SessionInv'
<1>1. /\ scene' = scene /\ next' = next /\ rows' = rows /\ mine' = mine /\ pc[t] = "missed"
      /\ mine \in [Chat!Turns -> Chat!Turns] /\ DOMAIN pc = Chat!Turns /\ DOMAIN heap = Chat!Turns
      /\ pc' = [pc EXCEPT ![t] = "got"] /\ heap' = [heap EXCEPT ![t] = Chat!Fresh(t)]
      /\ kept' = kept \/ kept' = Chat!Fresh(t)
  BY DEF Chat!Create, Chat!Go, SessionInv, HeapInv
<1>2. \A u \in Chat!Turns : /\ mine[u] \in Chat!Turns /\ Chat!Owner(mine[u]) = Chat!Owner(u)
                            /\ ~Chat!Memory \/ Early(u) => mine[u] = u
                            /\ Busy(u) => Owns(mine[u], heap[mine[u]])
                            /\ pc[u] # "new" => u \in 1..(next - 1)
                            /\ DOMAIN heap[u] = SessionFields /\ heap[u].msgs \in Seq(MessagesOf(Chat!Owner(u)))
  BY DEF SessionInv, HeapInv
<1>3. /\ DOMAIN kept = SessionFields /\ kept.msgs \in Seq(MessagesOf(kept.owner))
      /\ kept # Chat!NoSession => /\ kept.object \in Chat!Turns /\ Chat!Owner(kept.object) = kept.owner
                                  /\ Chat!Memory => Owns(kept.object, heap[kept.object])
  BY DEF SessionInv, KeptInv
<1>4. ASSUME NEW u \in Chat!Turns
      PROVE  /\ DOMAIN heap'[u] = SessionFields /\ heap'[u].msgs \in Seq(MessagesOf(Chat!Owner(u)))
             /\ Owns(u, heap[u]) \/ u = t => Owns(u, heap'[u])
  <2>1. CASE u = t
    BY <1>1, <2>1, FreshOwns
  <2>2. CASE u # t
    BY <1>1, <1>2, <2>2
  <2> QED  BY <2>1, <2>2
<1>5. ASSUME NEW u \in Chat!Turns
      PROVE  /\ Chat!Owner(mine'[u]) = Chat!Owner(u)
             /\ ~Chat!Memory \/ Early(u)' => mine'[u] = u
             /\ Busy(u)' => Owns(mine'[u], heap'[mine'[u]])
             /\ pc'[u] # "new" => u \in 1..(next - 1)
  <2>1. mine[t] = t
    BY <1>1, <1>2 DEF Early
  <2>2. /\ ~Chat!Memory \/ Early(u)' => ~Chat!Memory \/ Early(u)
        /\ Busy(u)' => Busy(u) \/ u = t
        /\ pc'[u] # "new" => pc[u] # "new"
    BY <1>1 DEF Early, Busy
  <2> QED  BY <1>1, <1>2, <1>4, <2>1, <2>2
<1>6. /\ DOMAIN kept' = SessionFields /\ kept'.msgs \in Seq(MessagesOf(kept'.owner))
      /\ kept' # Chat!NoSession => /\ kept'.object \in Chat!Turns /\ Chat!Owner(kept'.object) = kept'.owner
                                   /\ Chat!Memory => Owns(kept'.object, heap'[kept'.object])
  BY <1>1, <1>3, <1>4, FreshOwns
<1>7. DOMAIN heap' = Chat!Turns /\ DOMAIN pc' = Chat!Turns /\ mine' \in [Chat!Turns -> Chat!Turns]
  BY <1>1
<1> QED  BY <1>1, <1>4, <1>5, <1>6, <1>7, ObjectStep

(* What is saved of the session of a turn is its owner's. *)
LEMMA StoredOwns ==
    ASSUME SessionInv, NEW t \in Chat!Turns, Busy(t)
    PROVE  /\ DOMAIN Chat!Stored(t) = SessionFields /\ Chat!Stored(t).msgs \in Seq(MessagesOf(Chat!Stored(t).owner))
           /\ Chat!Stored(t).object \in Chat!Turns /\ Chat!Owner(Chat!Stored(t).object) = Chat!Stored(t).owner
           /\ Chat!Memory => Chat!Stored(t).object = mine[t]
           /\ mine[t] \in Chat!Turns /\ Owns(mine[t], heap[mine[t]])
<1>1. /\ mine[t] \in Chat!Turns /\ Owns(mine[t], heap[mine[t]])
      /\ DOMAIN heap[mine[t]] = SessionFields /\ heap[mine[t]].msgs \in Seq(MessagesOf(Chat!Owner(mine[t])))
  BY DEF SessionInv, HeapInv
<1>2. CASE Chat!Memory
  <2>1. Chat!Stored(t) = [heap[mine[t]] EXCEPT !.object = mine[t], !.msgs = <<>>]
    BY <1>2 DEF Chat!Stored, Chat!Session
  <2>2. /\ DOMAIN Chat!Stored(t) = SessionFields /\ Chat!Stored(t).msgs = <<>>
        /\ Chat!Stored(t).owner = Chat!Owner(mine[t]) /\ Chat!Stored(t).object = mine[t]
    BY <1>1, <2>1 DEF Owns, SessionFields
  <2>3. <<>> \in Seq(MessagesOf(Chat!Stored(t).owner))
    OBVIOUS
  <2> QED  BY <1>1, <2>2, <2>3
<1>3. CASE ~Chat!Memory
  <2>1. Chat!Stored(t) = heap[mine[t]]
    BY <1>3 DEF Chat!Stored, Chat!Session
  <2> QED  BY <1>1, <1>3, <2>1 DEF Owns
<1> QED  BY <1>2, <1>3

(* A session that was found is saved again, one of another owner deleted. *)
LEMMA SessionKeeps ==
    ASSUME SessionInv, NEW t \in Chat!Turns, NEW fails \in BOOLEAN, Chat!Delete(t, fails) \/ Chat!Touch(t, fails)
    PROVE  SessionInv'
<1>1. /\ scene' = scene /\ next' = next /\ rows' = rows /\ heap' = heap /\ mine' = mine
      /\ next \in Nat \ {0} /\ mine \in [Chat!Turns -> Chat!Turns]
      /\ DOMAIN pc = Chat!Turns /\ DOMAIN heap = Chat!Turns
      /\ \A u \in Chat!Turns : pc[u] # "new" => u \in 1..(next - 1)
  BY DEF Chat!Delete, Chat!Touch, SessionInv, HeapInv
<1>2. CASE Chat!Delete(t, fails)
  <2>1. pc[t] = "foreign" /\ pc' = [pc EXCEPT ![t] = "missed"] /\ (kept' = kept \/ kept' = Chat!NoSession)
    BY <1>2 DEF Chat!Delete, Chat!Go
  <2>2. /\ DOMAIN pc' = DOMAIN pc
        /\ \A u \in Chat!Turns : (Busy(u)' => Busy(u)) /\ (Early(u)' => Early(u))
        /\ \A u \in Chat!Turns : pc'[u] # "new" => u \in 1..(next' - 1)
    BY <1>1, <2>1 DEF Busy, Early
  <2>3. RowsInv'
    BY <1>1, SameSession DEF SessionInv, RowsInv
  <2> QED  BY <1>1, <2>1, <2>2, <2>3, SessionRests
<1>3. CASE Chat!Touch(t, fails)
  <2>1. pc[t] = "found" /\ pc' = [pc EXCEPT ![t] = "got"] /\ (kept' = kept \/ kept' = Chat!Stored(t))
    BY <1>3 DEF Chat!Touch, Chat!Go
  <2>2. \A u \in Chat!Turns : /\ Chat!Owner(mine[u]) = Chat!Owner(u)
                              /\ ~Chat!Memory \/ Early(u) => mine[u] = u
                              /\ Busy(u) => Owns(mine[u], heap[mine[u]])
                              /\ DOMAIN heap[u] = SessionFields /\ heap[u].msgs \in Seq(MessagesOf(Chat!Owner(u)))
    BY DEF SessionInv, HeapInv
  <2>3. ASSUME NEW u \in Chat!Turns
        PROVE  (Busy(u)' => Busy(u)) /\ (Early(u)' => Early(u)) /\ (pc'[u] # "new" => u \in 1..(next - 1))
    BY <1>1, <2>1 DEF Busy, Early
  <2>4. /\ DOMAIN kept' = SessionFields /\ kept'.msgs \in Seq(MessagesOf(kept'.owner))
        /\ kept' # Chat!NoSession => /\ kept'.object \in Chat!Turns /\ Chat!Owner(kept'.object) = kept'.owner
                                     /\ Chat!Memory => Owns(kept'.object, heap'[kept'.object])
    <3>1. CASE kept' = kept
      BY <1>1, <3>1 DEF SessionInv, KeptInv
    <3>2. CASE kept' = Chat!Stored(t)
      <4>1. Busy(t)
        BY <2>1 DEF Busy
      <4> HIDE DEF Busy
      <4> QED  BY <1>1, <3>2, <4>1, StoredOwns
    <3> QED  BY <2>1, <3>1, <3>2
  <2>5. DOMAIN pc' = Chat!Turns /\ DOMAIN heap' = Chat!Turns
    BY <1>1, <2>1
  <2>6. ASSUME NEW u \in Chat!Turns
        PROVE  /\ Chat!Owner(mine'[u]) = Chat!Owner(u)
               /\ ~Chat!Memory \/ Early(u)' => mine'[u] = u
               /\ Busy(u)' => Owns(mine'[u], heap'[mine'[u]])
               /\ pc'[u] # "new" => u \in 1..(next - 1)
    BY <1>1, <2>2, <2>3
  <2> QED  BY <1>1, <2>2, <2>4, <2>5, <2>6, ObjectStep
<1> QED  BY <1>2, <1>3

(* Steps that change the messages of the session a turn works on. *)
LEMMA MessagesStep ==
    ASSUME SessionInv, NEW t \in Chat!Turns, NEW where \in {"ready", "fetching", "asked", "saving"},
           Busy(t), Chat!Go(t, where), UNCHANGED <<scene, next, rows, mine, kept>>,
           heap' = heap \/ \E msgs \in Seq(MessagesOf(Chat!Owner(t))) : Chat!SetMessages(t, msgs)
    PROVE  SessionInv'
<1>1. /\ \A u \in Chat!Turns : /\ mine[u] \in Chat!Turns /\ Chat!Owner(mine[u]) = Chat!Owner(u)
                               /\ ~Chat!Memory \/ Early(u) => mine[u] = u
                               /\ Busy(u) => Owns(mine[u], heap[mine[u]])
                               /\ pc[u] # "new" => u \in 1..(next - 1)
      /\ \A u \in Chat!Turns : DOMAIN heap[u] = SessionFields /\ heap[u].msgs \in Seq(MessagesOf(Chat!Owner(u)))
  BY DEF SessionInv, HeapInv
<1>2. /\ DOMAIN heap = Chat!Turns /\ DOMAIN pc = Chat!Turns /\ mine \in [Chat!Turns -> Chat!Turns]
      /\ pc' = [pc EXCEPT ![t] = where]
  BY DEF SessionInv, HeapInv, Chat!Go
<1>3. /\ DOMAIN kept = SessionFields /\ kept.msgs \in Seq(MessagesOf(kept.owner))
      /\ kept # Chat!NoSession => /\ kept.object \in Chat!Turns /\ Chat!Owner(kept.object) = kept.owner
                                  /\ Chat!Memory => Owns(kept.object, heap[kept.object])
  BY DEF SessionInv, KeptInv
<1>4. ASSUME NEW u \in Chat!Turns
      PROVE  /\ DOMAIN heap'[u] = SessionFields /\ heap'[u].msgs \in Seq(MessagesOf(Chat!Owner(u)))
             /\ heap'[u].owner = heap[u].owner /\ heap'[u].object = heap[u].object
  <2>1. CASE heap' = heap
    BY <1>1, <2>1
  <2>2. ASSUME NEW msgs \in Seq(MessagesOf(Chat!Owner(t))), Chat!SetMessages(t, msgs)
        PROVE  /\ DOMAIN heap'[u] = SessionFields /\ heap'[u].msgs \in Seq(MessagesOf(Chat!Owner(u)))
               /\ heap'[u].owner = heap[u].owner /\ heap'[u].object = heap[u].object
    <3>1. heap' = [heap EXCEPT ![mine[t]] = [heap[mine[t]] EXCEPT !.msgs = msgs]]
      BY <2>2 DEF Chat!SetMessages
    <3>2. CASE u = mine[t]
      <4>1. heap'[u] = [heap[u] EXCEPT !.msgs = msgs]
        BY <1>2, <3>1, <3>2
      <4>2. Chat!Owner(u) = Chat!Owner(t) /\ DOMAIN heap[u] = SessionFields
        BY <1>1, <3>2
      <4> QED  BY <4>1, <4>2 DEF SessionFields
    <3>3. CASE u # mine[t]
      BY <1>1, <1>2, <3>1, <3>3
    <3> QED  BY <3>2, <3>3
  <2> QED  BY <2>1, <2>2
<1>5. DOMAIN heap' = Chat!Turns /\ DOMAIN pc' = Chat!Turns
  BY <1>2 DEF Chat!SetMessages
<1>6. ASSUME NEW u \in Chat!Turns
      PROVE  /\ ~Chat!Memory \/ Early(u)' => mine[u] = u
             /\ Busy(u)' => Busy(u)
             /\ pc'[u] # "new" => u \in 1..(next - 1)
  BY <1>1, <1>2 DEF Busy, Early
<1>7. ASSUME NEW u \in Chat!Turns, Owns(u, heap[u]) PROVE Owns(u, heap'[u])
  BY <1>4, <1>7 DEF Owns
<1>8. kept' # Chat!NoSession => /\ kept'.object \in Chat!Turns /\ Chat!Owner(kept'.object) = kept'.owner
                                /\ Chat!Memory => Owns(kept'.object, heap'[kept'.object])
  BY <1>3, <1>7
<1>9. ASSUME NEW u \in Chat!Turns PROVE Busy(u)' => Owns(mine[u], heap'[mine[u]])
  BY <1>1, <1>6, <1>7
<1> HIDE DEF Busy, Early, Owns
<1> QED  BY <1>1, <1>2, <1>3, <1>4, <1>5, <1>6, <1>8, <1>9, ObjectStep

\* What the browser sends, and the rows of the thread, are of the owner of the turn.
LEMMA HistoryTyped ==
    ASSUME SessionInv, NEW t \in Chat!Turns, Busy(t)
    PROVE  /\ t \in Nat /\ Chat!ClientHistory(t) \in Seq(MessagesOf(Chat!Owner(t)))
           /\ Chat!Owner(t) = Chat!Owner(1) =>
                 \A order \in Chat!Orders(rows) :
                    Chat!Mapped(Chat!Trim(t, Chat!Latest(order))) \in Seq(MessagesOf(Chat!Owner(t)))
           /\ \A x \in {"q", "a"} : Append(Chat!Session(t).msgs, <<t, x>>) \in Seq(MessagesOf(Chat!Owner(t)))
<1>1. /\ t \in 1..(next - 1) /\ next \in Nat /\ mine[t] \in Chat!Turns /\ Chat!Owner(mine[t]) = Chat!Owner(t)
      /\ heap[mine[t]].msgs \in Seq(MessagesOf(Chat!Owner(mine[t])))
  BY DEF SessionInv, HeapInv, Busy
<1>2. t \in Nat /\ t - 1 \in Nat
  BY <1>1
<1>3. Chat!ClientHistory(t) \in Seq(MessagesOf(Chat!Owner(t)))
  <2>1. CASE Chat!Owner(t) # Chat!Owner(1)
    <3>1. <<>> \in Seq(MessagesOf(Chat!Owner(t)))
      OBVIOUS
    <3> QED  BY <2>1, <3>1 DEF Chat!ClientHistory
  <2>2. CASE Chat!Owner(t) = Chat!Owner(1)
    BY <1>2, <2>2, PairsTyped DEF Chat!ClientHistory
  <2> QED  BY <2>1, <2>2
<1>4. ASSUME Chat!Owner(t) = Chat!Owner(1), NEW order \in Chat!Orders(rows)
      PROVE  Chat!Mapped(Chat!Trim(t, Chat!Latest(order))) \in Seq(MessagesOf(Chat!Owner(t)))
  <2>1. Chat!Latest(order) \in Seq(MessagesOf(Chat!Owner(t)))
    BY <1>4, OrdersTyped, LatestTyped DEF SessionInv, RowsInv
  <2> QED  BY <2>1, TrimTyped, MappedTyped
<1>5. ASSUME NEW x \in {"q", "a"} PROVE Append(Chat!Session(t).msgs, <<t, x>>) \in Seq(MessagesOf(Chat!Owner(t)))
  <2>1. <<t, x>> \in MessagesOf(Chat!Owner(t))
    BY <1>2 DEF MessagesOf
  <2>2. Chat!Session(t).msgs \in Seq(MessagesOf(Chat!Owner(t)))
    BY <1>1 DEF Chat!Session
  <2> QED  BY <2>1, <2>2
<1> QED  BY <1>2, <1>3, <1>4, <1>5

LEMMA SessionSpeaks ==
    ASSUME SessionInv, NEW t \in Chat!Turns,
           Chat!Hydrate(t) \/ Chat!Ask(t) \/ Chat!Answer(t) \/ \E fails \in BOOLEAN : Chat!Fetched(t, fails)
    PROVE  SessionInv'
<1>1. Busy(t) /\ UNCHANGED <<scene, next, rows, mine, kept>>
  BY DEF Chat!Hydrate, Chat!Ask, Chat!Answer, Chat!Fetched, Busy
<1>2. \E where \in {"ready", "fetching", "asked", "saving"} : Chat!Go(t, where)
  BY DEF Chat!Hydrate, Chat!Ask, Chat!Answer, Chat!Fetched
<1> DEFINE M == Seq(MessagesOf(Chat!Owner(t)))
           Speaks == heap' = heap \/ \E msgs \in M : Chat!SetMessages(t, msgs)
<1>3. /\ <<>> \in M /\ Chat!ClientHistory(t) \in M
      /\ Chat!Owner(t) = Chat!Owner(1) =>
            \A order \in Chat!Orders(rows) : Chat!Mapped(Chat!Trim(t, Chat!Latest(order))) \in M
      /\ \A x \in {"q", "a"} : Append(Chat!Session(t).msgs, <<t, x>>) \in M
  BY <1>1, HistoryTyped
<1> HIDE DEF M
<1>4. ASSUME Chat!Hydrate(t) PROVE Speaks
  BY <1>3, <1>4 DEF Chat!Hydrate
<1>5. ASSUME Chat!Ask(t) \/ Chat!Answer(t) PROVE Speaks
  BY <1>3, <1>5 DEF Chat!Ask, Chat!Answer
<1>6. ASSUME NEW fails \in BOOLEAN, Chat!Fetched(t, fails) PROVE Speaks
  <2> DEFINE found(order) == IF fails \/ Chat!Owner(t) # Chat!Owner(1) THEN <<>>
                             ELSE Chat!Mapped(Chat!Trim(t, Chat!Latest(order)))
  <2>1. \A order \in Chat!Orders(rows) : found(order) \in M
    BY <1>3
  <2>2. PICK order \in Chat!Orders(rows) :
           \/ Chat!SetMessages(t, found(order)) \/ Chat!SetMessages(t, Chat!ClientHistory(t))
           \/ heap' = heap \/ Chat!SetMessages(t, <<>>)
    BY <1>6 DEF Chat!Fetched
  <2> HIDE DEF found
  <2> QED  BY <1>3, <2>1, <2>2
<1>7. Speaks
  BY <1>4, <1>5, <1>6
<1> QED  BY <1>1, <1>2, <1>7, MessagesStep DEF M

LEMMA SessionSaves ==
    ASSUME SessionInv, NEW t \in Chat!Turns, NEW fails \in BOOLEAN, Chat!Save(t, fails)
    PROVE  SessionInv'
<1>1. /\ \A u \in Chat!Turns : /\ mine[u] \in Chat!Turns /\ Chat!Owner(mine[u]) = Chat!Owner(u)
                               /\ ~Chat!Memory \/ Early(u) => mine[u] = u
                               /\ Busy(u) => Owns(mine[u], heap[mine[u]])
                               /\ pc[u] # "new" => u \in 1..(next - 1)
      /\ \A u \in Chat!Turns : DOMAIN heap[u] = SessionFields /\ heap[u].msgs \in Seq(MessagesOf(Chat!Owner(u)))
  BY DEF SessionInv, HeapInv
<1>2. /\ scene' = scene /\ next' = next /\ rows' = rows /\ mine' = mine
      /\ DOMAIN pc = Chat!Turns /\ mine \in [Chat!Turns -> Chat!Turns]
      /\ pc[t] = "saving" /\ pc' = [pc EXCEPT ![t] = "done"] /\ (fails => ~Chat!Memory)
  BY DEF SessionInv, HeapInv, Chat!Go, Chat!Save
<1>3. /\ DOMAIN kept = SessionFields /\ kept.msgs \in Seq(MessagesOf(kept.owner))
      /\ kept # Chat!NoSession => /\ kept.object \in Chat!Turns /\ Chat!Owner(kept.object) = kept.owner
                                  /\ Chat!Memory => Owns(kept.object, heap[kept.object])
  BY DEF SessionInv, KeptInv
<1>4. heap' = [u \in Chat!Turns |-> IF Chat!Refers(kept', u) \/ u \in {mine[v] : v \in Chat!Active \ {t}}
                                    THEN heap[u] ELSE Chat!NoSession]
  BY DEF Chat!Save
<1>5. ASSUME NEW u \in Chat!Turns
      PROVE  DOMAIN heap'[u] = SessionFields /\ heap'[u].msgs \in Seq(MessagesOf(Chat!Owner(u)))
  <2>1. heap'[u] = heap[u] \/ heap'[u] = Chat!NoSession
    BY <1>4
  <2>2. <<>> \in Seq(MessagesOf(Chat!Owner(u)))
    OBVIOUS
  <2>3. DOMAIN Chat!NoSession = SessionFields /\ Chat!NoSession.msgs = <<>>
    BY DEF Chat!NoSession, SessionFields
  <2> QED  BY <1>1, <2>1, <2>2, <2>3
<1>6. ASSUME NEW u \in Chat!Turns
      PROVE  /\ ~Chat!Memory \/ Early(u)' => mine[u] = u
             /\ Busy(u)' => Busy(u) /\ u # t
             /\ pc'[u] # "new" => u \in 1..(next - 1)
  BY <1>1, <1>2 DEF Busy, Early
<1>7. ASSUME NEW u \in Chat!Turns, Busy(u)' PROVE Owns(mine[u], heap'[mine[u]])
  <2>1. Busy(u) /\ u # t
    BY <1>6, <1>7
  <2>2. u \in Chat!Active \ {t}
    BY <2>1 DEF Busy, Chat!Active
  <2>3. heap'[mine[u]] = heap[mine[u]]
    BY <1>1, <1>4, <2>2
  <2> QED  BY <1>1, <2>1, <2>3
<1>8. Owns(mine[t], heap[mine[t]]) /\ mine[t] \in Chat!Turns
  BY <1>1, <1>2 DEF Busy
<1>9. /\ DOMAIN kept' = SessionFields /\ kept'.msgs \in Seq(MessagesOf(kept'.owner))
      /\ kept' # Chat!NoSession => /\ kept'.object \in Chat!Turns /\ Chat!Owner(kept'.object) = kept'.owner
                                   /\ Chat!Memory => Owns(kept'.object, heap'[kept'.object])
  <2>1. CASE fails
    BY <1>2, <1>3, <2>1 DEF Chat!Save
  <2>2. CASE ~fails
    <3>1. kept' = Chat!Stored(t) /\ Busy(t)
      BY <1>2, <2>2 DEF Chat!Save, Busy
    <3>2. Chat!Memory => kept'.object = mine[t]
      BY <3>1, StoredOwns
    <3>3. Chat!Memory => heap'[mine[t]] = heap[mine[t]]
      BY <1>4, <1>8, <3>2 DEF Chat!Refers
    <3> HIDE DEF Busy
    <3> QED  BY <1>8, <3>1, <3>2, <3>3, StoredOwns
  <2> QED  BY <2>1, <2>2
<1>10. DOMAIN heap' = Chat!Turns /\ DOMAIN pc' = Chat!Turns
  BY <1>2, <1>4
<1> QED  BY <1>1, <1>2, <1>5, <1>6, <1>7, <1>9, <1>10, ObjectStep

LEMMA SessionSteps == SessionInv /\ [Chat!Next]_(Chat!vars) => SessionInv'
<1> SUFFICES ASSUME SessionInv, [Chat!Next]_(Chat!vars) PROVE SessionInv'
  OBVIOUS
<1>1. CASE UNCHANGED Chat!vars
  <2>1. UNCHANGED <<scene, next, heap, mine, pc, kept, rows>>
    BY <1>1 DEF Chat!vars
  <2>2. RowsInv'
    BY <2>1, SameSession DEF SessionInv, RowsInv
  <2>3. next' \in Nat \ {0} /\ \A u \in Chat!Turns : pc'[u] # "new" => u \in 1..(next' - 1)
    BY <2>1 DEF SessionInv, HeapInv
  <2> QED  BY <2>1, <2>2, <2>3, SessionRests DEF Busy, Early
<1>2. CASE Chat!Next
  <2>1. \/ Chat!Persist \/ Chat!Forget
        \/ \E t \in Chat!Turns :
               \/ Chat!Post(t) \/ Chat!ShowsAnswer(t) \/ Chat!Hydrate(t)
               \/ Chat!Ask(t) \/ Chat!Answer(t) \/ Chat!NoAnswer(t)
               \/ \E fails \in BOOLEAN :
                      \/ Chat!Look(t, fails) \/ Chat!Delete(t, fails) \/ Chat!Create(t, fails) \/ Chat!Touch(t, fails)
                      \/ Chat!Fetched(t, fails) \/ Chat!Save(t, fails)
    BY <1>2 DEF Chat!Next
  <2> QED  BY <2>1, SessionIdles, SessionLooks, SessionCreates, SessionKeeps, SessionSpeaks, SessionSaves
<1> QED  BY <1>1, <1>2

LEMMA SessionApart == SessionInv => Chat!OwnerIsolated
<1> SUFFICES ASSUME SessionInv, NEW t \in Chat!Turns, NEW m \in Chat!ToSet(Chat!Session(t).msgs)
             PROVE  Chat!Owner(m[1]) = Chat!Owner(t)
  BY DEF Chat!OwnerIsolated
<1>1. mine[t] \in Chat!Turns /\ Chat!Owner(mine[t]) = Chat!Owner(t) /\ heap[mine[t]].msgs \in Seq(MessagesOf(Chat!Owner(mine[t])))
  BY DEF SessionInv, HeapInv
<1>2. PICK i \in DOMAIN heap[mine[t]].msgs : m = heap[mine[t]].msgs[i]
  BY DEF Chat!ToSet, Chat!Session
<1>3. m \in MessagesOf(Chat!Owner(t))
  BY <1>1, <1>2
<1> QED  BY <1>3 DEF MessagesOf

\* The session a turn works on holds nothing of another owner's turns: all
\* turns name the same session, in memory they share its object, in Redis they
\* save over each other, and what a turn fetches comes after the others' steps.
THEOREM OwnersApart == PartSpec => [](part = "session" => Chat!OwnerIsolated)
<1> DEFINE Inv == part = "session" => SessionInv
<1>1. PartInit => Inv
  BY SessionStarts DEF PartInit
<1>2. Inv /\ [PartNext]_all => Inv'
  <2> SUFFICES ASSUME Inv, [PartNext]_all, part' = "session" PROVE SessionInv'
    OBVIOUS
  <2>1. part = "session" /\ SessionInv
    BY DEF PartNext, all
  <2>2. [Chat!Next]_(Chat!vars)
    BY <2>1 DEF PartNext, all, talk, Chat!vars
  <2> QED  BY <2>1, <2>2, SessionSteps
<1>3. Inv => (part = "session" => Chat!OwnerIsolated)
  BY SessionApart
<1> QED  BY <1>1, <1>2, <1>3, PTL DEF PartSpec
=============================================================================
