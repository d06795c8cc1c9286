-------------------------- MODULE PublisherProofs --------------------------
(***************************************************************************)
(* TLAPS proofs about Publisher, for every batch size, ring capacity and   *)
(* bound: the type invariant, that events are neither shed nor overtaken,  *)
(* that no sample is lost uncounted, and that the buffers stay in          *)
(* publication order.                                                      *)
(***************************************************************************)
EXTENDS Publisher, SequenceTheorems, FiniteSetTheorems, TLAPS

-----------------------------------------------------------------------------
(* Lemmas about the operators the flush is built from.                     *)

\* What Numbered(m, n) is: n numbers above m, in order.
LEMMA NumberedFacts ==
    ASSUME NEW m \in Nat, NEW n \in Nat
    PROVE  /\ Numbered(m, n) \in Seq(Nat)
           /\ Range(Numbered(m, n)) = m + 1 .. m + n
           /\ Increasing(Numbered(m, n))
<1>1. Numbered(m, n) \in Seq(Nat) /\ Len(Numbered(m, n)) = n
    BY DEF Numbered
<1>2. Increasing(Numbered(m, n))
    BY <1>1 DEF Numbered, Increasing
<1>3. \A x \in m + 1 .. m + n : x - m \in 1 .. n /\ x = m + (x - m)
    OBVIOUS
<1>4. Range(Numbered(m, n)) = m + 1 .. m + n
    BY <1>3 DEF Numbered, Range
<1> QED BY <1>1, <1>2, <1>4

\* A stretch of a sequence of numbers.
LEMMA SubSeqFacts ==
    ASSUME NEW s \in Seq(Nat), NEW a \in 1 .. Len(s) + 1, NEW b \in 0 .. Len(s)
    PROVE  /\ SubSeq(s, a, b) \in Seq(Nat)
           /\ Len(SubSeq(s, a, b)) = IF a <= b THEN b - a + 1 ELSE 0
           /\ Range(SubSeq(s, a, b)) \subseteq Range(s)
           /\ Increasing(s) => Increasing(SubSeq(s, a, b))
<1>1. a \in Int /\ b \in Int /\ \A i \in a .. b : s[i] \in Nat
    OBVIOUS
<1>2. /\ SubSeq(s, a, b) \in Seq(Nat)
      /\ Len(SubSeq(s, a, b)) = IF a <= b THEN b - a + 1 ELSE 0
      /\ \A i \in 1 .. b - a + 1 : SubSeq(s, a, b)[i] = s[a + i - 1]
    BY <1>1, SubSeqProperties
<1>3. Range(SubSeq(s, a, b)) \subseteq Range(s)
    <2> SUFFICES ASSUME NEW i \in 1 .. Len(SubSeq(s, a, b))
                 PROVE  SubSeq(s, a, b)[i] \in Range(s)
        BY <1>2 DEF Range
    <2>1. a + i - 1 \in 1 .. Len(s) /\ SubSeq(s, a, b)[i] = s[a + i - 1]
        BY <1>2
    <2> QED BY <2>1 DEF Range
<1>4. ASSUME Increasing(s) PROVE Increasing(SubSeq(s, a, b))
    BY <1>2, <1>4 DEF Increasing
<1> QED BY <1>2, <1>3, <1>4

\* Every element of s comes before every element of t.
Before(s, t) == \A x \in Range(s), y \in Range(t) : x < y

\* A concatenation is increasing exactly when its parts are, in this order.
LEMMA IncreasingConcat ==
    ASSUME NEW s \in Seq(Nat), NEW t \in Seq(Nat)
    PROVE  Increasing(s \o t) <=> Increasing(s) /\ Increasing(t) /\ Before(s, t)
<1>0. /\ s \o t \in Seq(Nat)
      /\ Len(s \o t) = Len(s) + Len(t)
      /\ \A i \in 1 .. Len(s) : (s \o t)[i] = s[i]
      /\ \A i \in 1 .. Len(t) : (s \o t)[Len(s) + i] = t[i]
    OBVIOUS
<1>1. ASSUME Increasing(s \o t)
      PROVE  Increasing(s) /\ Increasing(t) /\ Before(s, t)
    <2>1. ASSUME NEW i \in 1 .. Len(s), NEW j \in 1 .. Len(s), i < j
          PROVE  s[i] < s[j]
        <3>1. i \in 1 .. Len(s \o t) /\ j \in 1 .. Len(s \o t)
            BY <1>0
        <3> QED BY <1>0, <1>1, <2>1, <3>1 DEF Increasing
    <2>2. ASSUME NEW i \in 1 .. Len(t), NEW j \in 1 .. Len(t), i < j
          PROVE  t[i] < t[j]
        <3>1. /\ Len(s) + i \in 1 .. Len(s \o t)
              /\ Len(s) + j \in 1 .. Len(s \o t)
              /\ Len(s) + i < Len(s) + j
            BY <1>0, <2>2
        <3> QED BY <1>0, <1>1, <3>1 DEF Increasing
    <2>3. ASSUME NEW i \in 1 .. Len(s), NEW j \in 1 .. Len(t)
          PROVE  s[i] < t[j]
        <3>1. /\ i \in 1 .. Len(s \o t) /\ Len(s) + j \in 1 .. Len(s \o t)
              /\ i < Len(s) + j
            BY <1>0
        <3> QED BY <1>0, <1>1, <3>1 DEF Increasing
    <2>4. Increasing(s) /\ Increasing(t)
        BY <2>1, <2>2 DEF Increasing
    <2>5. Before(s, t)
        <3> SUFFICES ASSUME NEW x \in Range(s), NEW y \in Range(t) PROVE x < y
            BY DEF Before
        <3>1. PICK i \in 1 .. Len(s), j \in 1 .. Len(t) : x = s[i] /\ y = t[j]
            BY DEF Range
        <3> QED BY <2>3, <3>1
    <2> QED BY <2>4, <2>5
<1>2. ASSUME Increasing(s), Increasing(t), Before(s, t)
      PROVE  Increasing(s \o t)
    <2> SUFFICES ASSUME NEW i \in 1 .. Len(s) + Len(t),
                        NEW j \in 1 .. Len(s) + Len(t), i < j
                 PROVE  (s \o t)[i] < (s \o t)[j]
        BY <1>0 DEF Increasing
    <2>1. CASE j <= Len(s)
        BY <1>0, <1>2, <2>1 DEF Increasing
    <2>2. CASE i > Len(s)
        <3>1. /\ i - Len(s) \in 1 .. Len(t) /\ j - Len(s) \in 1 .. Len(t)
              /\ i - Len(s) < j - Len(s)
              /\ (s \o t)[i] = t[i - Len(s)] /\ (s \o t)[j] = t[j - Len(s)]
            BY <2>2
        <3> QED BY <1>2, <3>1 DEF Increasing
    <2>3. CASE i <= Len(s) /\ j > Len(s)
        <3>1. /\ i \in 1 .. Len(s) /\ j - Len(s) \in 1 .. Len(t)
              /\ (s \o t)[i] = s[i] /\ (s \o t)[j] = t[j - Len(s)]
            BY <2>3
        <3>2. s[i] \in Range(s) /\ t[j - Len(s)] \in Range(t)
            BY <3>1 DEF Range
        <3> QED BY <1>2, <3>1, <3>2 DEF Before
    <2> QED BY <2>1, <2>2, <2>3
<1> QED BY <1>1, <1>2

\* What bufferOrShed keeps is the newest part of its argument.
LEMMA KeptFacts ==
    ASSUME NEW s \in Seq(Nat)
    PROVE  /\ Kept(s) \in Seq(Nat)
           /\ Len(Kept(s)) <= RingCap /\ Len(Kept(s)) <= Len(s)
           /\ Range(Kept(s)) \subseteq Range(s)
           /\ Increasing(s) => Increasing(Kept(s))
<1> DEFINE k == Smaller(RingCap, Len(s))
<1>1. k \in 0 .. Len(s) /\ k <= RingCap
    BY PublisherAssumption DEF Smaller
<1>2. Len(s) - k + 1 \in 1 .. Len(s) + 1 /\ Len(s) \in 0 .. Len(s)
    BY <1>1
<1>3. Kept(s) = SubSeq(s, Len(s) - k + 1, Len(s))
    BY DEF Kept
<1> HIDE DEF k
<1>4. /\ Kept(s) \in Seq(Nat)
      /\ Range(Kept(s)) \subseteq Range(s)
      /\ Increasing(s) => Increasing(Kept(s))
      /\ Len(Kept(s)) = IF Len(s) - k + 1 <= Len(s) THEN Len(s) - (Len(s) - k + 1) + 1 ELSE 0
    BY <1>2, <1>3, SubSeqFacts
<1>5. Len(Kept(s)) = k
    BY <1>1, <1>4
<1> QED BY <1>1, <1>4, <1>5, PublisherAssumption

\* The chunk the loop sends and the rest behind it make up what is in hand.
LEMMA ChunkFacts ==
    ASSUME samples \in Seq(Nat)
    PROVE  /\ Chunk \in Seq(Nat) /\ Rest \in Seq(Nat)
           /\ Range(Chunk) \subseteq Range(samples)
           /\ Range(Rest) \subseteq Range(samples)
           /\ Increasing(samples) =>
                 Increasing(Chunk) /\ Increasing(Rest) /\ Before(Chunk, Rest)
<1>1. ChunkLen \in 0 .. Len(samples)
    BY PublisherAssumption DEF ChunkLen, Smaller
<1>2. /\ 1 \in 1 .. Len(samples) + 1 /\ ChunkLen + 1 \in 1 .. Len(samples) + 1
      /\ Len(samples) \in 0 .. Len(samples)
    BY <1>1
<1>3. /\ Chunk \in Seq(Nat) /\ Range(Chunk) \subseteq Range(samples)
      /\ Increasing(samples) => Increasing(Chunk)
    BY <1>1, <1>2, SubSeqFacts DEF Chunk
<1>4. /\ Rest \in Seq(Nat) /\ Range(Rest) \subseteq Range(samples)
      /\ Increasing(samples) => Increasing(Rest)
    BY <1>1, <1>2, SubSeqFacts DEF Rest
<1>5. samples = Chunk \o Rest
    <2>1. samples = SubSeq(samples, 1, Len(samples))
        BY SubSeqFull
    <2>2. /\ 1 \in 1 .. Len(samples) + 1 /\ ChunkLen \in 1 - 1 .. Len(samples)
          /\ Len(samples) \in ChunkLen .. Len(samples)
        BY <1>1
    <2>3. Chunk \o Rest = SubSeq(samples, 1, Len(samples))
        BY <2>2, ConcatAdjacentSubSeq DEF Chunk, Rest
    <2> QED BY <2>1, <2>3
<1>6. Increasing(samples) => Before(Chunk, Rest)
    BY <1>3, <1>4, <1>5, IncreasingConcat
<1> QED BY <1>3, <1>4, <1>6

-----------------------------------------------------------------------------
(* The type invariant.                                                     *)

\* One lemma per group of actions: the type of every variable is kept.
LEMMA TypeNext == TypeOK /\ [Next]_vars => TypeOK'
<1> SUFFICES ASSUME TypeOK, [Next]_vars PROVE TypeOK'
    OBVIOUS
<1> USE PublisherAssumption DEF TypeOK, Attempts
<1>1. CASE PollStart
    BY <1>1 DEF PollStart, queues, flusher, redis
<1>2. CASE Events
    BY <1>2 DEF Events, flusher, redis
<1>3. CASE PollEnd
    BY <1>3 DEF PollEnd, queues, flusher, redis
<1>4. ASSUME NEW n \in 1 .. MaxSamples, Telemetry(n) PROVE TypeOK'
    BY <1>4, NumberedFacts DEF Telemetry, flusher, redis
<1>5. CASE Flush \/ FinalFlush
    <2>1. ring \o pending \in Seq(Nat) /\ <<>> \in Seq(Nat) /\ Len(<<>>) = 0
        OBVIOUS
    <2>2. CASE Flush
        BY <2>1, <2>2 DEF Flush, TakeQueues, pollers, redis
    <2>3. CASE FinalFlush
        BY <2>1, <2>3 DEF FinalFlush, TakeQueues, pollers, redis
    <2> QED BY <1>5, <2>2, <2>3
<1>6. CASE FlushDone
    BY <1>6 DEF FlushDone, pollers, queues, redis
<1>7. CASE EventsSent
    BY <1>7 DEF EventsSent, pollers, queues
<1>8. CASE TelemetrySent
    <2>1. Rest \in Seq(Nat) /\ Range(Chunk) \subseteq Nat
        BY ChunkFacts, RangeOfSeq
    <2>2. telemetryStream' \subseteq Nat
        BY <1>8, <2>1 DEF TelemetrySent
    <2> QED BY <1>8, <2>1, <2>2 DEF TelemetrySent, pollers, queues
<1>9. ASSUME NEW how \in {"refused", "lost"},
             EventsRetry(how) \/ EventsFailed(how)
      PROVE  TypeOK'
    <2>1. CASE EventsRetry(how)
        BY <2>1 DEF EventsRetry, EventsError, Retries, pollers, queues
    <2>2. CASE EventsFailed(how)
        BY <2>2 DEF EventsFailed, EventsError, pollers
    <2> QED BY <1>9, <2>1, <2>2
<1>10. ASSUME NEW how \in {"refused", "lost"},
              TelemetryRetry(how) \/ TelemetryFailed(how)
       PROVE  TypeOK'
    <2>1. Rest \in Seq(Nat) /\ Chunk \in Seq(Nat) /\ Range(Chunk) \subseteq Nat
        BY ChunkFacts, RangeOfSeq
    <2>2. CASE TelemetryRetry(how)
        <3>1. telemetryStream' \subseteq Nat
            BY <2>1, <2>2 DEF TelemetryRetry, TelemetryError
        <3> QED BY <2>2, <3>1 DEF TelemetryRetry, Retries, pollers, queues
    <2>3. CASE TelemetryFailed(how)
        <3>1. ring \o Chunk \in Seq(Nat)
            BY <2>1
        <3>2. /\ Kept(ring \o Chunk) \in Seq(Nat)
              /\ Len(Kept(ring \o Chunk)) <= RingCap
              /\ Len(Kept(ring \o Chunk)) <= Len(ring \o Chunk)
            BY <3>1, KeptFacts
        <3>3. dropped + Len(ring \o Chunk) - Len(Kept(ring \o Chunk)) \in Nat
            BY <3>1, <3>2
        <3>4. telemetryStream' \subseteq Nat
            BY <2>1, <2>3 DEF TelemetryFailed, TelemetryError
        <3>5. ring' \in Seq(Nat) /\ Len(ring') <= RingCap /\ dropped' \in Nat
            BY <2>3, <3>2, <3>3 DEF TelemetryFailed, BufferOrShed
        <3> QED BY <2>1, <2>3, <3>4, <3>5
                DEF TelemetryFailed, BufferOrShed, pollers
    <2> QED BY <1>10, <2>2, <2>3
<1>11. CASE Stop \/ Exit
    BY <1>11 DEF Stop, Exit, pollers, queues, flusher, redis
<1>12. CASE UNCHANGED vars
    BY <1>12 DEF vars, pollers, queues, flusher, redis
<1> QED BY <1>1, <1>2, <1>3, <1>4, <1>5, <1>6, <1>7, <1>8, <1>9, <1>10,
           <1>11, <1>12 DEF Next

\* The publisher's variables keep their types and the ring its capacity.
THEOREM TypeCorrect == Spec => []TypeOK
<1>1. Init => TypeOK
    BY PublisherAssumption DEF Init, TypeOK, Attempts
<1> QED BY <1>1, TypeNext, PTL DEF Spec

-----------------------------------------------------------------------------
(* Events are never shed.                                                  *)

\* A failed or unanswered XADD returns its events to the queue: no step loses
\* an event that was queued, in hand or in Redis.
LEMMA EventsNeverShedNext == TypeOK /\ FlushShape /\ EventsNeverShed /\ [Next]_vars
                             => EventsNeverShed'
<1> SUFFICES ASSUME TypeOK, FlushShape, EventsNeverShed, [Next]_vars
             PROVE  EventsNeverShed'
    OBVIOUS
<1> DEFINE held == Range(batch) \cup Range(events) \cup Range(eventsStream)
<1>0. /\ batch \in Seq(Nat) /\ events \in Seq(Nat) /\ eventsStream \in Seq(Nat)
      /\ madeEvents \in Nat
      /\ pending \in Seq(Nat) /\ ring \in Seq(Nat) /\ samples \in Seq(Nat)
    BY DEF TypeOK
<1>a. /\ batch' \in Seq(Nat) /\ events' \in Seq(Nat) /\ eventsStream' \in Seq(Nat)
    BY TypeNext DEF TypeOK
<1>b. 1 .. madeEvents \subseteq held
    <2>1. Range(batch \o events) = Range(batch) \cup Range(events)
        BY <1>0, RangeConcatenation
    <2> QED BY <2>1 DEF EventsNeverShed
<1>c. SUFFICES 1 .. madeEvents' \subseteq held'
    <2>1. Range(batch' \o events') = Range(batch') \cup Range(events')
        BY <1>a, RangeConcatenation
    <2> QED BY <2>1 DEF EventsNeverShed
<1>d. Range(eventsStream \o batch) = Range(eventsStream) \cup Range(batch)
    BY <1>0, RangeConcatenation
<1>e. Range(batch \o events) = Range(batch) \cup Range(events)
    BY <1>0, RangeConcatenation
<1>f. Range(<<>>) = {}
    BY DEF Range
<1>1. CASE UNCHANGED <<madeEvents, batch, events, eventsStream>>
    BY <1>1, <1>b
<1>2. CASE Events
    <2>1. Range(events') = Range(events) \cup {madeEvents + 1}
        <3> DEFINE one == <<madeEvents + 1>>
        <3>1. events' = events \o one
            BY <1>0, <1>2, AppendIsConcat DEF Events
        <3>2. one \in Seq(Nat) /\ Range(one) = {madeEvents + 1}
            BY <1>0 DEF Range
        <3> HIDE DEF one
        <3>3. Range(events \o one) = Range(events) \cup Range(one)
            BY <1>0, <3>2, RangeConcatenation
        <3> QED BY <3>1, <3>2, <3>3
    <2>2. madeEvents' = madeEvents + 1 /\ batch' = batch /\ eventsStream' = eventsStream
        BY <1>2 DEF Events, flusher, redis
    <2>3. 1 .. madeEvents + 1 = (1 .. madeEvents) \cup {madeEvents + 1}
        BY <1>0
    <2> QED BY <1>b, <2>1, <2>2, <2>3
<1>3. CASE Flush \/ FinalFlush
    <2>1. batch = <<>>
        BY <1>3 DEF Flush, FinalFlush, FlushShape
    <2>2. /\ batch' = events /\ events' = <<>>
          /\ eventsStream' = eventsStream /\ madeEvents' = madeEvents
        BY <1>3 DEF Flush, FinalFlush, TakeQueues, pollers, redis
    <2> QED BY <1>b, <1>f, <2>1, <2>2
<1>4. CASE EventsSent
    <2>1. /\ batch' = <<>> /\ events' = events /\ madeEvents' = madeEvents
          /\ eventsStream' = eventsStream \o batch
        BY <1>4 DEF EventsSent, pollers, queues
    <2> QED BY <1>b, <1>d, <2>1
<1>5. ASSUME NEW how \in {"refused", "lost"}, EventsRetry(how)
      PROVE  1 .. madeEvents' \subseteq held'
    <2>1. /\ batch' = batch /\ events' = events /\ madeEvents' = madeEvents
          /\ eventsStream' \in {eventsStream, eventsStream \o batch}
        BY <1>5 DEF EventsRetry, EventsError, pollers, queues
    <2> QED BY <1>b, <1>d, <2>1
<1>6. ASSUME NEW how \in {"refused", "lost"}, EventsFailed(how)
      PROVE  1 .. madeEvents' \subseteq held'
    <2>1. /\ events' = batch \o events /\ madeEvents' = madeEvents
          /\ eventsStream' \in {eventsStream, eventsStream \o batch}
        BY <1>6 DEF EventsFailed, EventsError, pollers
    <2> QED BY <1>b, <1>d, <1>e, <2>1
<1>7. CASE \/ PollStart \/ PollEnd \/ FlushDone \/ TelemetrySent \/ Stop \/ Exit
           \/ \E n \in 1 .. MaxSamples : Telemetry(n)
           \/ \E how \in {"refused", "lost"} : TelemetryRetry(how) \/ TelemetryFailed(how)
    <2>1. UNCHANGED <<madeEvents, batch, events, eventsStream>>
        BY <1>7 DEF PollStart, PollEnd, FlushDone, TelemetrySent, Stop, Exit, Telemetry,
                    TelemetryRetry, TelemetryFailed, BufferOrShed, pollers, queues,
                    flusher, redis
    <2> QED BY <1>1, <2>1
<1>8. CASE UNCHANGED vars
    BY <1>1, <1>8 DEF vars, pollers, queues, flusher, redis
<1> QED BY <1>2, <1>3, <1>4, <1>5, <1>6, <1>7, <1>8 DEF Next

-----------------------------------------------------------------------------
(* The buffers stay in publication order.                                  *)

\* The order of the buffers, one conjunct per pair of them.
PairwiseOrder ==
    /\ Increasing(ring) /\ Increasing(samples) /\ Increasing(pending)
    /\ Before(ring, samples) /\ Before(ring, pending) /\ Before(samples, pending)

\* BuffersInOrder, taken apart.
LEMMA OrderByPairs ==
    ASSUME ring \in Seq(Nat), samples \in Seq(Nat), pending \in Seq(Nat)
    PROVE  BuffersInOrder <=> PairwiseOrder
<1>1. ring \o samples \in Seq(Nat)
    OBVIOUS
<1>2. Range(ring \o samples) = Range(ring) \cup Range(samples)
    BY RangeConcatenation
<1>3. Before(ring \o samples, pending)
        <=> Before(ring, pending) /\ Before(samples, pending)
    BY <1>2 DEF Before
<1>4. BuffersInOrder <=> /\ Increasing(ring \o samples) /\ Increasing(pending)
                         /\ Before(ring \o samples, pending)
    BY <1>1, IncreasingConcat DEF BuffersInOrder, Buffered
<1>5. Increasing(ring \o samples)
        <=> Increasing(ring) /\ Increasing(samples) /\ Before(ring, samples)
    BY IncreasingConcat
<1> QED BY <1>3, <1>4, <1>5 DEF PairwiseOrder

LEMMA EmptyFacts ==
    /\ <<>> \in Seq(Nat) /\ Range(<<>>) = {} /\ Increasing(<<>>)
    /\ \A s : Before(s, <<>>) /\ Before(<<>>, s)
<1>1. <<>> \in Seq(Nat) /\ Len(<<>>) = 0 /\ Range(<<>>) = {}
    BY DEF Range
<1>2. Increasing(<<>>)
    BY <1>1 DEF Increasing
<1> QED BY <1>1, <1>2 DEF Before

\* FlushShape and PairwiseOrder are preserved together.
LEMMA OrderNext ==
    TypeOK /\ FlushShape /\ PairwiseOrder /\ [Next]_vars
        => FlushShape' /\ PairwiseOrder'
<1> SUFFICES ASSUME TypeOK, FlushShape, PairwiseOrder, [Next]_vars
             PROVE  FlushShape' /\ PairwiseOrder'
    OBVIOUS
<1>0. /\ ring \in Seq(Nat) /\ samples \in Seq(Nat) /\ pending \in Seq(Nat)
      /\ made \in Nat /\ Range(ring) \subseteq Nat /\ Range(samples) \subseteq Nat
      /\ Range(pending) \subseteq Nat
    BY RangeOfSeq DEF TypeOK
<1> DEFINE unmoved == UNCHANGED <<made, ring, samples, pending>>
<1>1. ASSUME unmoved
      PROVE  /\ PairwiseOrder'
             /\ \A s \in (Range(ring) \cup Range(samples) \cup Range(pending))' : s <= made'
    BY <1>1 DEF PairwiseOrder, Increasing, Before, FlushShape
<1>2. CASE \/ PollStart \/ PollEnd \/ Events \/ Stop \/ Exit \/ UNCHANGED vars
    <2>1. unmoved /\ pc' = pc /\ batch' = batch
        BY <1>2 DEF PollStart, PollEnd, Events, Stop, Exit, vars, pollers, queues, flusher
    <2> QED BY <1>1, <2>1 DEF FlushShape
<1>3. ASSUME NEW how \in {"refused", "lost"},
             EventsRetry(how) \/ EventsFailed(how) \/ TelemetryRetry(how)
      PROVE  FlushShape' /\ PairwiseOrder'
    <2>1. unmoved
        BY <1>3 DEF EventsRetry, EventsFailed, TelemetryRetry, pollers, queues
    <2>2. pc' = "events" \/ (pc' = "telemetry" /\ batch' = <<>>)
        BY <1>3 DEF EventsRetry, EventsFailed, TelemetryRetry, FlushShape
    <2> QED BY <1>1, <2>1, <2>2 DEF FlushShape
<1>4. CASE EventsSent
    <2>1. unmoved /\ pc' = "telemetry" /\ batch' = <<>>
        BY <1>4 DEF EventsSent, pollers, queues
    <2> QED BY <1>1, <2>1 DEF FlushShape
<1>5. CASE FlushDone
    <2>1. unmoved /\ samples' = <<>> /\ batch' = <<>>
        BY <1>5 DEF FlushDone, pollers, queues, FlushShape
    <2> QED BY <1>1, <2>1 DEF FlushShape
<1>6. ASSUME NEW n \in 1 .. MaxSamples, Telemetry(n)
      PROVE  FlushShape' /\ PairwiseOrder'
    <2> DEFINE new == Numbered(made, n)
    <2>0. n \in Nat
        BY PublisherAssumption
    <2>1. /\ new \in Seq(Nat) /\ Range(new) = made + 1 .. made + n
          /\ Increasing(new)
        BY <1>0, <2>0, NumberedFacts
    <2>2. /\ pending' = pending \o new /\ made' = made + n
          /\ ring' = ring /\ samples' = samples /\ pc' = pc /\ batch' = batch
        BY <1>6 DEF Telemetry, flusher
    <2> HIDE DEF new
    <2>3. Range(pending') = Range(pending) \cup Range(new)
        BY <1>0, <2>1, <2>2, RangeConcatenation
    <2>4. \A s \in Range(ring) \cup Range(samples) \cup Range(pending) :
             s \in Nat /\ s <= made
        BY <1>0 DEF FlushShape
    <2>5. /\ Before(ring, new) /\ Before(samples, new) /\ Before(pending, new)
        BY <1>0, <2>1, <2>4 DEF Before
    <2>6. Increasing(pending')
        BY <1>0, <2>1, <2>2, <2>5, IncreasingConcat DEF PairwiseOrder
    <2>7. Before(ring, pending') /\ Before(samples, pending')
        BY <2>3, <2>5 DEF Before, PairwiseOrder
    <2>8. PairwiseOrder'
        BY <2>2, <2>6, <2>7 DEF PairwiseOrder, Before, Increasing
    <2>9. \A s \in Range(ring) \cup Range(samples) \cup Range(pending') : s <= made + n
        BY <1>0, <2>1, <2>3, <2>4, PublisherAssumption
    <2> QED BY <2>2, <2>8, <2>9 DEF FlushShape
<1>7. CASE Flush \/ FinalFlush
    <2>1. samples = <<>> /\ batch = <<>>
        BY <1>7 DEF Flush, FinalFlush, FlushShape
    <2>2. /\ samples' = ring \o pending /\ ring' = <<>> /\ pending' = <<>>
          /\ made' = made /\ pc' \in {"events", "telemetry"}
          /\ pc' # "events" => batch' = <<>>
        BY <1>7 DEF Flush, FinalFlush, TakeQueues, pollers
    <2>3. Range(samples') = Range(ring) \cup Range(pending)
        BY <1>0, <2>2, RangeConcatenation
    <2>4. Increasing(samples')
        BY <1>0, <2>2, IncreasingConcat DEF PairwiseOrder
    <2>5. PairwiseOrder'
        BY <2>2, <2>4, EmptyFacts DEF PairwiseOrder, Increasing, Before
    <2> QED BY <2>2, <2>3, <2>5, EmptyFacts DEF FlushShape
<1>8. CASE TelemetrySent
    <2>1. /\ samples' = Rest /\ UNCHANGED <<ring, pending, made, pc, batch>>
          /\ pc = "telemetry"
        BY <1>8 DEF TelemetrySent, pollers, queues
    <2>2. Range(Rest) \subseteq Range(samples) /\ Increasing(Rest)
        BY <1>0, ChunkFacts DEF PairwiseOrder
    <2>3. PairwiseOrder'
        BY <2>1, <2>2 DEF PairwiseOrder, Before, Increasing
    <2> QED BY <2>1, <2>2, <2>3 DEF FlushShape
<1>9. ASSUME NEW how \in {"refused", "lost"}, TelemetryFailed(how)
      PROVE  FlushShape' /\ PairwiseOrder'
    <2> DEFINE all == ring \o Chunk
    <2>1. /\ samples' = Rest /\ ring' = Kept(all)
          /\ UNCHANGED <<pending, made, pc, batch>> /\ pc = "telemetry"
        BY <1>9 DEF TelemetryFailed, BufferOrShed, pollers
    <2>2. /\ Chunk \in Seq(Nat) /\ Rest \in Seq(Nat)
          /\ Range(Chunk) \subseteq Range(samples)
          /\ Range(Rest) \subseteq Range(samples)
          /\ Increasing(Chunk) /\ Increasing(Rest) /\ Before(Chunk, Rest)
        BY <1>0, ChunkFacts DEF PairwiseOrder
    <2>3. all \in Seq(Nat) /\ Range(all) = Range(ring) \cup Range(Chunk)
        BY <1>0, <2>2, RangeConcatenation
    <2>4. Before(ring, Chunk)
        BY <2>2 DEF PairwiseOrder, Before
    <2>5. Increasing(all)
        BY <1>0, <2>2, <2>4, IncreasingConcat DEF PairwiseOrder
    <2> HIDE DEF all
    <2>6. Range(Kept(all)) \subseteq Range(all) /\ Increasing(Kept(all))
        BY <2>3, <2>5, KeptFacts
    <2>7. Before(Kept(all), Rest) /\ Before(Kept(all), pending) /\ Before(Rest, pending)
        BY <2>2, <2>3, <2>6 DEF PairwiseOrder, Before
    <2>8. PairwiseOrder'
        BY <2>1, <2>2, <2>6, <2>7 DEF PairwiseOrder, Before, Increasing
    <2> QED BY <2>1, <2>2, <2>3, <2>6, <2>8 DEF FlushShape
<1> QED BY <1>2, <1>3, <1>4, <1>5, <1>6, <1>7, <1>8, <1>9 DEF Next

-----------------------------------------------------------------------------
(* The theorems.                                                           *)

\* The invariant everything below follows from.
PublisherInv == TypeOK /\ FlushShape /\ PairwiseOrder /\ EventsNeverShed

LEMMA PublisherInvariant == Spec => []PublisherInv
<1>1. Init => PublisherInv
    <2> SUFFICES ASSUME Init PROVE PublisherInv
        OBVIOUS
    <2>1. TypeOK
        BY PublisherAssumption DEF Init, TypeOK, Attempts
    <2>2. FlushShape
        BY EmptyFacts DEF Init, FlushShape
    <2>3. PairwiseOrder
        BY EmptyFacts DEF Init, PairwiseOrder
    <2>4. EventsNeverShed
        BY DEF Init, EventsNeverShed
    <2> QED BY <2>1, <2>2, <2>3, <2>4 DEF PublisherInv
<1>2. PublisherInv /\ [Next]_vars => PublisherInv'
    BY TypeNext, OrderNext, EventsNeverShedNext DEF PublisherInv
<1> QED BY <1>1, <1>2, PTL DEF Spec

\* No event a poller published is ever lost while the process lives, however
\* XADDs fail and replies are lost: publish.go's "events are never shed".
THEOREM EventsAreNeverShed == Spec => []EventsNeverShed
<1>1. PublisherInv => EventsNeverShed
    BY DEF PublisherInv
<1> QED BY <1>1, PublisherInvariant, PTL

\* Ring, flush in progress and queue together hold each sample at most once
\* and in publication order, whatever the batch size and the ring capacity.
THEOREM BuffersStayInOrder == Spec => []BuffersInOrder
<1>1. PublisherInv => BuffersInOrder
    BY OrderByPairs DEF PublisherInv, TypeOK
<1> QED BY <1>1, PublisherInvariant, PTL

-----------------------------------------------------------------------------
(* What the ring sheds is counted.                                         *)

Held == telemetryStream \cup Range(ring) \cup Range(samples) \cup Range(pending)

LEMMA RangeOfThree ==
    ASSUME NEW a \in Seq(Nat), NEW b \in Seq(Nat), NEW c \in Seq(Nat)
    PROVE  Range(a \o b \o c) = Range(a) \cup Range(b) \cup Range(c)
<1> DEFINE ab == a \o b
<1>1. ab \in Seq(Nat) /\ Range(ab) = Range(a) \cup Range(b)
    BY RangeConcatenation
<1> HIDE DEF ab
<1>2. Range(ab \o c) = Range(ab) \cup Range(c)
    BY <1>1, RangeConcatenation
<1> QED BY <1>1, <1>2 DEF ab

LEMMA MissingIsNotHeld ==
    ASSUME TypeOK
    PROVE  /\ Missing = (1 .. made) \ Held
           /\ IsFiniteSet(Missing) /\ Cardinality(Missing) \in Nat
<1>1. /\ ring \in Seq(Nat) /\ samples \in Seq(Nat) /\ pending \in Seq(Nat)
      /\ made \in Int
    BY DEF TypeOK
<1>2. Range(Buffered) = Range(ring) \cup Range(samples) \cup Range(pending)
    BY <1>1, RangeOfThree DEF Buffered
<1>3. Missing = (1 .. made) \ Held
    BY <1>2 DEF Missing, Held
<1>4. IsFiniteSet(1 .. made)
    BY <1>1, FS_Interval
<1>5. IsFiniteSet(Missing)
    BY <1>3, <1>4, FS_Subset
<1> QED BY <1>3, <1>5, FS_CardinalityType

\* Whatever goes missing in a step is counted in that step.
LEMMA LossGrows ==
    ASSUME TypeOK, TypeOK', LossIsCounted, NEW D, IsFiniteSet(D), NEW d \in Nat,
           Cardinality(D) <= d, dropped' = dropped + d,
           (1 .. made') \ Held' \subseteq Missing \cup D
    PROVE  LossIsCounted'
<1>1. IsFiniteSet(Missing) /\ Cardinality(Missing) \in Nat
    BY MissingIsNotHeld
<1>2. Missing' = (1 .. made') \ Held'
    <2>1. ring' \in Seq(Nat) /\ samples' \in Seq(Nat) /\ pending' \in Seq(Nat)
        BY DEF TypeOK
    <2>2. Range(ring' \o samples' \o pending')
            = Range(ring') \cup Range(samples') \cup Range(pending')
        BY <2>1, RangeOfThree
    <2> QED BY <2>2 DEF Missing, Buffered, Held
<1>3. IsFiniteSet(Missing \cup D)
      /\ Cardinality(Missing \cup D) = Cardinality(Missing) + Cardinality(D) - Cardinality(Missing \cap D)
    BY <1>1, FS_Union
<1>4. Cardinality(Missing \cap D) \in Nat /\ Cardinality(D) \in Nat
    <2>1. IsFiniteSet(Missing \cap D)
        BY <1>1, FS_Subset
    <2> QED BY <2>1, FS_CardinalityType
<1>5. IsFiniteSet(Missing') /\ Cardinality(Missing') <= Cardinality(Missing \cup D)
    BY <1>2, <1>3, FS_Subset
<1>6. Cardinality(Missing') \in Nat /\ dropped \in Nat
    BY <1>5, FS_CardinalityType DEF TypeOK
<1> QED BY <1>1, <1>3, <1>4, <1>5, <1>6 DEF LossIsCounted

\* A step that drops nothing loses nothing.
LEMMA NothingLost ==
    ASSUME TypeOK, TypeOK', LossIsCounted, dropped' = dropped,
           (1 .. made') \ Held' \subseteq Missing
    PROVE  LossIsCounted'
<1>1. IsFiniteSet({}) /\ Cardinality({}) = 0 /\ dropped \in Nat
    BY FS_EmptySet DEF TypeOK
<1> QED BY <1>1, LossGrows

\* What bufferOrShed does not keep is no more than it counts as dropped.
LEMMA ShedIsCounted ==
    ASSUME NEW s \in Seq(Nat)
    PROVE  \E D : /\ IsFiniteSet(D) /\ Range(s) \subseteq Range(Kept(s)) \cup D
                  /\ Len(s) - Len(Kept(s)) \in Nat
                  /\ Cardinality(D) <= Len(s) - Len(Kept(s))
<1> DEFINE k == Smaller(RingCap, Len(s))
           n == Len(s) - k
           shed == [i \in 1 .. n |-> s[i]]
           D == {s[i] : i \in 1 .. n}
<1>1. k \in 0 .. Len(s) /\ n \in 0 .. Len(s) /\ Len(s) \in Nat
    BY PublisherAssumption DEF Smaller
<1>2. Kept(s) = SubSeq(s, n + 1, Len(s))
    BY <1>1 DEF Kept
<1> HIDE DEF k, n
<1>3. /\ Len(Kept(s)) = Len(s) - n
      /\ \A i \in 1 .. Len(s) - n : Kept(s)[i] = s[n + i]
    <2>1. \A i \in n + 1 .. Len(s) : s[i] \in Nat
        BY <1>1
    <2>2. /\ Len(Kept(s)) = IF n + 1 <= Len(s) THEN Len(s) - (n + 1) + 1 ELSE 0
          /\ \A i \in 1 .. Len(s) - (n + 1) + 1 : Kept(s)[i] = s[n + 1 + i - 1]
        BY <1>1, <1>2, <2>1, SubSeqProperties
    <2> QED BY <1>1, <2>2
<1>4. IsFiniteSet(D) /\ Cardinality(D) <= n
    <2>1. shed \in Surjection(1 .. n, D)
        BY DEF Surjection
    <2>2. IsFiniteSet(1 .. n) /\ Cardinality(1 .. n) = n
        BY <1>1, FS_Interval
    <2> HIDE DEF shed, D
    <2> QED BY <2>1, <2>2, FS_Surjection
<1>5. ASSUME NEW x \in Range(s) PROVE x \in Range(Kept(s)) \cup D
    <2>1. PICK i \in 1 .. Len(s) : x = s[i]
        BY DEF Range
    <2>2. CASE i <= n
        BY <1>1, <2>1, <2>2
    <2>3. CASE n < i
        <3>1. i - n \in 1 .. Len(s) - n /\ n + (i - n) = i
            BY <1>1, <2>3
        <3>2. Kept(s)[i - n] = x
            BY <1>3, <2>1, <3>1
        <3> QED BY <1>3, <3>1, <3>2 DEF Range
    <2> QED BY <1>1, <2>2, <2>3
<1> HIDE DEF D
<1>6. Len(s) - Len(Kept(s)) = n /\ n \in Nat
    BY <1>1, <1>3
<1> QED BY <1>4, <1>5, <1>6

\* A chunk and the rest are all that is in hand.
LEMMA ChunkAndRest ==
    ASSUME samples \in Seq(Nat) PROVE Range(samples) = Range(Chunk) \cup Range(Rest)
<1>1. ChunkLen \in 0 .. Len(samples)
    BY PublisherAssumption DEF ChunkLen, Smaller
<1>2. Chunk \in Seq(Nat) /\ Rest \in Seq(Nat)
    BY ChunkFacts
<1>3. samples = Chunk \o Rest
    <2>1. samples = SubSeq(samples, 1, Len(samples))
        BY SubSeqFull
    <2>2. /\ 1 \in 1 .. Len(samples) + 1 /\ ChunkLen \in 1 - 1 .. Len(samples)
          /\ Len(samples) \in ChunkLen .. Len(samples)
        BY <1>1
    <2>3. Chunk \o Rest = SubSeq(samples, 1, Len(samples))
        BY <2>2, ConcatAdjacentSubSeq DEF Chunk, Rest
    <2> QED BY <2>1, <2>3
<1> QED BY <1>2, <1>3, RangeConcatenation

LEMMA LossNext ==
    TypeOK /\ FlushShape /\ LossIsCounted /\ [Next]_vars => LossIsCounted'
<1> SUFFICES ASSUME TypeOK, FlushShape, LossIsCounted, [Next]_vars PROVE LossIsCounted'
    OBVIOUS
<1>0. /\ ring \in Seq(Nat) /\ samples \in Seq(Nat) /\ pending \in Seq(Nat)
      /\ made \in Nat
    BY DEF TypeOK
<1>a. TypeOK' /\ Missing = (1 .. made) \ Held
    BY TypeNext, MissingIsNotHeld
<1>1. ASSUME made' = made, dropped' = dropped, Held \subseteq Held' PROVE LossIsCounted'
    BY <1>a, <1>1, NothingLost
<1>2. CASE \/ PollStart \/ PollEnd \/ Events \/ Stop \/ Exit \/ FlushDone \/ EventsSent
           \/ UNCHANGED vars
           \/ \E how \in {"refused", "lost"} : EventsRetry(how) \/ EventsFailed(how)
    <2>1. UNCHANGED <<made, dropped, ring, samples, pending, telemetryStream>>
        BY <1>2 DEF PollStart, PollEnd, Events, Stop, Exit, FlushDone, EventsSent, EventsRetry,
                    EventsFailed, vars, pollers, queues, flusher, redis
    <2> QED BY <1>1, <2>1 DEF Held
<1>3. ASSUME NEW n \in 1 .. MaxSamples, Telemetry(n) PROVE LossIsCounted'
    <2> DEFINE new == Numbered(made, n)
    <2>0. n \in Nat
        BY PublisherAssumption
    <2>1. new \in Seq(Nat) /\ Range(new) = made + 1 .. made + n
        BY <1>0, <2>0, NumberedFacts
    <2>2. /\ pending' = pending \o new /\ made' = made + n /\ dropped' = dropped
          /\ ring' = ring /\ samples' = samples /\ telemetryStream' = telemetryStream
        BY <1>3 DEF Telemetry, flusher, redis
    <2> HIDE DEF new
    <2>3. Range(pending') = Range(pending) \cup Range(new)
        BY <1>0, <2>1, <2>2, RangeConcatenation
    <2>4. Held' = Held \cup (made + 1 .. made + n)
        BY <2>1, <2>2, <2>3 DEF Held
    <2>5. 1 .. made' = (1 .. made) \cup (made + 1 .. made + n)
        BY <1>0, <2>0, <2>2
    <2>6. (1 .. made') \ Held' \subseteq Missing
        BY <1>0, <1>a, <2>4, <2>5
    <2> QED BY <1>a, <2>2, <2>6, NothingLost
<1>4. CASE Flush \/ FinalFlush
    <2>1. /\ samples' = ring \o pending /\ ring' = <<>> /\ pending' = <<>> /\ samples = <<>>
          /\ UNCHANGED <<made, dropped, telemetryStream>>
        BY <1>4 DEF Flush, FinalFlush, TakeQueues, pollers, redis, FlushShape
    <2>2. Range(samples') = Range(ring) \cup Range(pending)
        BY <1>0, <2>1, RangeConcatenation
    <2> QED BY <1>1, <2>1, <2>2, EmptyFacts DEF Held
<1>5. CASE TelemetrySent
    <2>1. /\ samples' = Rest /\ telemetryStream' = telemetryStream \cup Range(Chunk)
          /\ UNCHANGED <<made, dropped, ring, pending>>
        BY <1>5 DEF TelemetrySent, pollers, queues
    <2> QED BY <1>0, <1>1, <2>1, ChunkAndRest DEF Held
<1>6. ASSUME NEW how \in {"refused", "lost"}, TelemetryRetry(how) PROVE LossIsCounted'
    <2>1. /\ telemetryStream \subseteq telemetryStream'
          /\ UNCHANGED <<made, dropped, ring, samples, pending>>
        BY <1>6 DEF TelemetryRetry, TelemetryError, pollers, queues
    <2> QED BY <1>1, <2>1 DEF Held
<1>7. ASSUME NEW how \in {"refused", "lost"}, TelemetryFailed(how) PROVE LossIsCounted'
    <2> DEFINE all == ring \o Chunk
    <2>1. /\ samples' = Rest /\ ring' = Kept(all) /\ made' = made /\ pending' = pending
          /\ dropped' = dropped + Len(all) - Len(Kept(all))
          /\ telemetryStream \subseteq telemetryStream'
        BY <1>7 DEF TelemetryFailed, TelemetryError, BufferOrShed, pollers
    <2>2. Chunk \in Seq(Nat) /\ Range(samples) = Range(Chunk) \cup Range(Rest)
        BY <1>0, ChunkFacts, ChunkAndRest
    <2>3. all \in Seq(Nat) /\ Range(all) = Range(ring) \cup Range(Chunk)
        BY <1>0, <2>2, RangeConcatenation
    <2> HIDE DEF all
    <2>4. PICK D : /\ IsFiniteSet(D) /\ Range(all) \subseteq Range(Kept(all)) \cup D
                   /\ Len(all) - Len(Kept(all)) \in Nat
                   /\ Cardinality(D) <= Len(all) - Len(Kept(all))
        BY <2>3, ShedIsCounted
    <2>5. dropped' = dropped + (Len(all) - Len(Kept(all)))
        BY <2>1, <2>3, KeptFacts DEF TypeOK
    <2>6. (1 .. made') \ Held' \subseteq Missing \cup D
        BY <1>a, <2>1, <2>2, <2>3, <2>4 DEF Held
    <2> QED BY <1>a, <2>4, <2>5, <2>6, LossGrows
<1> QED BY <1>2, <1>3, <1>4, <1>5, <1>6, <1>7 DEF Next

\* No sample vanishes unaccounted for: what is neither in Redis nor in a buffer
\* is in the dropped counter of the heartbeat, however flushes fail.
THEOREM LossIsAlwaysCounted == Spec => []LossIsCounted
<1>1. Init => LossIsCounted
    <2> SUFFICES ASSUME Init PROVE LossIsCounted
        OBVIOUS
    <2>1. Missing = {}
        BY DEF Init, Missing
    <2> QED BY <2>1, FS_EmptySet DEF Init, LossIsCounted
<1>2. PublisherInv /\ LossIsCounted /\ [Next]_vars => LossIsCounted'
    BY LossNext DEF PublisherInv
<1> QED BY <1>1, <1>2, PublisherInvariant, PTL DEF Spec

-----------------------------------------------------------------------------
(* No event overtakes an older one.                                        *)

\* The flush in progress and the queue hold the newest events, in order, and
\* Redis holds all older ones.
Queue == batch \o events
Older == madeEvents - Len(Queue)
QueueInv ==
    /\ Older \in Nat /\ \A i \in 1 .. Len(Queue) : Queue[i] = Older + i
    /\ 1 .. Older \subseteq Range(eventsStream)

\* A batch in order, after all that is older, keeps the stream in order.
LEMMA BatchInOrder ==
    ASSUME NEW stream \in Seq(Nat), NEW b \in Seq(Nat), NEW o \in Nat,
           \A i \in DOMAIN stream : \A e \in 1 .. stream[i] : \E j \in 1 .. i : stream[j] = e,
           \A i \in 1 .. Len(b) : b[i] = o + i, 1 .. o \subseteq Range(stream)
    PROVE  /\ \A i \in DOMAIN (stream \o b) : \A e \in 1 .. (stream \o b)[i] :
                 \E j \in 1 .. i : (stream \o b)[j] = e
           /\ 1 .. o + Len(b) \subseteq Range(stream \o b)
<1> DEFINE c == stream \o b
           n == Len(stream)
<1>0. /\ c \in Seq(Nat) /\ Len(c) = n + Len(b) /\ n \in Nat /\ Len(b) \in Nat
      /\ \A i \in 1 .. n : c[i] = stream[i]
      /\ \A i \in 1 .. Len(b) : c[n + i] = b[i]
      /\ DOMAIN stream = 1 .. n /\ DOMAIN c = 1 .. Len(c)
    OBVIOUS
<1> HIDE DEF c, n
<1>1. \A e \in 1 .. o : \E j \in 1 .. n : c[j] = e
    BY <1>0 DEF Range
<1>2. \A e \in o + 1 .. o + Len(b) : n + (e - o) \in 1 .. Len(c) /\ c[n + (e - o)] = e
    <2> TAKE e \in o + 1 .. o + Len(b)
    <2>1. e - o \in 1 .. Len(b) /\ o + (e - o) = e
        OBVIOUS
    <2>2. c[n + (e - o)] = b[e - o] /\ b[e - o] = e
        BY <1>0, <2>1
    <2> QED BY <1>0, <2>1, <2>2
<1>3. ASSUME NEW i \in 1 .. Len(c), NEW e \in 1 .. c[i] PROVE \E j \in 1 .. i : c[j] = e
    <2>1. CASE i \in 1 .. n
        <3>1. PICK j \in 1 .. i : stream[j] = e
            BY <1>0, <2>1
        <3>2. j \in 1 .. n
            BY <1>0, <2>1
        <3> QED BY <1>0, <3>1, <3>2
    <2>2. CASE i \notin 1 .. n
        <3>1. i - n \in 1 .. Len(b) /\ n + (i - n) = i
            BY <1>0, <2>2
        <3>2. c[i] = o + (i - n)
            BY <1>0, <3>1
        <3>3. CASE e \in 1 .. o
            <4>1. PICK j \in 1 .. n : c[j] = e
                BY <1>1, <3>3
            <4>2. j \in 1 .. i
                BY <1>0, <2>2
            <4> QED BY <4>1, <4>2
        <3>4. CASE e \notin 1 .. o
            <4>1. e \in o + 1 .. o + Len(b) /\ n + (e - o) \in 1 .. i
                BY <1>0, <3>1, <3>2, <3>4
            <4> QED BY <1>2, <4>1
        <3> QED BY <3>3, <3>4
    <2> QED BY <2>1, <2>2
<1>4. ASSUME NEW e \in 1 .. o + Len(b) PROVE e \in Range(c)
    <2>1. CASE e \in 1 .. o
        <3>1. PICK j \in 1 .. n : c[j] = e
            BY <1>1, <2>1
        <3>2. j \in DOMAIN c
            BY <1>0
        <3> QED BY <3>1, <3>2 DEF Range
    <2>2. CASE e \notin 1 .. o
        <3>1. e \in o + 1 .. o + Len(b)
            BY <2>2
        <3> QED BY <1>0, <1>2, <3>1 DEF Range
    <2> QED BY <2>1, <2>2
<1> QED BY <1>0, <1>3, <1>4 DEF c

LEMMA EmptyConcat == ASSUME NEW s \in Seq(Nat) PROVE <<>> \o s = s
BY ConcatEmptySeq

\* The queue moves on as a whole: from a batch that went, or with a new event.
LEMMA QueueRests ==
    ASSUME QueueInv, madeEvents' = madeEvents, Queue' = Queue,
           Range(eventsStream) \subseteq Range(eventsStream')
    PROVE  QueueInv'
BY DEF QueueInv, Older

LEMMA EventsInOrderNext ==
    TypeOK /\ FlushShape /\ QueueInv /\ EventsInOrder /\ [Next]_vars
        => QueueInv' /\ EventsInOrder'
<1> SUFFICES ASSUME TypeOK, FlushShape, QueueInv, EventsInOrder, [Next]_vars
             PROVE  QueueInv' /\ EventsInOrder'
    OBVIOUS
<1>0. /\ batch \in Seq(Nat) /\ events \in Seq(Nat) /\ eventsStream \in Seq(Nat)
      /\ madeEvents \in Nat /\ Queue \in Seq(Nat)
    BY DEF TypeOK, Queue
<1>a. /\ Len(Queue) = Len(batch) + Len(events) /\ Len(batch) \in Nat /\ Len(events) \in Nat
      /\ \A i \in 1 .. Len(batch) : Queue[i] = batch[i]
      /\ \A i \in 1 .. Len(events) : Queue[Len(batch) + i] = events[i]
    BY <1>0 DEF Queue
<1>b. /\ \A i \in DOMAIN (eventsStream \o batch) : \A e \in 1 .. (eventsStream \o batch)[i] :
            \E j \in 1 .. i : (eventsStream \o batch)[j] = e
      /\ 1 .. Older + Len(batch) \subseteq Range(eventsStream \o batch)
      /\ Range(eventsStream) \subseteq Range(eventsStream \o batch)
    <2>1. /\ Older \in Nat /\ \A i \in 1 .. Len(batch) : batch[i] = Older + i
          /\ 1 .. Older \subseteq Range(eventsStream)
        BY <1>a DEF QueueInv
    <2>2. \A i \in DOMAIN eventsStream : \A e \in 1 .. eventsStream[i] :
             \E j \in 1 .. i : eventsStream[j] = e
        BY DEF EventsInOrder
    <2> HIDE DEF Older
    <2>3. Range(eventsStream) \subseteq Range(eventsStream \o batch)
        BY <1>0, RangeConcatenation
    <2> QED BY <1>0, <2>1, <2>2, <2>3, BatchInOrder
<1>1. CASE UNCHANGED <<madeEvents, batch, events, eventsStream>>
    BY <1>1 DEF QueueInv, Older, Queue, EventsInOrder
<1>2. CASE Events
    <2>1. /\ events' = Append(events, madeEvents + 1) /\ madeEvents' = madeEvents + 1
          /\ batch' = batch /\ eventsStream' = eventsStream
        BY <1>2 DEF Events, flusher, redis
    <2>2. Queue' = Append(Queue, madeEvents + 1)
        <3>1. batch \o Append(events, madeEvents + 1) = Append(batch \o events, madeEvents + 1)
            BY <1>0
        <3> QED BY <2>1, <3>1 DEF Queue
    <2>3. /\ Len(Queue') = Len(Queue) + 1 /\ Queue'[Len(Queue) + 1] = madeEvents + 1
          /\ \A i \in 1 .. Len(Queue) : Queue'[i] = Queue[i]
        BY <1>0, <2>2
    <2>4. Older' = Older
        BY <1>0, <2>1, <2>3 DEF Older
    <2>5. ASSUME NEW i \in 1 .. Len(Queue') PROVE Queue'[i] = Older + i
        <3>1. CASE i = Len(Queue) + 1
            BY <1>0, <2>3, <3>1 DEF Older
        <3>2. CASE i # Len(Queue) + 1
            <4>1. i \in 1 .. Len(Queue)
                BY <1>0, <2>3, <3>2
            <4> QED BY <2>3, <4>1 DEF QueueInv
        <3> QED BY <3>1, <3>2
    <2> QED BY <2>1, <2>4, <2>5 DEF QueueInv, EventsInOrder
<1>3. CASE Flush \/ FinalFlush
    <2>1. /\ batch = <<>> /\ batch' = events /\ events' = <<>>
          /\ eventsStream' = eventsStream /\ madeEvents' = madeEvents
        BY <1>3 DEF Flush, FinalFlush, TakeQueues, pollers, redis, FlushShape
    <2>2. Queue' = Queue
        BY <1>0, <2>1 DEF Queue
    <2> QED BY <2>1, <2>2, QueueRests DEF EventsInOrder
<1>4. CASE EventsSent
    <2>1. /\ batch' = <<>> /\ events' = events /\ madeEvents' = madeEvents
          /\ eventsStream' = eventsStream \o batch
        BY <1>4 DEF EventsSent, pollers, queues
    <2>2. Queue' = events
        BY <1>0, <2>1 DEF Queue
    <2>3. Older' = Older + Len(batch)
        BY <1>0, <1>a, <2>1, <2>2 DEF Older
    <2>4. ASSUME NEW i \in 1 .. Len(events) PROVE events[i] = Older + Len(batch) + i
        <3>1. Len(batch) + i \in 1 .. Len(Queue) /\ Queue[Len(batch) + i] = events[i]
            BY <1>a
        <3>2. Queue[Len(batch) + i] = Older + (Len(batch) + i) /\ Older \in Nat
            BY <3>1 DEF QueueInv
        <3> HIDE DEF Older
        <3> QED BY <1>a, <3>1, <3>2
    <2>5. Older + Len(batch) \in Nat
        BY <1>a DEF QueueInv
    <2> HIDE DEF Queue, Older
    <2>6. QueueInv'
        BY <1>b, <2>1, <2>2, <2>3, <2>4, <2>5 DEF QueueInv
    <2> QED BY <1>b, <2>1, <2>6 DEF EventsInOrder
<1>5. ASSUME NEW how \in {"refused", "lost"}, EventsRetry(how) \/ EventsFailed(how)
      PROVE  QueueInv' /\ EventsInOrder'
    <2>1. /\ madeEvents' = madeEvents
          /\ eventsStream' \in {eventsStream, eventsStream \o batch}
          /\ \/ batch' = batch /\ events' = events
             \/ batch' = <<>> /\ events' = batch \o events
        BY <1>5 DEF EventsRetry, EventsFailed, EventsError, pollers, queues
    <2>2. Queue' = Queue
        <3>1. CASE batch' = <<>> /\ events' = batch \o events
            BY <1>0, <3>1, EmptyConcat DEF Queue
        <3> QED BY <2>1, <3>1 DEF Queue
    <2>3. QueueInv'
        BY <1>b, <2>1, <2>2, QueueRests
    <2> QED BY <1>b, <2>1, <2>3 DEF EventsInOrder
<1>6. CASE \/ PollStart \/ PollEnd \/ FlushDone \/ TelemetrySent \/ Stop \/ Exit
           \/ \E n \in 1 .. MaxSamples : Telemetry(n)
           \/ \E how \in {"refused", "lost"} : TelemetryRetry(how) \/ TelemetryFailed(how)
           \/ UNCHANGED vars
    <2>1. UNCHANGED <<madeEvents, batch, events, eventsStream>>
        BY <1>6 DEF PollStart, PollEnd, FlushDone, TelemetrySent, Stop, Exit, Telemetry,
                    TelemetryRetry, TelemetryFailed, BufferOrShed, vars, pollers, queues,
                    flusher, redis
    <2> QED BY <1>1, <2>1
<1> QED BY <1>2, <1>3, <1>4, <1>5, <1>6 DEF Next

\* However XADDs fail and replies are lost, an event never gets into the stream
\* before an older one has.
THEOREM EventsStayInOrder == Spec => []EventsInOrder
<1>1. Init => QueueInv /\ EventsInOrder
    <2> SUFFICES ASSUME Init PROVE QueueInv /\ EventsInOrder
        OBVIOUS
    <2>1. /\ batch = <<>> /\ events = <<>> /\ eventsStream = <<>> /\ madeEvents = 0
        BY DEF Init
    <2>2. Queue = <<>> /\ Len(Queue) = 0 /\ Older = 0
        <3>1. Queue = <<>>
            BY <2>1, EmptyConcat, EmptyFacts DEF Queue
        <3>2. Len(Queue) = 0
            BY <3>1
        <3>3. Older = 0
            BY <2>1, <3>2 DEF Older
        <3> HIDE DEF Queue, Older
        <3> QED BY <3>1, <3>2, <3>3
    <2>3. 1 .. Older = {}
        BY <2>2
    <2> QED BY <2>1, <2>2, <2>3 DEF QueueInv, EventsInOrder
<1>2. PublisherInv /\ QueueInv /\ EventsInOrder /\ [Next]_vars => QueueInv' /\ EventsInOrder'
    BY EventsInOrderNext DEF PublisherInv
<1> QED BY <1>1, <1>2, PublisherInvariant, PTL DEF Spec
=============================================================================
