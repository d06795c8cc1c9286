----------------------------- MODULE Publisher -----------------------------
(***************************************************************************)
(* The collector's direct Redis transport                                  *)
(* (collector/internal/publish/publish.go) and the shutdown sequence of    *)
(* collector/internal/app/app.go that stops it.                            *)
(*                                                                         *)
(* Pollers append samples and events to two in-memory queues; one flusher  *)
(* goroutine takes both queues, ring first, and XADDs them.  What Redis    *)
(* refuses goes back: events to the head of their queue, telemetry to a    *)
(* bounded ring that sheds its oldest samples.                             *)
(*                                                                         *)
(* Samples and events are numbered in the order the pollers publish them,  *)
(* so "older" is "smaller".                                                *)
(***************************************************************************)
EXTENDS Integers, Sequences, FiniteSets, Functions

CONSTANTS
    MaxBatch,    \* publisher.max_batch: samples per XADD
    RingCap,     \* publisher.ring_capacity
    Faults,      \* how an XADD may fail: a subset of {"refused", "lost"}
    MayStop,     \* whether the process may be asked to stop
    MaxSamples,  \* bound: samples ever produced
    MaxEvents,   \* bound: events ever produced
    MaxPolls,    \* bound: polls in flight at once
    MaxLost      \* bound: event XADDs applied by Redis whose reply is lost

ASSUME PublisherAssumption ==
    /\ MaxBatch \in Nat \ {0}
    /\ RingCap \in Nat
    /\ Faults \subseteq {"refused", "lost"}
    /\ MayStop \in BOOLEAN
    /\ MaxSamples \in Nat /\ MaxEvents \in Nat
    /\ MaxPolls \in Nat /\ MaxLost \in Nat

Attempts == 3    \* xadd tries three times

VARIABLES
    made,        \* samples published by the pollers so far: 1 .. made
    madeEvents,  \* events published so far: 1 .. madeEvents
    polls,       \* polls in flight
    pending,     \* Publisher.pending
    events,      \* Publisher.events
    ring,        \* Publisher.ring
    dropped,     \* Publisher.dropped
    pc,          \* the flusher: "idle", "events", "telemetry" or "returned"
    flushing,    \* "timed", or "last" in the flush that follows ctx.Done
    samples,     \* flush's local: samples taken and not yet handled
    batch,       \* flush's local: events taken
    attempt,     \* xadd's loop counter
    telemetryStream,  \* the samples Redis holds (a set: order is irrelevant)
    eventsStream,     \* the events Redis holds, in stream order
    lost,        \* event XADDs whose reply was lost, for the bound
    app          \* App.Run: "running", "stopping" (ctx.Done) or "exited"

queues  == <<pending, events, ring, dropped>>
flusher == <<pc, flushing, samples, batch, attempt>>
redis   == <<telemetryStream, eventsStream, lost>>
pollers == <<made, madeEvents, polls>>
vars    == <<pollers, queues, flusher, redis, app>>

Smaller(a, b) == IF a < b THEN a ELSE b
\* The samples or events numbered from + 1 .. from + n.
Numbered(from, n) == [i \in 1 .. n |-> from + i]

ctxDone == app # "running"
exited  == app = "exited"

Init ==
    /\ made = 0 /\ madeEvents = 0 /\ polls = 0
    /\ pending = <<>> /\ events = <<>> /\ ring = <<>> /\ dropped = 0
    /\ pc = "idle" /\ flushing = "timed"
    /\ samples = <<>> /\ batch = <<>> /\ attempt = 1
    /\ telemetryStream = {} /\ eventsStream = <<>> /\ lost = 0
    /\ app = "running"

-----------------------------------------------------------------------------
(* The pollers.  App.poll hands the publisher what one poll returned;      *)
(* a poll that fails publishes nothing.                                    *)

PollStart ==
    /\ ~ctxDone /\ polls < MaxPolls
    /\ polls' = polls + 1
    /\ UNCHANGED <<made, madeEvents, queues, flusher, redis, app>>

Telemetry(n) ==
    /\ polls > 0 /\ ~exited /\ made + n <= MaxSamples
    /\ made' = made + n
    /\ pending' = pending \o Numbered(made, n)
    /\ UNCHANGED <<madeEvents, polls, events, ring, dropped, flusher, redis,
                   app>>

\* Events come from polls and, until the process stops, from the trap listener.
Events ==
    /\ polls > 0 \/ ~ctxDone
    /\ ~exited /\ madeEvents < MaxEvents
    /\ madeEvents' = madeEvents + 1
    /\ events' = Append(events, madeEvents + 1)
    /\ UNCHANGED <<made, polls, pending, ring, dropped, flusher, redis,
                   app>>

PollEnd ==
    /\ polls > 0 /\ ~exited
    /\ polls' = polls - 1
    /\ UNCHANGED <<made, madeEvents, queues, flusher, redis, app>>

-----------------------------------------------------------------------------
(* The flusher: Run's loop and one flush.                                  *)

\* Mutant: new samples are queued ahead of the ring's.
TakeQueuesNewestFirst ==
    /\ samples' = pending \o ring
    /\ batch' = events
    /\ ring' = <<>> /\ pending' = <<>> /\ events' = <<>>
    /\ attempt' = 1
    /\ pc' = IF events # <<>> THEN "events" ELSE "telemetry"
    /\ UNCHANGED dropped

\* flush takes both queues under the mutex, ring ahead of new samples.
TakeQueues ==
    /\ samples' = ring \o pending
    /\ batch' = events
    /\ ring' = <<>> /\ pending' = <<>> /\ events' = <<>>
    /\ attempt' = 1
    /\ pc' = IF events # <<>> THEN "events" ELSE "telemetry"
    /\ UNCHANGED dropped

\* Mutant: only a full batch starts a flush (no ticker, no event kick).
FlushFullBatch ==
    /\ pc = "idle" /\ ~exited /\ Len(pending) >= MaxBatch
    /\ TakeQueues
    /\ UNCHANGED <<flushing, pollers, redis, app>>

\* The ticker or flushCh fires: both only start a flush.
Flush ==
    /\ pc = "idle" /\ ~exited
    /\ TakeQueues
    /\ UNCHANGED <<flushing, pollers, redis, app>>

\* ctx.Done: one last flush on a context of its own, then Run returns.
FinalFlush ==
    /\ pc = "idle" /\ ctxDone /\ ~exited
    /\ TakeQueues
    /\ flushing' = "last"
    /\ UNCHANGED <<pollers, redis, app>>

\* The context of the flush in progress is cancelled: every XADD fails at once.
Cancelled == ctxDone /\ flushing = "timed"

\* xadd gives up after the third error, or at the first one once its
\* context is over (the last flush has a five-second one of its own).
GivesUp == attempt = Attempts \/ Cancelled \/ flushing = "last"
Retries == attempt < Attempts /\ ~Cancelled
XAddFails(how) == how \in Faults \/ (Cancelled /\ how \in {"refused", "lost"})

EventsSent ==
    /\ pc = "events" /\ ~exited /\ ~Cancelled
    /\ eventsStream' = eventsStream \o batch
    /\ batch' = <<>> /\ attempt' = 1 /\ pc' = "telemetry"
    /\ UNCHANGED <<pollers, queues, flushing, samples, telemetryStream, lost,
                   app>>

\* An error, before Redis applied the command ("refused") or after ("lost").
EventsError(how) ==
    /\ XAddFails(how)
    /\ eventsStream' = IF how = "lost" THEN eventsStream \o batch
                                       ELSE eventsStream
    /\ how = "lost" => lost < MaxLost
    /\ lost' = IF how = "lost" THEN lost + 1 ELSE lost

EventsRetry(how) ==
    /\ pc = "events" /\ ~exited /\ Retries
    /\ EventsError(how)
    /\ attempt' = attempt + 1
    /\ UNCHANGED <<pollers, queues, pc, flushing, samples, batch,
                   telemetryStream, app>>

\* Mutant: failed events are shed like telemetry.
EventsFailedShed(how) ==
    /\ pc = "events" /\ ~exited /\ GivesUp
    /\ EventsError(how)
    /\ batch' = <<>> /\ attempt' = 1 /\ pc' = "telemetry"
    /\ UNCHANGED <<pollers, queues, flushing, samples, telemetryStream, app>>
\* Mutant: failed events go behind the ones queued meanwhile.
EventsFailedBehind(how) ==
    /\ pc = "events" /\ ~exited /\ GivesUp
    /\ EventsError(how)
    /\ events' = events \o batch
    /\ batch' = <<>> /\ attempt' = 1 /\ pc' = "telemetry"
    /\ UNCHANGED <<pollers, pending, ring, dropped, flushing, samples,
                   telemetryStream, app>>

\* Events are never shed: they go back ahead of the ones queued meanwhile.
EventsFailed(how) ==
    /\ pc = "events" /\ ~exited /\ GivesUp
    /\ EventsError(how)
    /\ events' = batch \o events
    /\ batch' = <<>> /\ attempt' = 1 /\ pc' = "telemetry"
    /\ UNCHANGED <<pollers, pending, ring, dropped, flushing, samples,
                   telemetryStream, app>>

\* The chunk the loop is at, and what is left behind it.
ChunkLen == Smaller(MaxBatch, Len(samples))
Chunk == SubSeq(samples, 1, ChunkLen)
Rest  == SubSeq(samples, ChunkLen + 1, Len(samples))

TelemetrySent ==
    /\ pc = "telemetry" /\ samples # <<>> /\ ~exited /\ ~Cancelled
    /\ telemetryStream' = telemetryStream \cup Range(Chunk)
    /\ samples' = Rest /\ attempt' = 1
    /\ UNCHANGED <<pollers, queues, pc, flushing, batch, eventsStream, lost,
                   app>>

TelemetryError(how) ==
    /\ XAddFails(how)
    /\ telemetryStream' = IF how = "lost" THEN telemetryStream \cup Range(Chunk)
                                          ELSE telemetryStream

TelemetryRetry(how) ==
    /\ pc = "telemetry" /\ samples # <<>> /\ ~exited /\ Retries
    /\ TelemetryError(how)
    /\ attempt' = attempt + 1
    /\ UNCHANGED <<pollers, queues, pc, flushing, samples, batch, eventsStream,
                   lost, app>>

\* Mutant: off by one, the ring holds one sample too many.
KeptOneMore(s) == SubSeq(s, Len(s) - Smaller(RingCap + 1, Len(s)) + 1, Len(s))

\* bufferOrShed: append the chunk, then drop what overflows from the old end.
Kept(s) == SubSeq(s, Len(s) - Smaller(RingCap, Len(s)) + 1, Len(s))

\* Mutant: the drop counter is not advanced.
BufferOrShedUncounted(chunk) ==
    /\ ring' = Kept(ring \o chunk)
    /\ UNCHANGED <<pending, events, dropped>>

BufferOrShed(chunk) ==
    /\ ring' = Kept(ring \o chunk)
    /\ dropped' = dropped + Len(ring \o chunk) - Len(Kept(ring \o chunk))
    /\ UNCHANGED <<pending, events>>

TelemetryFailed(how) ==
    /\ pc = "telemetry" /\ samples # <<>> /\ ~exited /\ GivesUp
    /\ TelemetryError(how)
    /\ BufferOrShed(Chunk)
    /\ samples' = Rest /\ attempt' = 1
    /\ UNCHANGED <<pollers, pc, flushing, batch, eventsStream, lost,
                   app>>

FlushDone ==
    /\ pc = "telemetry" /\ samples = <<>> /\ ~exited
    /\ pc' = IF flushing = "last" THEN "returned" ELSE "idle"
    /\ UNCHANGED <<pollers, queues, flushing, samples, batch, attempt, redis,
                   app>>

-----------------------------------------------------------------------------
(* Shutdown.                                                               *)

Stop ==
    /\ MayStop /\ ~ctxDone
    /\ app' = "stopping"
    /\ UNCHANGED <<pollers, queues, flusher, redis>>

\* App.Run returns once the polls in flight ended, or after 15 s without
\* them; nothing there waits for the flusher.
Exit ==
    /\ ctxDone /\ ~exited
    /\ app' = "exited"
    /\ UNCHANGED <<pollers, queues, flusher, redis>>

Next ==
    \/ PollStart \/ Events \/ PollEnd
    \/ \E n \in 1 .. MaxSamples : Telemetry(n)
    \/ Flush \/ FinalFlush \/ FlushDone
    \/ EventsSent \/ TelemetrySent
    \/ \E how \in {"refused", "lost"} :
          \/ EventsRetry(how) \/ EventsFailed(how)
          \/ TelemetryRetry(how) \/ TelemetryFailed(how)
    \/ Stop \/ Exit

\* The flusher's ticker never stops, and Redis, asked again and again,
\* answers in the end.
Fairness ==
    /\ WF_vars(Flush) /\ WF_vars(FlushDone)
    /\ SF_vars(EventsSent) /\ SF_vars(TelemetrySent)

Spec == Init /\ [][Next]_vars
FairSpec == Spec /\ Fairness

-----------------------------------------------------------------------------
(* Properties.                                                             *)

Buffered == ring \o samples \o pending
\* Samples that are neither in Redis nor in any buffer.
Missing == (1 .. made) \ (telemetryStream \cup Range(Buffered))

TypeOK ==
    /\ made \in 0 .. MaxSamples /\ madeEvents \in 0 .. MaxEvents
    /\ polls \in 0 .. MaxPolls
    /\ pending \in Seq(Nat) /\ events \in Seq(Nat) /\ ring \in Seq(Nat)
    /\ samples \in Seq(Nat) /\ batch \in Seq(Nat)
    /\ Len(ring) <= RingCap
    /\ dropped \in Nat
    /\ pc \in {"idle", "events", "telemetry", "returned"}
    /\ flushing \in {"timed", "last"} /\ attempt \in 1 .. Attempts
    /\ telemetryStream \subseteq Nat /\ eventsStream \in Seq(Nat)
    /\ lost \in 0 .. MaxLost
    /\ app \in {"running", "stopping", "exited"}

\* Every sample a poller published is in Redis, in a buffer, or counted by
\* the dropped counter that the heartbeat reports.
LossIsCounted == Cardinality(Missing) <= dropped

Increasing(s) == \A i, j \in 1 .. Len(s) : i < j => s[i] < s[j]

\* What the ring, the flush in progress and the queue hold is always in the
\* order it was published, each sample once, however flushes failed.
BuffersInOrder == Increasing(Buffered)

\* The strengthening that makes the properties above and below inductive:
\* outside a flush nothing is in hand, and nothing held is yet to be made.
FlushShape ==
    /\ pc \in {"idle", "returned"} => samples = <<>>
    /\ pc # "events" => batch = <<>>
    /\ \A s \in Range(ring) \cup Range(samples) \cup Range(pending) : s <= made

\* Events are never shed: one that a poller published is queued, in the
\* flush in progress, or in Redis.
EventsNeverShed ==
    \A e \in 1 .. madeEvents :
        e \in Range(batch \o events) \cup Range(eventsStream)

\* Retries and lost replies never let an event overtake an older one: when
\* an event first appears in the stream every older one is already there.
EventsInOrder ==
    \A i \in DOMAIN eventsStream : \A e \in 1 .. eventsStream[i] :
        \E j \in 1 .. i : eventsStream[j] = e

\* Every published event reaches Redis, unless the process is stopped first.
EventsDelivered ==
    \A e \in 1 .. MaxEvents :
        madeEvents >= e ~> e \in Range(eventsStream) \/ app # "running"

\* What app.go says of its shutdown: the polls in flight are waited for and
\* the publisher flushes after them, so what they produced is not dropped.
FlushFollowsPolls ==
    pc = "returned" /\ polls = 0 => pending = <<>> /\ events = <<>>
=============================================================================
