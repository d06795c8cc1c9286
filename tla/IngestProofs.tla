---------------------------- MODULE IngestProofs ----------------------------
(* What the ingest workers guarantee for any number of workers, entries and   *)
(* faults, and any batch size.                                                *)
EXTENDS Ingest, WellFoundedInduction, TLAPS

\* The records of a worker and of the database have their fields, and a worker
\* has only entries in hand.
Shape ==
    /\ DOMAIN work = Workers
    /\ \A w \in Workers :
         /\ DOMAIN work[w] = {"pc", "todo", "batch", "left", "fresh", "prev"}
         /\ work[w].todo \subseteq Entries /\ work[w].batch \subseteq Entries
    /\ DOMAIN db = {"samples", "hot", "rates", "events", "states", "status"}

\* A worker that is to acknowledge its batch has stored it, unless it is a
\* batch of events; and it is one whenever it claims or stores events.
BatchIsSafe(t) ==
    /\ t.pc = "ack" => t.batch \ Of("events") \subseteq db.samples \cup db.states
    /\ t.pc \in {"events", "events_store"} => t.batch \subseteq Of("events")

IngestInv ==
    /\ Shape /\ StoredBeforeAck
    /\ \A w \in Workers : BatchIsSafe(work[w])

-----------------------------------------------------------------------------
\* What a worker has in hand when it starts on some entries.
LEMMA StartFacts ==
    ASSUME NEW todo \in SUBSET Entries
    PROVE  /\ DOMAIN Start(todo) = {"pc", "todo", "batch", "left", "fresh", "prev"}
           /\ Start(todo).todo \subseteq Entries /\ Start(todo).batch \subseteq Entries
           /\ Start(todo).pc \in Streams /\ Start(todo).fresh = {}
           /\ Start(todo).pc = "events" => Start(todo).batch \subseteq Of("events")
           /\ Start(todo).todo \cup Start(todo).batch \subseteq todo
           /\ Start(todo).pc = "telemetry" =>
                Start(todo).batch # {} /\ Start(todo).batch \subseteq Of("telemetry")
<1> DEFINE Left(stream) == {e \in todo : Stream[e] = stream}
           next == CASE Left("telemetry") # {} -> "telemetry"
                     [] Left("telemetry") = {} /\ Left("events") # {} -> "events"
                     [] OTHER -> "endpointstate"
<1>1. next \in Streams
  BY DEF Streams
<1>2. /\ Left(next) \subseteq todo
      /\ next = "events" => Left(next) \subseteq Of("events")
      /\ next = "telemetry" => Left(next) # {} /\ Left(next) \subseteq Of("telemetry")
  BY DEF Of
<1>3. Start(todo) = [Idle EXCEPT !.pc = next, !.batch = Left(next), !.left = Left(next),
                                 !.todo = todo \ Left(next)]
  BY DEF Start
<1> HIDE DEF next, Left
<1>4. Start(todo) = [pc |-> next, todo |-> todo \ Left(next), batch |-> Left(next),
                     left |-> Left(next), fresh |-> {}, prev |-> None]
  BY <1>3 DEF Idle
<1> QED BY <1>1, <1>2, <1>4

\* A worker with nothing in hand, and one that starts, are safe.
LEMMA IdleFacts ==
    /\ DOMAIN Idle = {"pc", "todo", "batch", "left", "fresh", "prev"}
    /\ Idle.todo = {} /\ Idle.batch = {} /\ Idle.pc = "idle"
    /\ BatchIsSafe(Idle)
BY DEF Idle, BatchIsSafe

\* The loop starts on some entries, or leaves the workers alone.
LEMMA LoopStarts ==
    ASSUME NEW w \in Workers, Loop(w)
    PROVE  work' = work \/ \E todo \in SUBSET Entries : work' = [work EXCEPT ![w] = Start(todo)]
<1>1. CASE Read(w)
  <2>1. PICK upto \in Entries :
          work' = [work EXCEPT ![w] =
             Start(UNION {FirstOf({e \in Of(s) \ delivered : e <= upto}) : s \in Streams})]
    BY <1>1 DEF Read
  <2>2. UNION {FirstOf({e \in Of(s) \ delivered : e <= upto}) : s \in Streams} \in SUBSET Entries
    BY DEF FirstOf, Of
  <2> QED BY <2>1, <2>2
<1>2. CASE \E s \in Streams : Reclaim(w, s)
  BY <1>2 DEF Reclaim, Of
<1>3. CASE \E c \in Workers : Reap(w, c)
  BY <1>3 DEF Reap
<1> QED BY <1>1, <1>2, <1>3 DEF Loop

LEMMA IngestInitially == Init => IngestInv
<1> SUFFICES ASSUME Init PROVE IngestInv
  OBVIOUS
<1>1. \A w \in Workers : work[w] = Idle
  BY DEF Init
<1>2. Shape
  BY <1>1, IdleFacts DEF Init, Shape
<1>3. StoredBeforeAck
  BY DEF Init, StoredBeforeAck
<1> QED BY <1>1, <1>2, <1>3, IdleFacts DEF IngestInv

\* It is enough to look at the worker that moves, as long as the database
\* forgets nothing and nothing is acknowledged.
LEMMA OneWorkerMoves ==
    ASSUME IngestInv, NEW w \in Workers, NEW t,
           work' = [work EXCEPT ![w] = t], acked' = acked,
           db.samples \subseteq db'.samples, db.states \subseteq db'.states,
           DOMAIN db' = DOMAIN db,
           DOMAIN t = {"pc", "todo", "batch", "left", "fresh", "prev"},
           t.todo \subseteq Entries, t.batch \subseteq Entries,
           t.pc = "ack" => t.batch \ Of("events") \subseteq db'.samples \cup db'.states,
           t.pc \in {"events", "events_store"} => t.batch \subseteq Of("events")
    PROVE  IngestInv'
<1>1. \A x \in Workers : work'[x] = IF x = w THEN t ELSE work[x]
  BY DEF IngestInv, Shape
<1>2. Shape'
  BY <1>1 DEF IngestInv, Shape
<1>3. StoredBeforeAck'
  BY DEF IngestInv, StoredBeforeAck, Of
<1>4. ASSUME NEW x \in Workers PROVE BatchIsSafe(work[x])'
  <2>1. CASE x = w
    BY <2>1, <1>1 DEF BatchIsSafe, Of
  <2>2. CASE x # w
    BY <2>2, <1>1 DEF IngestInv, BatchIsSafe, Of
  <2> QED BY <2>1, <2>2
<1> QED BY <1>2, <1>3, <1>4 DEF IngestInv

\* The loop: reading, taking over and forgetting.
LEMMA LoopKeeps == ASSUME IngestInv, NEW w \in Workers, Loop(w) PROVE IngestInv'
<1>0. ASSUME NEW todo \in SUBSET Entries, work' = [work EXCEPT ![w] = Start(todo)],
             acked' = acked, db' = db
      PROVE  IngestInv'
  <2>1. Start(todo).pc # "ack" /\ Start(todo).pc # "events_store"
    BY StartFacts DEF Streams
  <2> DEFINE t == Start(todo)
  <2>2. /\ DOMAIN t = {"pc", "todo", "batch", "left", "fresh", "prev"}
        /\ t.todo \subseteq Entries /\ t.batch \subseteq Entries
        /\ t.pc # "ack" /\ t.pc # "events_store"
        /\ t.pc = "events" => t.batch \subseteq Of("events")
    BY <2>1, StartFacts
  <2>3. work' = [work EXCEPT ![w] = t]
    BY <1>0
  <2> HIDE DEF t
  <2> QED BY <1>0, <2>2, <2>3, OneWorkerMoves
<1>1. CASE Read(w)
  <2>1. PICK upto \in Entries :
          work' = [work EXCEPT ![w] =
                     Start(UNION {FirstOf({e \in Of(s) \ delivered : e <= upto}) : s \in Streams})]
    BY <1>1 DEF Read
  <2>2. UNION {FirstOf({e \in Of(s) \ delivered : e <= upto}) : s \in Streams} \in SUBSET Entries
    BY DEF FirstOf, Of
  <2>3. acked' = acked /\ db' = db
    BY <1>1 DEF Read
  <2> QED BY <1>0, <2>1, <2>2, <2>3
<1>2. CASE \E s \in Streams : Reclaim(w, s)
  <2>1. PICK s \in Streams : Reclaim(w, s)
    BY <1>2
  <2>2. /\ work' = [work EXCEPT ![w] = Start(Of(s) \cap idle)]
        /\ acked' = acked /\ db' = db
    BY <2>1 DEF Reclaim
  <2>3. Of(s) \cap idle \in SUBSET Entries
    BY DEF Of
  <2> QED BY <1>0, <2>2, <2>3
<1>3. CASE \E c \in Workers : Reap(w, c)
  <2>1. work' = work /\ acked' = acked /\ db' = db
    BY <1>3 DEF Reap
  <2> QED BY <2>1 DEF IngestInv, Shape, StoredBeforeAck, BatchIsSafe, Of
<1> QED BY <1>1, <1>2, <1>3 DEF Loop

\* The handlers.
LEMMA HandleKeeps == ASSUME IngestInv, NEW w \in Workers, Handle(w) PROVE IngestInv'
<1>0. /\ DOMAIN work[w] = {"pc", "todo", "batch", "left", "fresh", "prev"}
      /\ work[w].todo \subseteq Entries /\ work[w].batch \subseteq Entries
      /\ DOMAIN work = Workers
      /\ DOMAIN db = {"samples", "hot", "rates", "events", "states", "status"}
      /\ BatchIsSafe(work[w])
  BY DEF IngestInv, Shape
<1>1. CASE Exchange(w)
  <2> DEFINE t == [work[w] EXCEPT !.pc = "telemetry_store", !.prev = baseline]
  <2>1. work' = [work EXCEPT ![w] = t] /\ acked' = acked /\ db' = db
    BY <1>1 DEF Exchange, group
  <2>2. /\ DOMAIN t = DOMAIN work[w] /\ t.todo = work[w].todo /\ t.batch = work[w].batch
        /\ t.pc = "telemetry_store"
    BY <1>0
  <2> HIDE DEF t
  <2> QED BY <1>0, <2>1, <2>2, OneWorkerMoves
<1>2. CASE StoreTelemetry(w)
  <2> DEFINE t == [work[w] EXCEPT !.pc = "ack"]
  <2>1. work' = [work EXCEPT ![w] = t] /\ acked' = acked
    BY <1>2 DEF StoreTelemetry, group
  <2>2. /\ DOMAIN t = DOMAIN work[w] /\ t.todo = work[w].todo /\ t.batch = work[w].batch
        /\ t.pc = "ack"
    BY <1>0
  <2>3. /\ db'.samples = db.samples \cup work[w].batch /\ db'.states = db.states
        /\ DOMAIN db' = DOMAIN db
    BY <1>0, <1>2 DEF StoreTelemetry
  <2> HIDE DEF t
  <2> QED BY <1>0, <2>1, <2>2, <2>3, OneWorkerMoves
<1>3. CASE Claim(w)
  <2> DEFINE l == work[w].left \ {Min(work[w].left)}
             f == work[w].fresh \cup Fresh(Min(work[w].left))
             p == IF work[w].left # {Min(work[w].left)} THEN "events"
                  ELSE IF f = {} THEN "ack" ELSE "events_store"
  <2>1. /\ work' = [work EXCEPT ![w] = [work[w] EXCEPT !.left = l, !.fresh = f, !.pc = p]]
        /\ work[w].pc = "events" /\ acked' = acked /\ db' = db
    BY <1>0, <1>3 DEF Claim, group
  <2>7. p \in {"events", "ack", "events_store"}
    OBVIOUS
  <2> HIDE DEF l, f, p
  <2> DEFINE t == [work[w] EXCEPT !.left = l, !.fresh = f, !.pc = p]
  <2>2. /\ DOMAIN t = DOMAIN work[w] /\ t.todo = work[w].todo /\ t.batch = work[w].batch
        /\ t.pc = p
    BY <1>0
  <2>3. t.batch \subseteq Of("events")
    BY <1>0, <2>1, <2>2 DEF BatchIsSafe
  <2>4. work' = [work EXCEPT ![w] = t]
    BY <2>1
  <2>5. t.batch \ Of("events") \subseteq db'.samples \cup db'.states
    BY <2>3
  <2>6. acked' = acked /\ db' = db
    BY <2>1
  <2> HIDE DEF t
  <2> QED BY <1>0, <2>2, <2>3, <2>4, <2>5, <2>6, <2>7, OneWorkerMoves
<1>4. CASE StoreEvents(w)
  <2> DEFINE t == [work[w] EXCEPT !.pc = "ack"]
  <2>1. work' = [work EXCEPT ![w] = t] /\ acked' = acked /\ work[w].pc = "events_store"
    BY <1>4 DEF StoreEvents, group
  <2>2. /\ DOMAIN t = DOMAIN work[w] /\ t.todo = work[w].todo /\ t.batch = work[w].batch
        /\ t.pc = "ack"
    BY <1>0
  <2>3. t.batch \subseteq Of("events")
    BY <1>0, <2>1, <2>2 DEF BatchIsSafe
  <2>4. db'.samples = db.samples /\ db'.states = db.states /\ DOMAIN db' = DOMAIN db
    BY <1>0, <1>4 DEF StoreEvents, WithEvents
  <2> HIDE DEF t
  <2> QED BY <1>0, <2>1, <2>2, <2>3, <2>4, OneWorkerMoves
<1>5. CASE ReleaseEvents(w)
  <2>1. work' = [work EXCEPT ![w] = Idle] /\ acked' = acked /\ db' = db
    BY <1>5 DEF ReleaseEvents, Raised, group
  <2> QED BY <2>1, IdleFacts, OneWorkerMoves
<1>6. CASE StoreState(w)
  <2> DEFINE t == [work[w] EXCEPT !.pc = "ack"]
  <2>1. work' = [work EXCEPT ![w] = t] /\ acked' = acked
    BY <1>6 DEF StoreState, group
  <2>2. /\ DOMAIN t = DOMAIN work[w] /\ t.todo = work[w].todo /\ t.batch = work[w].batch
        /\ t.pc = "ack"
    BY <1>0
  <2>3. /\ db'.states = db.states \cup work[w].batch /\ db'.samples = db.samples
        /\ DOMAIN db' = DOMAIN db
    BY <1>0, <1>6 DEF StoreState
  <2> HIDE DEF t
  <2> QED BY <1>0, <2>1, <2>2, <2>3, OneWorkerMoves
<1>7. CASE Ack(w)
  <2>1. /\ work[w].pc = "ack" /\ acked' = acked \cup work[w].batch /\ db' = db
        /\ work' = [work EXCEPT ![w] = NextStream(work[w])]
    BY <1>0, <1>7 DEF Ack
  <2> DEFINE t == NextStream(work[w])
  <2>2. /\ DOMAIN t = {"pc", "todo", "batch", "left", "fresh", "prev"}
        /\ t.todo \subseteq Entries /\ t.batch \subseteq Entries
        /\ t.pc # "ack" /\ t.pc # "events_store"
        /\ t.pc = "events" => t.batch \subseteq Of("events")
    <3>1. CASE work[w].todo = {}
      BY <3>1, IdleFacts DEF NextStream
    <3>2. CASE work[w].todo # {}
      BY <3>2, <1>0, StartFacts DEF NextStream, Streams
    <3> QED BY <3>1, <3>2
  <2>3. \A x \in Workers : work'[x] = IF x = w THEN t ELSE work[x]
    BY <1>0, <2>1
  <2>4. work[w].batch \ Of("events") \subseteq db.samples \cup db.states
    BY <1>0, <2>1 DEF BatchIsSafe
  <2> HIDE DEF t
  <2>5. StoredBeforeAck'
    BY <2>1, <2>4 DEF IngestInv, StoredBeforeAck, Of
  <2>6. DOMAIN work' = Workers
    BY <1>0, <2>1
  <2>7. Shape'
    BY <1>0, <2>1, <2>2, <2>3, <2>6 DEF IngestInv, Shape
  <2>8. ASSUME NEW x \in Workers PROVE BatchIsSafe(work[x])'
    BY <2>1, <2>2, <2>3 DEF IngestInv, BatchIsSafe, Of
  <2> QED BY <2>5, <2>7, <2>8 DEF IngestInv
<1> QED BY <1>1, <1>2, <1>3, <1>4, <1>5, <1>6, <1>7 DEF Handle

\* A transaction that fails, a worker that dies, an entry that waits.
LEMMA FaultsKeep ==
    ASSUME IngestInv, NEW w \in Workers, Fail(w) \/ Die(w) \/ GrowIdle(w)
    PROVE  IngestInv'
<1>1. ASSUME work' = [work EXCEPT ![w] = Idle], acked' = acked, db' = db
      PROVE  IngestInv'
  BY <1>1, IdleFacts, OneWorkerMoves
<1>2. CASE Fail(w)
  <2>1. /\ acked' = acked /\ DOMAIN db' = DOMAIN db
        /\ db'.samples = db.samples /\ db'.states = db.states
    <3>1. DOMAIN db = {"samples", "hot", "rates", "events", "states", "status"}
      BY DEF IngestInv, Shape
    <3> QED BY <1>2, <3>1 DEF Fail, WithEvents, group
  <2>2. CASE Raised(w)
    BY <2>1, <2>2, IdleFacts, OneWorkerMoves DEF Raised
  <2>3. CASE work' = [work EXCEPT ![w].pc = "events_release"]
    <3> DEFINE t == [work[w] EXCEPT !.pc = "events_release"]
    <3>1. /\ DOMAIN work[w] = {"pc", "todo", "batch", "left", "fresh", "prev"}
          /\ work[w].todo \subseteq Entries /\ work[w].batch \subseteq Entries
      BY DEF IngestInv, Shape
    <3>2. /\ DOMAIN t = DOMAIN work[w] /\ t.todo = work[w].todo
          /\ t.batch = work[w].batch /\ t.pc = "events_release"
      BY <3>1
    <3>3. work' = [work EXCEPT ![w] = t]
      BY <2>3
    <3> HIDE DEF t
    <3> QED BY <2>1, <3>1, <3>2, <3>3, OneWorkerMoves
  <2> QED BY <1>2, <2>2, <2>3 DEF Fail
<1>3. CASE Die(w)
  BY <1>1, <1>3 DEF Die, group
<1>4. CASE GrowIdle(w)
  <2>1. work' = work /\ acked' = acked /\ db' = db
    BY <1>4 DEF GrowIdle
  <2> QED BY <2>1 DEF IngestInv, Shape, StoredBeforeAck, BatchIsSafe, Of
<1> QED BY <1>2, <1>3, <1>4

LEMMA IngestStep == IngestInv /\ [Next]_vars => IngestInv'
<1> SUFFICES ASSUME IngestInv, [Next]_vars PROVE IngestInv'
  OBVIOUS
<1>1. CASE UNCHANGED vars
  <2>1. work' = work /\ acked' = acked /\ db' = db
    BY <1>1 DEF vars
  <2> QED BY <2>1 DEF IngestInv, Shape, StoredBeforeAck, BatchIsSafe, Of
<1> QED BY <1>1, LoopKeeps, HandleKeeps, FaultsKeep DEF Next

\* Whoever acknowledges a sample or an endpoint state, it is in the database by
\* then: by the worker's own commit, whatever happened to the entry before.
THEOREM AcknowledgedIsStored == Spec => []StoredBeforeAck
<1>1. Init => IngestInv
  BY IngestInitially
<1>2. IngestInv /\ [Next]_vars => IngestInv'
  BY IngestStep
<1>3. IngestInv => StoredBeforeAck
  BY DEF IngestInv
<1> QED BY <1>1, <1>2, <1>3, PTL DEF Spec

-----------------------------------------------------------------------------
\* Every pending list entry is in the list.
DroppedInv == NothingDropped /\ DOMAIN pel = Entries /\ delivered \subseteq Entries

\* No entry is left without a consumer that owes it: only a consumer with
\* nothing pending is forgotten.
THEOREM NothingIsDropped == Spec => []NothingDropped
<1>1. Init => DroppedInv
  BY DEF Init, NothingDropped, DroppedInv
<1>2. DroppedInv /\ [Next]_vars => DroppedInv'
  <2> SUFFICES ASSUME DroppedInv, [Next]_vars PROVE DroppedInv'
    OBVIOUS
  <2> USE DEF DroppedInv, NothingDropped
  <2>1. ASSUME NEW w \in Workers, Read(w) PROVE DroppedInv'
    <3>1. PICK upto \in Entries :
            LET new == UNION {FirstOf({e \in Of(s) \ delivered : e <= upto}) : s \in Streams}
            IN /\ delivered' = delivered \cup new
               /\ pel' = [e \in Entries |-> IF e \in new THEN w ELSE pel[e]]
      BY <2>1 DEF Read
    <3> DEFINE new == UNION {FirstOf({e \in Of(s) \ delivered : e <= upto}) : s \in Streams}
    <3>2. /\ delivered' = delivered \cup new
          /\ pel' = [e \in Entries |-> IF e \in new THEN w ELSE pel[e]]
      BY <3>1
    <3>3. new \subseteq Entries
      BY DEF FirstOf, Of
    <3>4. acked' = acked /\ consumers' = consumers \cup {w}
      BY <2>1 DEF Read
    <3> HIDE DEF new
    <3> QED BY <3>2, <3>3, <3>4
  <2>2. ASSUME NEW w \in Workers, NEW s \in Streams, Reclaim(w, s) PROVE DroppedInv'
    BY <2>2 DEF Reclaim
  <2>3. ASSUME NEW w \in Workers, NEW c \in Workers, Reap(w, c) PROVE DroppedInv'
    BY <2>3 DEF Reap, Reapable, Pending
  <2>4. ASSUME NEW w \in Workers, Ack(w) PROVE DroppedInv'
    BY <2>4 DEF Ack
  <2>5. ASSUME UNCHANGED <<delivered, pel, acked, consumers>> PROVE DroppedInv'
    BY <2>5
  <2>6. ASSUME NEW w \in Workers, Loop(w) PROVE DroppedInv'
    BY <2>1, <2>2, <2>3, <2>6 DEF Loop
  <2>7. ASSUME NEW w \in Workers, Handle(w) PROVE DroppedInv'
    <3>1. Ack(w) \/ UNCHANGED <<delivered, pel, acked, consumers>>
      BY <2>7 DEF Handle, Exchange, StoreTelemetry, Claim, StoreEvents, ReleaseEvents,
                  StoreState, group
    <3> QED BY <2>4, <2>5, <3>1
  <2>8. ASSUME NEW w \in Workers, Fail(w) \/ Die(w) \/ GrowIdle(w) PROVE DroppedInv'
    BY <2>5, <2>8 DEF Fail, Die, GrowIdle, group
  <2>9. CASE UNCHANGED vars
    BY <2>5, <2>9 DEF vars
  <2> QED BY <2>6, <2>7, <2>8, <2>9 DEF Next
<1>3. DroppedInv => NothingDropped
  BY DEF DroppedInv
<1> QED BY <1>1, <1>2, <1>3, PTL DEF Spec

-----------------------------------------------------------------------------
(* Events: a key in Redis stands for one reception, in hand or stored.         *)

\* The events of which the worker holds the keys.
Holds(t) == IF t.pc \in {"events", "events_store", "events_release"} THEN t.fresh ELSE {}

EventInv ==
    /\ db.events \in [Of("events") -> {0, 1}]
    /\ \A e \in Of("events") : db.events[e] = 1 => DedupKey[e] \in claims
    /\ \A e, f \in Of("events") :
         db.events[e] = 1 /\ db.events[f] = 1 /\ DedupKey[e] = DedupKey[f] => e = f
    /\ \A w \in Workers : \A e \in Holds(work[w]) :
         /\ DedupKey[e] \in claims
         /\ \A f \in Of("events") : DedupKey[f] = DedupKey[e] => db.events[f] = 0
         /\ \A v \in Workers : \A f \in Holds(work[v]) :
              DedupKey[f] = DedupKey[e] => v = w /\ f = e

\* A worker that moves without taking or giving up a key for good.
LEMMA EventsStay ==
    ASSUME DOMAIN work = Workers, EventInv, NEW w \in Workers, NEW t,
           work' = [work EXCEPT ![w] = t], Holds(t) \subseteq Holds(work[w]),
           db'.events = db.events, claims' = claims
    PROVE  EventInv'
<1>1. \A x \in Workers : Holds(work'[x]) \subseteq Holds(work[x])
  BY DEF Holds
<1>2. /\ db'.events \in [Of("events") -> {0, 1}]
      /\ \A e \in Of("events") : db'.events[e] = 1 => DedupKey[e] \in claims'
      /\ \A e, f \in Of("events") :
           db'.events[e] = 1 /\ db'.events[f] = 1 /\ DedupKey[e] = DedupKey[f] => e = f
  BY DEF EventInv
<1>3. ASSUME NEW x \in Workers, NEW e \in Holds(work'[x])
      PROVE  /\ DedupKey[e] \in claims'
             /\ \A f \in Of("events") : DedupKey[f] = DedupKey[e] => db'.events[f] = 0
             /\ \A v \in Workers : \A f \in Holds(work'[v]) :
                  DedupKey[f] = DedupKey[e] => v = x /\ f = e
  BY <1>1 DEF EventInv
<1> QED BY <1>2, <1>3 DEF EventInv, Holds, Of

LEMMA EventsClaim ==
    ASSUME Shape, EventInv, NEW w \in Workers, Claim(w) PROVE EventInv'
<1> DEFINE e == Min(work[w].left)
           fresh == work[w].fresh \cup Fresh(e)
           pc == IF work[w].left # {e} THEN "events"
                 ELSE IF fresh = {} THEN "ack" ELSE "events_store"
           t == [work[w] EXCEPT !.left = work[w].left \ {e}, !.fresh = fresh, !.pc = pc]
<1>0. /\ DOMAIN work[w] = {"pc", "todo", "batch", "left", "fresh", "prev"}
      /\ DOMAIN work = Workers
  BY DEF Shape
<1>1. /\ work[w].pc = "events" /\ claims' = claims \cup {DedupKey[e]} /\ db' = db
      /\ work' = [work EXCEPT ![w] = t]
  BY <1>0 DEF Claim
<1>2. t.fresh = fresh /\ t.pc = pc
  BY <1>0
<1>3. Fresh(e) = {} \/ (Fresh(e) = {e} /\ DedupKey[e] \notin claims)
  BY DEF Fresh
<1>4. Holds(work[w]) = work[w].fresh
  BY <1>1 DEF Holds
<1> HIDE DEF t, pc, e
<1>5. Holds(t) \subseteq Holds(work[w]) \cup Fresh(e)
  BY <1>2, <1>4 DEF Holds
<1>6. \A x \in Workers : work'[x] = IF x = w THEN t ELSE work[x]
  BY <1>0, <1>1
<1> DEFINE Old(x, f) == f \in Holds(work[x])
           New(x, f) == x = w /\ f = e /\ DedupKey[e] \notin claims
<1>7. \A x \in Workers : \A f \in Holds(work'[x]) : Old(x, f) \/ New(x, f)
  BY <1>3, <1>5, <1>6
<1>8. ASSUME NEW x \in Workers, NEW f \in Holds(work'[x])
      PROVE  /\ DedupKey[f] \in claims'
             /\ \A g \in Of("events") : DedupKey[g] = DedupKey[f] => db'.events[g] = 0
             /\ \A v \in Workers : \A g \in Holds(work'[v]) :
                  DedupKey[g] = DedupKey[f] => v = x /\ g = f
  <2>1. CASE Old(x, f)
    <3>1. DedupKey[f] \in claims
      BY <2>1 DEF EventInv
    <3>2. \A v \in Workers : \A g \in Holds(work'[v]) :
             DedupKey[g] = DedupKey[f] => Old(v, g)
      BY <1>7, <3>1
    <3> QED BY <1>1, <2>1, <3>1, <3>2 DEF EventInv
  <2>2. CASE New(x, f)
    <3>1. \A v \in Workers : \A g \in Holds(work'[v]) :
             DedupKey[g] = DedupKey[f] => New(v, g)
      BY <1>7, <2>2 DEF EventInv
    <3>2. \A g \in Of("events") : db.events[g] \in {0, 1}
      BY DEF EventInv
    <3>3. \A g \in Of("events") : DedupKey[g] = DedupKey[f] => db.events[g] = 0
      BY <2>2, <3>2 DEF EventInv
    <3> QED BY <1>1, <2>2, <3>1, <3>3
  <2> QED BY <1>7, <2>1, <2>2
<1> HIDE DEF fresh
<1> QED BY <1>1, <1>8 DEF EventInv, Of, Holds

LEMMA EventsStored ==
    ASSUME Shape, EventInv, NEW w \in Workers, StoreEvents(w) PROVE EventInv'
<1> DEFINE t == [work[w] EXCEPT !.pc = "ack"]
<1>0. /\ DOMAIN work[w] = {"pc", "todo", "batch", "left", "fresh", "prev"}
      /\ DOMAIN work = Workers
      /\ DOMAIN db = {"samples", "hot", "rates", "events", "states", "status"}
  BY DEF Shape
<1>1. /\ work[w].pc = "events_store" /\ claims' = claims
      /\ work' = [work EXCEPT ![w] = t]
      /\ db'.events = [e \in Of("events") |-> db.events[e] + IF e \in work[w].fresh THEN 1 ELSE 0]
  BY <1>0 DEF StoreEvents, WithEvents, EventInv
<1>2. Holds(work[w]) = work[w].fresh /\ t.pc = "ack"
  BY <1>0, <1>1 DEF Holds
<1> HIDE DEF t
<1>3. Holds(t) = {}
  BY <1>2 DEF Holds
<1>4. \A x \in Workers : Holds(work'[x]) = IF x = w THEN {} ELSE Holds(work[x])
  BY <1>0, <1>1, <1>3
<1>5. \A e \in Of("events") :
        /\ db.events[e] \in {0, 1}
        /\ e \in work[w].fresh => db.events[e] = 0
  BY <1>2 DEF EventInv
<1>6. \A e \in Of("events") :
        db'.events[e] = IF e \in work[w].fresh THEN 1 ELSE db.events[e]
  BY <1>1, <1>5
<1>7. db'.events \in [Of("events") -> {0, 1}]
  BY <1>1, <1>5, <1>6
<1>8. \A e \in Of("events") : db'.events[e] = 1 => DedupKey[e] \in claims'
  BY <1>1, <1>2, <1>6 DEF EventInv
<1>9. \A e, f \in Of("events") :
        db'.events[e] = 1 /\ db'.events[f] = 1 /\ DedupKey[e] = DedupKey[f] => e = f
  BY <1>2, <1>6 DEF EventInv
<1>10. ASSUME NEW x \in Workers, NEW e \in Holds(work'[x])
       PROVE  /\ DedupKey[e] \in claims'
              /\ \A f \in Of("events") : DedupKey[f] = DedupKey[e] => db'.events[f] = 0
              /\ \A v \in Workers : \A f \in Holds(work'[v]) :
                   DedupKey[f] = DedupKey[e] => v = x /\ f = e
  <2>1. x # w /\ e \in Holds(work[x])
    BY <1>4
  <2>2. \A f \in work[w].fresh : DedupKey[f] # DedupKey[e]
    BY <1>2, <2>1 DEF EventInv
  <2> QED BY <1>1, <1>4, <1>6, <2>1, <2>2 DEF EventInv
<1> QED BY <1>7, <1>8, <1>9, <1>10 DEF EventInv, Of, Holds

LEMMA EventsReleased ==
    ASSUME Shape, EventInv, NEW w \in Workers, ReleaseEvents(w) PROVE EventInv'
<1>0. DOMAIN work = Workers
  BY DEF Shape
<1>1. /\ work[w].pc = "events_release" /\ db' = db
      /\ claims' = claims \ {DedupKey[e] : e \in work[w].fresh}
      /\ work' = [work EXCEPT ![w] = Idle]
  BY DEF ReleaseEvents, Raised
<1>2. Holds(work[w]) = work[w].fresh /\ Holds(Idle) = {}
  BY <1>1, IdleFacts DEF Holds
<1>3. \A x \in Workers : Holds(work'[x]) = IF x = w THEN {} ELSE Holds(work[x])
  BY <1>0, <1>1, <1>2
<1>4. \A e \in Of("events") : db.events[e] = 1 => DedupKey[e] \in claims'
  BY <1>1, <1>2 DEF EventInv
<1>5. ASSUME NEW x \in Workers, NEW e \in Holds(work'[x])
      PROVE  /\ DedupKey[e] \in claims'
             /\ \A f \in Of("events") : DedupKey[f] = DedupKey[e] => db'.events[f] = 0
             /\ \A v \in Workers : \A f \in Holds(work'[v]) :
                  DedupKey[f] = DedupKey[e] => v = x /\ f = e
  <2>1. x # w /\ e \in Holds(work[x])
    BY <1>3
  <2>2. \A f \in work[w].fresh : DedupKey[f] # DedupKey[e]
    BY <1>2, <2>1 DEF EventInv
  <2> QED BY <1>1, <1>3, <2>1, <2>2 DEF EventInv
<1> QED BY <1>1, <1>4, <1>5 DEF EventInv, Of, Holds

LEMMA EventsStep ==
    ASSUME ~CommitsLost
    PROVE  IngestInv /\ EventInv /\ [Next]_vars => EventInv'
<1> SUFFICES ASSUME IngestInv, EventInv, [Next]_vars PROVE EventInv'
  OBVIOUS
<1>0. Shape /\ DOMAIN work = Workers
      /\ DOMAIN db = {"samples", "hot", "rates", "events", "states", "status"}
      /\ \A w \in Workers :
           DOMAIN work[w] = {"pc", "todo", "batch", "left", "fresh", "prev"}
           /\ work[w].todo \subseteq Entries
  BY DEF IngestInv, Shape
<1>1. \A todo \in SUBSET Entries : Holds(Start(todo)) = {}
  BY StartFacts DEF Holds
<1>2. Holds(Idle) = {}
  BY IdleFacts DEF Holds
<1>3. CASE work' = work /\ db' = db /\ claims' = claims
  BY <1>3 DEF EventInv, Holds, Of
<1>4. ASSUME NEW w \in Workers, Loop(w) PROVE EventInv'
  <2>1. db' = db /\ claims' = claims
    BY <1>4 DEF Loop, Read, Reclaim, Reap
  <2>2. work' = work \/ \E todo \in SUBSET Entries : work' = [work EXCEPT ![w] = Start(todo)]
    BY <1>4, LoopStarts
  <2> QED BY <1>0, <1>1, <1>3, <2>1, <2>2, EventsStay
<1>5. ASSUME NEW w \in Workers, Handle(w) PROVE EventInv'
  <2>1. CASE Claim(w) \/ StoreEvents(w) \/ ReleaseEvents(w)
    BY <1>0, <2>1, EventsClaim, EventsStored, EventsReleased
  <2>2. CASE Exchange(w)
    <3> DEFINE t == [work[w] EXCEPT !.pc = "telemetry_store", !.prev = baseline]
    <3>1. work' = [work EXCEPT ![w] = t] /\ db' = db /\ claims' = claims
      BY <2>2 DEF Exchange
    <3>2. Holds(t) = {}
      BY <1>0 DEF Holds
    <3> QED BY <1>0, <3>1, <3>2, EventsStay
  <2>3. CASE StoreTelemetry(w) \/ StoreState(w)
    <3> DEFINE t == [work[w] EXCEPT !.pc = "ack"]
    <3>1. work' = [work EXCEPT ![w] = t] /\ db'.events = db.events /\ claims' = claims
      BY <1>0, <2>3 DEF StoreTelemetry, StoreState
    <3>2. Holds(t) = {}
      BY <1>0 DEF Holds
    <3> QED BY <1>0, <3>1, <3>2, EventsStay
  <2>4. CASE Ack(w)
    <3>1. work' = [work EXCEPT ![w] = NextStream(work[w])] /\ db' = db /\ claims' = claims
      BY <1>0, <2>4 DEF Ack
    <3>2. Holds(NextStream(work[w])) = {}
      BY <1>0, <1>1, <1>2 DEF NextStream
    <3> QED BY <1>0, <3>1, <3>2, EventsStay
  <2> QED BY <1>5, <2>1, <2>2, <2>3, <2>4 DEF Handle
<1>6. ASSUME NEW w \in Workers, Fail(w) \/ Die(w) \/ GrowIdle(w) PROVE EventInv'
  <2> DEFINE t == [work[w] EXCEPT !.pc = "events_release"]
  <2>1. /\ db' = db /\ claims' = claims
        /\ \/ work' = work \/ work' = [work EXCEPT ![w] = Idle]
           \/ work[w].pc = "events_store" /\ work' = [work EXCEPT ![w] = t]
    BY <1>6 DEF Fail, Die, GrowIdle, Raised
  <2>2. work[w].pc = "events_store" => Holds(t) \subseteq Holds(work[w])
    BY <1>0 DEF Holds
  <2> HIDE DEF t
  <2> QED BY <1>0, <1>2, <1>3, <2>1, <2>2, EventsStay
<1>7. CASE UNCHANGED vars
  BY <1>3, <1>7 DEF vars
<1> QED BY <1>4, <1>5, <1>6, <1>7 DEF Next

\* An event is stored once, whoever received it and however often it was
\* delivered, if a commit that is reported as failed was not applied: its key is
\* in one worker's hands, or the event is in the database.
THEOREM EventsAreStoredOnce ==
    ASSUME ~CommitsLost
    PROVE  Spec => []EventStoredOnce
<1>1. Init => IngestInv /\ EventInv
  <2> SUFFICES ASSUME Init PROVE EventInv
    BY IngestInitially
  <2>1. \A w \in Workers : Holds(work[w]) = {}
    BY IdleFacts DEF Init, Holds
  <2> QED BY <2>1 DEF Init, EventInv
<1>2. IngestInv /\ EventInv /\ [Next]_vars => (IngestInv /\ EventInv)'
  BY IngestStep, EventsStep
<1>3. EventInv => EventStoredOnce
  <2> SUFFICES ASSUME EventInv PROVE EventStoredOnce
    OBVIOUS
  <2>1. \A e \in Of("events") : db.events[e] \in {0, 1}
    BY DEF EventInv
  <2> QED BY <2>1 DEF EventInv, EventStoredOnce
<1> QED BY <1>1, <1>2, <1>3, PTL DEF Spec

-----------------------------------------------------------------------------
(* Counters: the intervals that rates cover follow one another.                *)

\* Entries are delivered in finite numbers, and only those are in any hands.
Delivered ==
    /\ \E n \in Nat : \A e \in delivered : e <= n
    /\ delivered \subseteq Entries /\ idle \subseteq delivered
    /\ \A e \in Entries : pel[e] # None => e \in delivered
    /\ \A w \in Workers : work[w].todo \cup work[w].batch \subseteq delivered

\* What a worker has in hand while it handles telemetry.
Counters(t) ==
    /\ t.pc \in {"telemetry", "telemetry_store"} =>
         t.batch # {} /\ t.batch \subseteq Of("telemetry")
    /\ t.pc = "telemetry_store" => t.prev \in Of("telemetry") \cup {None}

\* An exchange that put the baseline forward: rates may come of it, or have.
Exchanged(t) == t.pc = "telemetry_store" /\ t.prev # None /\ t.prev < Max(t.batch)
Spans == {[from |-> r.from, upto |-> r.upto] : r \in db.rates}
         \cup {[from |-> work[w].prev, upto |-> Max(work[w].batch)] :
                 w \in {w \in Workers : Exchanged(work[w])}}

CounterInv ==
    /\ \A w \in Workers : Counters(work[w])
    /\ baseline \in Of("telemetry") \cup {None}
    /\ \A r \in db.rates :
         /\ {r.from, r.to, r.upto} \subseteq Of("telemetry")
         /\ r.to <= r.upto /\ r.delta \in derive(r.from, r.to)
    /\ \A s \in Spans : baseline # None /\ s.upto <= baseline
    /\ \A s, t \in Spans : s.upto < t.upto => s.upto <= t.from

\* What is delivered stays in known hands.
LEMMA DeliveredStep == IngestInv /\ Delivered /\ [Next]_vars => Delivered'
<1> SUFFICES ASSUME IngestInv, Delivered, [Next]_vars PROVE Delivered'
  OBVIOUS
<1>0. /\ DOMAIN work = Workers /\ None \notin Workers
      /\ \A w \in Workers :
           DOMAIN work[w] = {"pc", "todo", "batch", "left", "fresh", "prev"}
  BY IngestAssumption DEF IngestInv, Shape
<1>1. ASSUME NEW w \in Workers, NEW t, work' = [work EXCEPT ![w] = t],
             t.todo \cup t.batch \subseteq delivered', delivered \subseteq delivered'
      PROVE  \A x \in Workers : work'[x].todo \cup work'[x].batch \subseteq delivered'
  <2>1. \A x \in Workers : work'[x] = IF x = w THEN t ELSE work[x]
    BY <1>0, <1>1
  <2> QED BY <1>1, <2>1 DEF Delivered
<1>2. ASSUME NEW w \in Workers, Read(w) PROVE Delivered'
  <2>1. PICK upto \in Entries :
          LET new == UNION {FirstOf({e \in Of(s) \ delivered : e <= upto}) : s \in Streams}
          IN /\ delivered' = delivered \cup new
             /\ pel' = [e \in Entries |-> IF e \in new THEN w ELSE pel[e]]
             /\ work' = [work EXCEPT ![w] = Start(new)]
    BY <1>2 DEF Read
  <2> DEFINE new == UNION {FirstOf({e \in Of(s) \ delivered : e <= upto}) : s \in Streams}
  <2>2. new \subseteq Entries /\ \A e \in new : e <= upto
    BY DEF FirstOf, Of
  <2>3. /\ delivered' = delivered \cup new
        /\ pel' = [e \in Entries |-> IF e \in new THEN w ELSE pel[e]]
        /\ work' = [work EXCEPT ![w] = Start(new)] /\ idle' = idle
    BY <1>2, <2>1 DEF Read
  <2> HIDE DEF new
  <2>4. Start(new).todo \cup Start(new).batch \subseteq delivered'
    BY <2>2, <2>3, StartFacts
  <2>5. \E n \in Nat : \A e \in delivered' : e <= n
    <3>1. PICK n \in Nat : \A e \in delivered : e <= n
      BY DEF Delivered
    <3>2. upto \in Nat /\ \A e \in delivered' : e \in Nat
      BY <2>2, <2>3, IngestAssumption DEF Delivered
    <3>3. CASE upto <= n
      BY <2>2, <2>3, <3>1, <3>2, <3>3
    <3>4. CASE n <= upto
      BY <2>2, <2>3, <3>1, <3>2, <3>4
    <3> QED BY <3>2, <3>3, <3>4
  <2>6. \A x \in Workers : work'[x].todo \cup work'[x].batch \subseteq delivered'
    BY <1>1, <2>3, <2>4
  <2> QED BY <2>2, <2>3, <2>5, <2>6 DEF Delivered
<1>3. ASSUME NEW w \in Workers, NEW s \in Streams, Reclaim(w, s) PROVE Delivered'
  <2>1. Of(s) \cap idle \in SUBSET Entries /\ idle \subseteq delivered
    BY DEF Delivered, Of
  <2>2. /\ work' = [work EXCEPT ![w] = Start(Of(s) \cap idle)]
        /\ delivered' = delivered /\ idle' \subseteq idle
        /\ \A e \in Entries : pel'[e] # None => e \in idle \/ pel[e] # None
    BY <1>3 DEF Reclaim
  <2>3. Start(Of(s) \cap idle).todo \cup Start(Of(s) \cap idle).batch \subseteq delivered'
    BY <2>1, <2>2, StartFacts
  <2>4. \A x \in Workers : work'[x].todo \cup work'[x].batch \subseteq delivered'
    BY <1>1, <2>2, <2>3
  <2> QED BY <2>1, <2>2, <2>4 DEF Delivered
<1>4. ASSUME NEW w \in Workers, NEW c \in Workers, Reap(w, c) PROVE Delivered'
  BY <1>4 DEF Reap, Delivered
<1>5. ASSUME NEW w \in Workers, NEW t, work' = [work EXCEPT ![w] = t],
             t.todo \cup t.batch \subseteq work[w].todo \cup work[w].batch,
             delivered' = delivered, idle' \subseteq idle,
             \A e \in Entries : pel'[e] # None => pel[e] # None
      PROVE  Delivered'
  BY <1>1, <1>5 DEF Delivered
<1>6. ASSUME NEW w \in Workers, Handle(w) PROVE Delivered'
  <2>1. CASE Ack(w)
    <3>1. /\ work' = [work EXCEPT ![w] = NextStream(work[w])]
          /\ delivered' = delivered /\ idle' \subseteq idle
          /\ \A e \in Entries : pel'[e] # None => pel[e] # None
      BY <1>0, <2>1 DEF Ack
    <3>2. NextStream(work[w]).todo \cup NextStream(work[w]).batch \subseteq work[w].todo
      BY StartFacts, IdleFacts DEF NextStream, IngestInv, Shape
    <3> QED BY <1>5, <3>1, <3>2
  <2>2. CASE ~Ack(w)
    <3>1. delivered' = delivered /\ idle' = idle /\ pel' = pel
      BY <1>6, <2>2 DEF Handle, Exchange, StoreTelemetry, Claim, StoreEvents, ReleaseEvents,
                        StoreState, group
    <3>2. \E t : /\ work' = [work EXCEPT ![w] = t]
                 /\ t.todo \cup t.batch \subseteq work[w].todo \cup work[w].batch
      <4>1. CASE Exchange(w)
        <5> DEFINE t == [work[w] EXCEPT !.pc = "telemetry_store", !.prev = baseline]
        <5>1. work' = [work EXCEPT ![w] = t]
          BY <4>1 DEF Exchange
        <5>2. t.todo = work[w].todo /\ t.batch = work[w].batch
          BY <1>0
        <5> QED BY <5>1, <5>2
      <4>2. CASE StoreTelemetry(w) \/ StoreEvents(w) \/ StoreState(w)
        <5> DEFINE t == [work[w] EXCEPT !.pc = "ack"]
        <5>1. work' = [work EXCEPT ![w] = t]
          BY <4>2 DEF StoreTelemetry, StoreEvents, StoreState
        <5>2. t.todo = work[w].todo /\ t.batch = work[w].batch
          BY <1>0
        <5> QED BY <5>1, <5>2
      <4>3. CASE Claim(w)
        <5>1. PICK l, f, p : work' = [work EXCEPT ![w].left = l, ![w].fresh = f, ![w].pc = p]
          BY <4>3 DEF Claim
        <5> DEFINE t == [work[w] EXCEPT !.left = l, !.fresh = f, !.pc = p]
        <5>3. work' = [work EXCEPT ![w] = t]
          BY <1>0, <5>1
        <5>2. t.todo = work[w].todo /\ t.batch = work[w].batch
          BY <1>0
        <5> QED BY <5>2, <5>3
      <4>4. CASE ReleaseEvents(w)
        BY <4>4, IdleFacts DEF ReleaseEvents, Raised
      <4> QED BY <1>6, <2>2, <4>1, <4>2, <4>3, <4>4 DEF Handle
    <3> QED BY <1>5, <3>1, <3>2
  <2> QED BY <2>1, <2>2
<1>7. ASSUME NEW w \in Workers, Fail(w) \/ Die(w) PROVE Delivered'
  <2> DEFINE t == [work[w] EXCEPT !.pc = "events_release"]
  <2>1. /\ delivered' = delivered /\ idle' = idle /\ pel' = pel
        /\ work' = [work EXCEPT ![w] = Idle] \/ work' = [work EXCEPT ![w] = t]
    BY <1>7 DEF Fail, Die, Raised, group
  <2>2. t.todo = work[w].todo /\ t.batch = work[w].batch
    BY <1>0
  <2> HIDE DEF t
  <2> QED BY <1>5, <2>1, <2>2, IdleFacts
<1>8. ASSUME NEW w \in Workers, GrowIdle(w) PROVE Delivered'
  <2>1. Pending(w) \subseteq delivered
    BY <1>0 DEF Pending, Delivered
  <2> QED BY <1>8, <2>1 DEF GrowIdle, Delivered
<1>9. CASE UNCHANGED vars
  BY <1>9 DEF vars, Delivered
<1> QED BY <1>2, <1>3, <1>4, <1>6, <1>7, <1>8, <1>9 DEF Next, Loop

\* A batch has a newest entry.
LEMMA NewestIsThere ==
    ASSUME NEW n \in Nat, NEW S \in SUBSET Nat, S # {}, \A e \in S : e <= n
    PROVE  Max(S) \in S /\ \A e \in S : e <= Max(S)
<1> DEFINE T == {n - e : e \in S}
<1>1. T \subseteq Nat /\ T # {}
  <2>1. \A e \in S : n - e \in Nat
    OBVIOUS
  <2>2. PICK e \in S : TRUE
    OBVIOUS
  <2>3. n - e \in T
    OBVIOUS
  <2> QED BY <2>1, <2>3
<1>2. PICK k \in S : \A y \in T : ~(<<y, n - k>> \in OpToRel(<, Nat))
  <2>1. \E x \in T : \A y \in T : ~(<<y, x>> \in OpToRel(<, Nat))
    <3> HIDE DEF T
    <3> QED BY <1>1, NatLessThanWellFounded, WFMin
  <2> QED BY <2>1
<1>3. ASSUME NEW j \in S PROVE k >= j
  <2>1. n - j \in T /\ n - j \in Nat /\ n - k \in Nat
    OBVIOUS
  <2>2. ~(n - j < n - k)
    BY <1>2, <2>1 DEF OpToRel
  <2> QED BY <2>2
<1>4. \E x \in S : \A y \in S : x >= y
  BY <1>3
<1>5. Max(S) \in S /\ \A y \in S : Max(S) >= y
  BY <1>4 DEF Max
<1> QED BY <1>5

LEMMA BatchFacts ==
    ASSUME Delivered, NEW w \in Workers, Counters(work[w]),
           work[w].pc \in {"telemetry", "telemetry_store"}
    PROVE  /\ Max(work[w].batch) \in work[w].batch
           /\ Max(work[w].batch) \in Of("telemetry") /\ Max(work[w].batch) \in Nat
           /\ \A e \in work[w].batch :
                e \in Of("telemetry") /\ e \in Nat /\ e <= Max(work[w].batch)
<1> DEFINE S == work[w].batch
<1>1. S # {} /\ S \subseteq Of("telemetry") /\ S \subseteq delivered
  BY DEF Counters, Delivered
<1>2. S \in SUBSET Nat
  BY <1>1, IngestAssumption DEF Of
<1>3. PICK n \in Nat : \A e \in S : e <= n
  BY <1>1 DEF Delivered
<1> HIDE DEF S
<1>4. Max(S) \in S /\ \A e \in S : e <= Max(S)
  BY <1>1, <1>2, <1>3, NewestIsThere
<1> QED BY <1>1, <1>2, <1>4 DEF S

\* A worker that neither exchanges nor stores.
LEMMA CountersStay ==
    ASSUME DOMAIN work = Workers, CounterInv, NEW w \in Workers, NEW t,
           work' = [work EXCEPT ![w] = t], Counters(t), ~Exchanged(t),
           baseline' = baseline, db'.rates = db.rates
    PROVE  CounterInv'
<1>1. \A x \in Workers : work'[x] = IF x = w THEN t ELSE work[x]
  OBVIOUS
<1>2. \A x \in Workers : Counters(work'[x])
  BY <1>1 DEF CounterInv
<1>3. Spans' \subseteq Spans
  BY <1>1 DEF Spans, Exchanged
<1> QED BY <1>2, <1>3 DEF CounterInv, Counters, Of, derive, Derived

\* The exchange hands over the baseline: whatever was covered ends before it.
LEMMA CountersExchange ==
    ASSUME Shape, Delivered, CounterInv, NEW w \in Workers, Exchange(w)
    PROVE  CounterInv'
<1> DEFINE t == [work[w] EXCEPT !.pc = "telemetry_store", !.prev = baseline]
           last == Max(work[w].batch)
<1>0. /\ DOMAIN work[w] = {"pc", "todo", "batch", "left", "fresh", "prev"}
      /\ DOMAIN work = Workers
  BY DEF Shape
<1>1. /\ work[w].pc = "telemetry" /\ work' = [work EXCEPT ![w] = t] /\ db' = db
      /\ baseline' = IF baseline # None /\ baseline >= last THEN baseline ELSE last
  BY DEF Exchange
<1>2. t.pc = "telemetry_store" /\ t.prev = baseline /\ t.batch = work[w].batch
  BY <1>0
<1>3. last \in Of("telemetry") /\ last \in Nat
  BY <1>1, BatchFacts DEF CounterInv
<1>4. baseline \in Of("telemetry") \cup {None} /\ None \notin Nat /\ Of("telemetry") \subseteq Nat
  BY IngestAssumption DEF CounterInv, Of
<1> HIDE DEF t, last
<1>5. Counters(t)
  BY <1>1, <1>2, <1>4 DEF CounterInv, Counters
<1>6. \A x \in Workers : work'[x] = IF x = w THEN t ELSE work[x]
  BY <1>0, <1>1
<1>7. baseline' \in Of("telemetry")
  BY <1>1, <1>3, <1>4
<1>8. /\ baseline' >= last
      /\ baseline # None => baseline' >= baseline
  BY <1>1, <1>3, <1>4
<1> DEFINE new == [from |-> baseline, upto |-> last]
<1>9. \A s \in Spans' : s \in Spans \/ (s = new /\ baseline # None /\ baseline < last)
  BY <1>1, <1>2, <1>6 DEF Spans, Exchanged, last
<1>10. \A s \in Spans : baseline # None /\ s.upto <= baseline
  BY DEF CounterInv
<1>11. \A s \in Spans : s.upto \in Nat
  <2>1. \A r \in db.rates : r.upto \in Nat
    BY <1>4 DEF CounterInv
  <2>2. \A x \in Workers : Exchanged(work[x]) => Max(work[x].batch) \in Nat
    BY BatchFacts DEF CounterInv, Exchanged
  <2> QED BY <2>1, <2>2 DEF Spans
<1>12. \A s \in Spans' : baseline' # None /\ s.upto <= baseline'
  BY <1>3, <1>4, <1>7, <1>8, <1>9, <1>10, <1>11
<1>13. ASSUME NEW s \in Spans', NEW q \in Spans', s.upto < q.upto PROVE s.upto <= q.from
  <2>1. CASE s \in Spans /\ q \in Spans
    BY <1>13, <2>1 DEF CounterInv
  <2>2. CASE s \in Spans /\ q = new
    BY <1>10, <2>2
  <2>3. CASE s = new /\ baseline # None /\ baseline < last /\ q \in Spans
    BY <1>3, <1>4, <1>10, <1>11, <1>13, <2>3
  <2>4. CASE s = new /\ q = new
    BY <1>3, <1>13, <2>4
  <2> QED BY <1>9, <2>1, <2>2, <2>3, <2>4
<1>14. \A x \in Workers : Counters(work'[x])
  BY <1>5, <1>6 DEF CounterInv
<1>15. \A r \in db'.rates :
         /\ {r.from, r.to, r.upto} \subseteq Of("telemetry")
         /\ r.to <= r.upto /\ r.delta \in derive(r.from, r.to)
  BY <1>1 DEF CounterInv
<1> QED BY <1>7, <1>12, <1>13, <1>14, <1>15 DEF CounterInv, Counters, Of, derive, Derived

\* The store writes rates of the interval that the exchange handed over.
LEMMA CountersStore ==
    ASSUME Shape, Delivered, CounterInv, NEW w \in Workers, StoreTelemetry(w)
    PROVE  CounterInv'
<1> DEFINE t == [work[w] EXCEPT !.pc = "ack"]
           prev == work[w].prev
           last == Max(work[w].batch)
<1>0. /\ DOMAIN work[w] = {"pc", "todo", "batch", "left", "fresh", "prev"}
      /\ DOMAIN work = Workers
      /\ DOMAIN db = {"samples", "hot", "rates", "events", "states", "status"}
  BY DEF Shape
<1>1. /\ work[w].pc = "telemetry_store" /\ work' = [work EXCEPT ![w] = t]
      /\ baseline' = baseline /\ db'.rates = db.rates \cup NewRates(w)
  BY <1>0 DEF StoreTelemetry
<1>2. /\ last \in Of("telemetry") /\ last \in Nat
      /\ \A e \in work[w].batch : e \in Of("telemetry") /\ e \in Nat /\ e <= last
      /\ prev \in Of("telemetry") \cup {None}
      /\ Of("telemetry") \subseteq Nat
  BY <1>1, BatchFacts, IngestAssumption DEF CounterInv, Counters, Of
<1>3. t.pc = "ack"
  BY <1>0
<1> HIDE DEF t
<1>4. \A x \in Workers : work'[x] = IF x = w THEN t ELSE work[x]
  BY <1>0, <1>1
<1>5. ASSUME NEW r \in NewRates(w)
      PROVE  /\ r.from = prev /\ r.upto = last /\ r.to \in work[w].batch
             /\ r.delta \in derive(prev, r.to)
  BY DEF NewRates
<1> HIDE DEF prev, last
<1>6. ASSUME NEW r \in NewRates(w)
      PROVE  /\ {r.from, r.to, r.upto} \subseteq Of("telemetry") /\ r.to <= r.upto
             /\ r.delta \in derive(r.from, r.to) /\ prev # None /\ prev < last
  <2>1. prev # None /\ ~(prev >= r.to)
    BY <1>5 DEF derive
  <2>2. prev \in Nat /\ r.to \in Nat /\ r.to <= last
    BY <1>2, <1>5, <2>1
  <2> QED BY <1>2, <1>5, <2>1, <2>2
<1>7. \A r \in NewRates(w) : [from |-> r.from, upto |-> r.upto] \in Spans
  <2>1. ASSUME NEW r \in NewRates(w) PROVE Exchanged(work[w])
    BY <1>1, <1>6 DEF Exchanged, prev, last
  <2>2. Exchanged(work[w]) => [from |-> prev, upto |-> last] \in Spans
    BY DEF Spans, prev, last
  <2> QED BY <1>5, <2>1, <2>2
<1>8. Spans' \subseteq Spans
  <2>1. \A r \in db'.rates : [from |-> r.from, upto |-> r.upto] \in Spans
    BY <1>1, <1>7 DEF Spans
  <2>2. \A x \in Workers : Exchanged(work'[x]) => work'[x] = work[x] /\ Exchanged(work[x])
    BY <1>3, <1>4 DEF Exchanged
  <2>3. \A x \in Workers : Exchanged(work'[x]) =>
          [from |-> work'[x].prev, upto |-> Max(work'[x].batch)] \in Spans
    BY <2>2 DEF Spans
  <2> QED BY <2>1, <2>3 DEF Spans, Exchanged
<1>9. \A x \in Workers : Counters(work'[x])
  BY <1>3, <1>4 DEF CounterInv, Counters
<1>10. \A r \in db'.rates :
         /\ {r.from, r.to, r.upto} \subseteq Of("telemetry")
         /\ r.to <= r.upto /\ r.delta \in derive(r.from, r.to)
  BY <1>1, <1>6 DEF CounterInv
<1> QED BY <1>1, <1>8, <1>9, <1>10 DEF CounterInv, Counters, Of, derive, Derived

LEMMA CountersStep == IngestInv /\ Delivered /\ CounterInv /\ [Next]_vars => CounterInv'
<1> SUFFICES ASSUME IngestInv, Delivered, CounterInv, [Next]_vars PROVE CounterInv'
  OBVIOUS
<1>0. /\ Shape /\ DOMAIN work = Workers
      /\ DOMAIN db = {"samples", "hot", "rates", "events", "states", "status"}
      /\ \A w \in Workers :
           /\ DOMAIN work[w] = {"pc", "todo", "batch", "left", "fresh", "prev"}
           /\ work[w].todo \subseteq Entries
  BY DEF IngestInv, Shape
<1>1. \A todo \in SUBSET Entries : Counters(Start(todo)) /\ ~Exchanged(Start(todo))
  BY StartFacts DEF Counters, Exchanged, Streams
<1>2. Counters(Idle) /\ ~Exchanged(Idle)
  BY IdleFacts DEF Counters, Exchanged
<1>3. \A t : t.pc \notin {"telemetry", "telemetry_store"} => Counters(t) /\ ~Exchanged(t)
  BY DEF Counters, Exchanged
<1>4. CASE work' = work /\ baseline' = baseline /\ db'.rates = db.rates
  <2>1. Spans' = Spans
    BY <1>4 DEF Spans, Exchanged
  <2> QED BY <1>4, <2>1 DEF CounterInv, Counters, Of, derive, Derived
<1>5. ASSUME NEW w \in Workers, Loop(w) PROVE CounterInv'
  <2>1. db' = db /\ baseline' = baseline
    BY <1>5 DEF Loop, Read, Reclaim, Reap
  <2>2. work' = work \/ \E todo \in SUBSET Entries : work' = [work EXCEPT ![w] = Start(todo)]
    BY <1>5, LoopStarts
  <2> QED BY <1>0, <1>1, <1>4, <2>1, <2>2, CountersStay
<1>6. ASSUME NEW w \in Workers, Handle(w) PROVE CounterInv'
  <2>1. CASE Exchange(w) \/ StoreTelemetry(w)
    BY <1>0, <2>1, CountersExchange, CountersStore
  <2>2. CASE Claim(w)
    <3> DEFINE l == work[w].left \ {Min(work[w].left)}
               f == work[w].fresh \cup Fresh(Min(work[w].left))
               p == IF work[w].left # {Min(work[w].left)} THEN "events"
                    ELSE IF f = {} THEN "ack" ELSE "events_store"
    <3>1. /\ p \in {"events", "ack", "events_store"}
          /\ work' = [work EXCEPT ![w] = [work[w] EXCEPT !.left = l, !.fresh = f, !.pc = p]]
      BY <1>0, <2>2 DEF Claim
    <3> HIDE DEF l, f, p
    <3> DEFINE t == [work[w] EXCEPT !.left = l, !.fresh = f, !.pc = p]
    <3>2. t.pc = p
      BY <1>0
    <3>3. baseline' = baseline /\ db' = db
      BY <2>2 DEF Claim
    <3> QED BY <1>0, <1>3, <3>1, <3>2, <3>3, CountersStay
  <2>3. CASE StoreEvents(w) \/ StoreState(w)
    <3> DEFINE t == [work[w] EXCEPT !.pc = "ack"]
    <3>1. work' = [work EXCEPT ![w] = t] /\ db'.rates = db.rates /\ baseline' = baseline
      BY <1>0, <2>3 DEF StoreEvents, WithEvents, StoreState
    <3>2. t.pc = "ack"
      BY <1>0
    <3> QED BY <1>0, <1>3, <3>1, <3>2, CountersStay
  <2>4. CASE ReleaseEvents(w)
    BY <1>0, <1>2, <2>4, CountersStay DEF ReleaseEvents, Raised
  <2>5. CASE Ack(w)
    <3>1. work' = [work EXCEPT ![w] = NextStream(work[w])] /\ db' = db /\ baseline' = baseline
      BY <1>0, <2>5 DEF Ack
    <3>2. Counters(NextStream(work[w])) /\ ~Exchanged(NextStream(work[w]))
      BY <1>0, <1>1, <1>2 DEF NextStream
    <3> QED BY <1>0, <3>1, <3>2, CountersStay
  <2> QED BY <1>6, <2>1, <2>2, <2>3, <2>4, <2>5 DEF Handle
<1>7. ASSUME NEW w \in Workers, Fail(w) \/ Die(w) \/ GrowIdle(w) PROVE CounterInv'
  <2> DEFINE t == [work[w] EXCEPT !.pc = "events_release"]
  <2>1. /\ db'.rates = db.rates /\ baseline' = baseline
        /\ \/ work' = work \/ work' = [work EXCEPT ![w] = Idle]
           \/ work' = [work EXCEPT ![w] = t]
    BY <1>0, <1>7 DEF Fail, WithEvents, Die, GrowIdle, Raised
  <2>2. t.pc = "events_release"
    BY <1>0
  <2> HIDE DEF t
  <2> QED BY <1>0, <1>2, <1>3, <1>4, <2>1, <2>2, CountersStay
<1>8. CASE UNCHANGED vars
  BY <1>4, <1>8 DEF vars
<1> QED BY <1>5, <1>6, <1>7, <1>8 DEF Next

LEMMA CountersInitially == Init => IngestInv /\ Delivered /\ CounterInv
<1> SUFFICES ASSUME Init PROVE Delivered /\ CounterInv
  BY IngestInitially
<1>1. \A w \in Workers : work[w] = Idle
  BY DEF Init
<1>2. Delivered
  <2>1. delivered = {} /\ idle = {} /\ pel = [e \in Entries |-> None]
    BY DEF Init
  <2> QED BY <1>1, <2>1, IdleFacts DEF Delivered
<1>3. Spans = {}
  BY <1>1, IdleFacts DEF Init, Spans, Exchanged
<1> QED BY <1>1, <1>2, <1>3, IdleFacts DEF Init, CounterInv, Counters

\* Between two readings no further apart than MaxGap the counter neither starts
\* again nor goes all the way round.
SlowCounter ==
    \A d, e \in Of("telemetry") :
        d < e /\ e - d <= MaxGap => Total[d] <= Total[e] /\ Total[e] - Total[d] < Width

\* A counter that wraps at m and has counted d more.
LEMMA WrapOnce ==
    ASSUME NEW m \in Nat \ {0}, NEW a \in Nat, NEW d \in Nat, d < m
    PROVE  /\ a % m \in 0 .. m - 1 /\ (a + d) % m \in 0 .. m - 1
           /\ (a + d) % m = (a % m) + d \/ (a + d) % m = (a % m) + d - m
<1> DEFINE q == a \div m
           p == (a + d) \div m
           r == a % m
           s == (a + d) % m
<1>1. r \in Int /\ s \in Int /\ q \in Int /\ p \in Int
  OBVIOUS
<1>2. 0 <= r /\ r < m /\ a = m * q + r
  OBVIOUS
<1>3. 0 <= s /\ s < m /\ a + d = m * p + s
  OBVIOUS
<1> HIDE DEF q, p, r, s
<1>4. s = r + d \/ s = r + d - m
  <2> DEFINE k == p - q
  <2>1. k \in Int /\ m * k = r + d - s
    BY <1>1, <1>2, <1>3
  <2>2. m * k > 0 - m /\ m * k < 2 * m
    BY <1>1, <1>2, <1>3, <2>1
  <2> HIDE DEF k
  <2>3. k > 0 - 1 /\ k < 2
    <3>1. CASE k <= 0 - 1
      <4>1. m * k <= 0 - m
        BY <2>1, <3>1
      <4> QED BY <1>1, <2>1, <2>2, <4>1
    <3>2. CASE k >= 2
      <4>1. m * k >= 2 * m
        BY <2>1, <3>2
      <4> QED BY <1>1, <2>1, <2>2, <4>1
    <3> QED BY <2>1, <3>1, <3>2
  <2>4. k = 0 \/ k = 1
    BY <2>1, <2>3
  <2> QED BY <1>1, <2>1, <2>4
<1> QED BY <1>1, <1>2, <1>3, <1>4 DEF r, s

\* A rate that is not discarded is what was counted, a wrap included.
LEMMA DerivedIsCounted ==
    ASSUME SlowCounter, NEW d \in Of("telemetry"), NEW e \in Of("telemetry"),
           NEW delta \in derive(d, e)
    PROVE  delta = Total[e] - Total[d]
<1> DEFINE n == Total[e] - Total[d]
           cur == Total[e] % Width
           was == Total[d] % Width
<1>1. /\ d \in Nat /\ e \in Nat /\ MaxGap \in Nat /\ Width \in Nat \ {0}
      /\ Total[d] \in Nat /\ Total[e] \in Nat
  BY IngestAssumption DEF Of
<1>2. d < e /\ e - d <= MaxGap /\ delta \in Derived(d, e)
  BY <1>1 DEF derive
<1>3. n \in Nat /\ n < Width /\ Total[e] = Total[d] + n
  BY <1>1, <1>2 DEF SlowCounter
<1>4. delta = IF cur >= was THEN cur - was ELSE cur + Width - was
  BY <1>2 DEF Derived
<1> HIDE DEF n
<1>5. /\ was \in 0 .. Width - 1 /\ cur \in 0 .. Width - 1
      /\ cur = was + n \/ cur = was + n - Width
  <2>1. /\ Total[d] % Width \in 0 .. Width - 1 /\ (Total[d] + n) % Width \in 0 .. Width - 1
        /\ \/ (Total[d] + n) % Width = (Total[d] % Width) + n
           \/ (Total[d] + n) % Width = (Total[d] % Width) + n - Width
    BY <1>1, <1>3, WrapOnce
  <2>2. Total[e] % Width = (Total[d] + n) % Width
    BY <1>3
  <2> QED BY <2>1, <2>2
<1> HIDE DEF cur, was
<1>6. delta = n
  BY <1>1, <1>3, <1>4, <1>5
<1> QED BY <1>6 DEF n

\* The rates of two deliveries never overlap: an exchange of the baseline hands
\* every interval to one delivery.
THEOREM RatesAlwaysChain == Spec => []RatesChain
<1>1. Init => IngestInv /\ Delivered /\ CounterInv
  BY CountersInitially
<1>2. IngestInv /\ Delivered /\ CounterInv /\ [Next]_vars
        => (IngestInv /\ Delivered /\ CounterInv)'
  BY IngestStep, DeliveredStep, CountersStep
<1>3. CounterInv => RatesChain
  <2> SUFFICES ASSUME CounterInv, NEW r \in db.rates, NEW q \in db.rates, r.upto < q.upto
               PROVE  r.to <= q.from
    BY DEF RatesChain
  <2>1. r.upto <= q.from
    <3> DEFINE s == [from |-> r.from, upto |-> r.upto]
               t == [from |-> q.from, upto |-> q.upto]
    <3>1. s \in Spans /\ t \in Spans
      BY DEF Spans
    <3>2. s.upto <= t.from
      BY <3>1 DEF CounterInv
    <3> QED BY <3>2
  <2>2. {r.to, r.upto, q.from} \subseteq Nat /\ r.to <= r.upto
    BY IngestAssumption DEF CounterInv, Of
  <2> QED BY <2>1, <2>2
<1> QED BY <1>1, <1>2, <1>3, PTL DEF Spec

\* Every stored rate is what the counter really counted, whatever was delivered
\* twice or late, of a counter that does not lap within the gap allowed.
THEOREM RatesAreTrue == ASSUME SlowCounter PROVE Spec => []RateIsTrue
<1>1. Init => IngestInv /\ Delivered /\ CounterInv
  BY CountersInitially
<1>2. IngestInv /\ Delivered /\ CounterInv /\ [Next]_vars
        => (IngestInv /\ Delivered /\ CounterInv)'
  BY IngestStep, DeliveredStep, CountersStep
<1>3. CounterInv => RateIsTrue
  BY DerivedIsCounted DEF CounterInv, RateIsTrue
<1> QED BY <1>1, <1>2, <1>3, PTL DEF Spec
=============================================================================
