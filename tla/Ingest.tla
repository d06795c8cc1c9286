------------------------------- MODULE Ingest -------------------------------
(* The ingest workers (app/ingest/worker.py): several processes read one     *)
(* Redis consumer group, hand each stream's entries to its handler, commit,   *)
(* and acknowledge.  An entry that is not acknowledged in time is taken over  *)
(* by another worker, whether its first owner is dead, failed or only slow.   *)
(*                                                                            *)
(* An entry is one message: a telemetry sample of one counter and one gauge   *)
(* of one device, one event, or one endpoint state.  Entries are numbered in  *)
(* stream order, which is also the order in which they were observed.         *)
EXTENDS Naturals, FiniteSets, FiniteSetsExt

CONSTANTS
    Workers, Entries, None,
    Stream,      \* [Entries -> {"telemetry", "events", "endpointstate"}]
    Total,       \* [Entries -> Nat]: what the counter has counted so far
    Width,       \* the counter wraps at Width
    MaxGap,      \* ingest_max_counter_gap_s, in entries
    DedupKey,    \* [Entries -> keys]: two receptions of a trap share one
    BatchSize,   \* ingest_batch_size, for each stream
    CommitsLost, \* may a commit that was applied be reported as failed?
    MaxFaults    \* bound: transactions that fail and workers that die
ASSUME IngestAssumption ==
    /\ Entries \subseteq Nat \ {0} /\ None \notin Nat \cup Workers
    /\ Total \in [Entries -> Nat] /\ MaxGap \in Nat
    /\ Width \in Nat \ {0} /\ BatchSize \in Nat \ {0} /\ MaxFaults \in Nat

VARIABLES
    delivered,   \* entries XREADGROUP has handed out
    pel,         \* [Entries -> Workers \cup {None}]: the group's pending list
    idle,        \* pending entries older than ingest_claim_idle_ms
    acked,       \* entries acknowledged
    consumers,   \* consumers the group knows
    work,        \* what each worker is doing
    baseline,    \* Redis: the counter's last reading, an entry
    claims,      \* Redis: event keys claimed
    db,          \* the database
    faults
vars == <<delivered, pel, idle, acked, consumers, work, baseline, claims, db, faults>>
group == <<delivered, pel, idle, acked, consumers>>

Streams == {"telemetry", "events", "endpointstate"}
Of(stream) == {e \in Entries : Stream[e] = stream}
Idle == [pc |-> "idle", todo |-> {}, batch |-> {}, left |-> {}, fresh |-> {},
         prev |-> None]
Database ==
    [samples : SUBSET Of("telemetry"), hot : Of("telemetry") \cup {None},
     rates : SUBSET [from : Of("telemetry"), to : Of("telemetry"), delta : Nat,
                     upto : Of("telemetry")],
     events : [Of("events") -> Nat],
     states : SUBSET Of("endpointstate"), status : Of("endpointstate") \cup {None}]

Init ==
    /\ delivered = {} /\ pel = [e \in Entries |-> None] /\ idle = {} /\ acked = {}
    /\ consumers = Workers /\ work = [w \in Workers |-> Idle]
    /\ baseline = None /\ claims = {} /\ faults = 0
    /\ db = [samples |-> {}, hot |-> None, rates |-> {}, events |-> [e \in Of("events") |-> 0],
             states |-> {}, status |-> None]

-----------------------------------------------------------------------------
(* The loop: _tick, _dispatch, _reclaim_stale, _reap_dead_consumers.          *)

Pending(w) == {e \in Entries : pel[e] = w}
(* The entries of one stream go to its handler, the streams in the order asked for. *)
Start(todo) ==
    LET Left(stream) == {e \in todo : Stream[e] = stream}
        next == CASE Left("telemetry") # {} -> "telemetry"
                  [] Left("telemetry") = {} /\ Left("events") # {} -> "events"
                  [] OTHER -> "endpointstate"
    IN [Idle EXCEPT !.pc = next, !.batch = Left(next), !.left = Left(next),
                    !.todo = todo \ Left(next)]

(* XREADGROUP ">": up to BatchSize new entries of each stream, now pending. *)
FirstOf(S) == {e \in S : Cardinality({f \in S : f < e}) < BatchSize}
Read(w) ==
    /\ work[w].pc = "idle"
    /\ \E upto \in Entries :   \* the newest entry published so far
         LET new == UNION {FirstOf({e \in Of(s) \ delivered : e <= upto}) : s \in Streams}
         IN /\ new # {}
            /\ delivered' = delivered \cup new
            /\ pel' = [e \in Entries |-> IF e \in new THEN w ELSE pel[e]]
            /\ work' = [work EXCEPT ![w] = Start(new)]
    /\ consumers' = consumers \cup {w}
    /\ UNCHANGED <<idle, acked, baseline, claims, db, faults>>

(* Mutant: the entries change hands and nobody handles them. *)
ReclaimOnly(w, stream) ==
    LET taken == Of(stream) \cap idle IN
    /\ work[w].pc = "idle" /\ taken # {}
    /\ pel' = [e \in Entries |-> IF e \in taken THEN w ELSE pel[e]]
    /\ idle' = idle \ taken
    /\ consumers' = consumers \cup {w}
    /\ UNCHANGED <<delivered, acked, work, baseline, claims, db, faults>>
(* XAUTOCLAIM of one stream: the same dispatch, its exceptions suppressed. *)
Reclaim(w, stream) ==
    LET taken == Of(stream) \cap idle IN
    /\ work[w].pc = "idle" /\ taken # {}
    /\ pel' = [e \in Entries |-> IF e \in taken THEN w ELSE pel[e]]
    /\ idle' = idle \ taken
    /\ work' = [work EXCEPT ![w] = Start(taken)]
    /\ consumers' = consumers \cup {w}
    /\ UNCHANGED <<delivered, acked, baseline, claims, db, faults>>

(* Mutant: a consumer that does nothing is taken for dead. *)
ReapableIdle(c) == work[c].pc = "idle"
(* A consumer is forgotten, and with it whatever Redis holds pending for it. *)
Reapable(c) == Pending(c) = {}
Reap(w, c) ==
    /\ work[w].pc = "idle" /\ c # w /\ c \in consumers /\ Reapable(c)
    /\ consumers' = consumers \ {c}
    /\ pel' = [e \in Entries |-> IF pel[e] = c THEN None ELSE pel[e]]
    /\ idle' = idle \ Pending(c)
    /\ UNCHANGED <<delivered, acked, work, baseline, claims, db, faults>>

(* The handler returned: XACK, then the next stream of the same read.  Fan-out *)
(* comes before the XACK and changes nothing here.                             *)
NextStream(t) == IF t.todo = {} THEN Idle ELSE Start(t.todo)
Ack(w) ==
    /\ work[w].pc = "ack"
    /\ acked' = acked \cup work[w].batch
    /\ pel' = [e \in Entries |-> IF e \in work[w].batch THEN None ELSE pel[e]]
    /\ idle' = idle \ work[w].batch
    /\ work' = [work EXCEPT ![w] = NextStream(@)]
    /\ UNCHANGED <<delivered, consumers, baseline, claims, db, faults>>
RaisedAcks(w) == work' = [work EXCEPT ![w].pc = "ack"]   \* mutant
(* The handler raised: the tick is over and its entries stay pending. *)
Raised(w) == work' = [work EXCEPT ![w] = Idle]

-----------------------------------------------------------------------------
(* _handle_telemetry: _exchange_baselines, then one transaction.              *)

(* Mutant: a plain GETSET. *)
ExchangeAlways(w) ==
    /\ work[w].pc = "telemetry"
    /\ work' = [work EXCEPT ![w].pc = "telemetry_store", ![w].prev = baseline]
    /\ baseline' = Max(work[w].batch)
    /\ UNCHANGED <<group, claims, db, faults>>
(* The batch's newest reading is left behind, unless a newer one is there. *)
Exchange(w) ==
    LET last == Max(work[w].batch) IN
    /\ work[w].pc = "telemetry"
    /\ work' = [work EXCEPT ![w].pc = "telemetry_store", ![w].prev = baseline]
    /\ baseline' = IF baseline # None /\ baseline >= last THEN baseline ELSE last
    /\ UNCHANGED <<group, claims, db, faults>>

(* rates.derive on readings modulo Width; {} when the rate is discarded. *)
Derived(from, e) ==
    LET cur == Total[e] % Width
        was == Total[from] % Width
    IN IF cur >= was THEN {cur - was}
       ELSE IF cur + Width - was > Width \div 2 THEN {} ELSE {cur + Width - was}
(* Mutant: time going backwards is not noticed. *)
DeriveLate(from, e) ==
    IF from = None THEN {} ELSE IF e > from + MaxGap THEN {} ELSE Derived(from, e)
derive(from, e) ==
    IF from = None THEN {}
    ELSE IF from >= e \/ e - from > MaxGap THEN {} ELSE Derived(from, e)
(* ON CONFLICT DO NOTHING: a rate already stored for this time stays. *)
NewRates(w) ==
    UNION {{[from |-> work[w].prev, to |-> e, delta |-> d, upto |-> Max(work[w].batch)] :
                d \in derive(work[w].prev, e)} :
           e \in {e \in work[w].batch : \A r \in db.rates : r.to # e}}
StoreTelemetry(w) ==
    /\ work[w].pc = "telemetry_store"
    /\ db' = [db EXCEPT !.samples = @ \cup work[w].batch, !.rates = @ \cup NewRates(w),
                        !.hot = Max(work[w].batch)]
    /\ work' = [work EXCEPT ![w].pc = "ack"]
    /\ UNCHANGED <<group, baseline, claims, faults>>

-----------------------------------------------------------------------------
(* _handle_events: SET NX on every key, _store_events, _release_events.       *)

FreshAlways(e) == {e}   \* mutant
Fresh(e) == IF DedupKey[e] \in claims THEN {} ELSE {e}
Claim(w) ==
    LET e == Min(work[w].left)
        fresh == work[w].fresh \cup Fresh(e)
    IN /\ work[w].pc = "events"
       /\ claims' = claims \cup {DedupKey[e]}
       /\ work' = [work EXCEPT ![w].left = @ \ {e}, ![w].fresh = fresh,
                     ![w].pc = IF work[w].left # {e} THEN "events"
                               ELSE IF fresh = {} THEN "ack" ELSE "events_store"]
       /\ UNCHANGED <<group, baseline, db, faults>>
WithEvents(fresh) ==
    [db EXCEPT !.events = [e \in DOMAIN @ |-> @[e] + IF e \in fresh THEN 1 ELSE 0]]
StoreEvents(w) ==
    /\ work[w].pc = "events_store"
    /\ db' = WithEvents(work[w].fresh)
    /\ work' = [work EXCEPT ![w].pc = "ack"]
    /\ UNCHANGED <<group, baseline, claims, faults>>
ReleaseEvents(w) ==
    /\ work[w].pc = "events_release"
    /\ claims' = claims \ {DedupKey[e] : e \in work[w].fresh}
    /\ Raised(w)
    /\ UNCHANGED <<group, baseline, db, faults>>

-----------------------------------------------------------------------------
(* _handle_endpoint_state: the three passes are one transaction.              *)
StoreState(w) ==
    /\ work[w].pc = "endpointstate"
    /\ db' = [db EXCEPT !.states = @ \cup work[w].batch, !.status = Max(work[w].batch)]
    /\ work' = [work EXCEPT ![w].pc = "ack"]
    /\ UNCHANGED <<group, baseline, claims, faults>>

-----------------------------------------------------------------------------
(* Faults: a transaction rolls back, or is only said to have; a worker dies   *)
(* (another takes its name's place); an entry waits too long.  A store that    *)
(* was applied and reported as failed leaves what dying before the XACK does,  *)
(* except that of events, whose claims are released.                           *)
Fail(w) ==
    /\ faults < MaxFaults /\ faults' = faults + 1
    /\ \/ /\ work[w].pc \in {"telemetry_store", "endpointstate"}
          /\ Raised(w) /\ UNCHANGED db
       \/ /\ work[w].pc = "events_store"
          /\ work' = [work EXCEPT ![w].pc = "events_release"]
          /\ \/ UNCHANGED db
             \/ CommitsLost /\ db' = WithEvents(work[w].fresh)
    /\ UNCHANGED <<group, baseline, claims>>
Die(w) ==
    /\ faults < MaxFaults /\ faults' = faults + 1
    /\ work[w].pc # "idle"
    /\ work' = [work EXCEPT ![w] = Idle]
    /\ UNCHANGED <<group, baseline, claims, db>>
GrowIdle(w) ==
    /\ Pending(w) \ idle # {}
    /\ idle' = idle \cup Pending(w)
    /\ UNCHANGED <<delivered, pel, acked, consumers, work, baseline, claims, db, faults>>

Handle(w) == Exchange(w) \/ StoreTelemetry(w) \/ Claim(w) \/ StoreEvents(w)
             \/ ReleaseEvents(w) \/ StoreState(w) \/ Ack(w)
Loop(w) == Read(w) \/ (\E s \in Streams : Reclaim(w, s)) \/ (\E c \in Workers : Reap(w, c))
Next ==
    \E w \in Workers : Loop(w) \/ Handle(w) \/ Fail(w) \/ Die(w) \/ GrowIdle(w)
Spec == Init /\ [][Next]_vars
(* A worker's loop goes on, time passes, and a pending entry of a busy estate  *)
(* is reached by every worker's XAUTOCLAIM in turn.                            *)
FairSpec ==
    /\ Spec
    /\ \A w \in Workers :
         /\ WF_vars(Handle(w)) /\ WF_vars(Read(w)) /\ WF_vars(GrowIdle(w))
         /\ \A s \in Streams : WF_vars(Reclaim(w, s))

-----------------------------------------------------------------------------
(* The group, the workers, Redis and the database keep their shape. *)
IngestTypeOK ==
    /\ delivered \subseteq Entries /\ acked \subseteq delivered /\ idle \subseteq delivered
    /\ pel \in [Entries -> Workers \cup {None}] /\ consumers \subseteq Workers
    /\ baseline \in Of("telemetry") \cup {None}
    /\ claims \subseteq {DedupKey[e] : e \in Of("events")}
    /\ db \in Database /\ faults \in 0..MaxFaults
    /\ \A w \in Workers : work[w].fresh \cup work[w].left \subseteq work[w].batch
                          /\ work[w].batch \cup work[w].todo \subseteq delivered

(* An entry that was handed out and not acknowledged is pending for a          *)
(* consumer the group knows, so a reclaim finds it: forgetting dead consumers  *)
(* drops nothing.                                                              *)
NothingDropped == \A e \in delivered \ acked : pel[e] \in consumers

(* A telemetry sample or an endpoint state is acknowledged only when it is in  *)
(* the database, whoever acknowledges it.                                      *)
StoredBeforeAck == acked \ Of("events") \subseteq db.samples \cup db.states

(* Every stored rate is what the counter really counted between its two        *)
(* readings, a wrap included, whatever was redelivered or came late.           *)
RateIsTrue == \A r \in db.rates : r.delta = Total[r.to] - Total[r.from]

(* The rates of two deliveries never cover the same interval: their deltas     *)
(* chain instead of overlapping.                                               *)
RatesChain ==
    \A r, q \in db.rates : r.upto < q.upto => r.to <= q.from

(* An event is stored once, however many collectors received it and however    *)
(* often its entry was delivered.                                              *)
EventStoredOnce ==
    \A e, f \in Of("events") :
        DedupKey[e] = DedupKey[f] /\ db.events[f] > 0 =>
            /\ db.events[e] <= 1
            /\ db.events[e] > 0 => e = f

(* Every entry is acknowledged in the end. *)
EveryEntryAcked == <>(acked = Entries)

(* "A crash redelivers rather than loses": an acknowledged event is stored, or *)
(* some worker has it in hand, or another reception of it is still to come.    *)
EventNotLost ==
    \A e \in acked \cap Of("events") :
        \E f \in {f \in Of("events") : DedupKey[f] = DedupKey[e]} :
            db.events[f] > 0 \/ f \notin acked \/ \E w \in Workers : f \in work[w].fresh

(* "The guard is what stops a late redelivery from overwriting newer state     *)
(* with older values": device_state never goes back to an older reading.       *)
HotNeverRegresses == [][db.hot # None => db'.hot >= db.hot]_vars
=============================================================================
