# TLA+ models of the DCIM platform

The platform polls data-centre equipment with a fleet of Go collectors, carries
samples, events and endpoint states to a Python backend over Redis streams, and
turns them into history, alarms, tickets and notifications. This directory
models the parts whose correctness depends on order, concurrency and failure,
model-checks them with TLC and proves the most important results with TLAPS.

`PROJECT.json` lists components, runs, mutants, the definition-to-line map,
findings, hazards and theorems. Every `.cfg` is a TLC configuration of the
module its run names; `*Proofs.tla` hold theorems.

## 1. Inventory

### Collector (Go, `collector/internal`)

| component | state | operations | hard because | correct when |
|---|---|---|---|---|
| scheduler `sched`, target limits `throttle`, `assign`, `app.applyDiff` | jobs, queue, running flags, deferred polls; per-target in-flight count and next start | tick/dispatch, admit, defer, queue or shed, worker, markDone/Done, add/change/remove | two wheels, workers, timers and the assignment goroutine share jobs and limiter | slots balance, limits hold, every endpoint keeps being polled, deferred polls get their turn |
| direct publisher `publish/publish.go` | two queues, ring, drop counter | Telemetry, Events, flush, xadd, Run/stop | partial failure of a flush, lost replies, ring overflow, shutdown | events are never shed or reordered, samples shed oldest first and counted |
| spool `spool` | memory tail, segment files, sequence numbers, replay cursor | Append, flush, rotate, shed, recover, next, Ack | crash at any write, fsync, disk errors; the reader takes no lock | crash loses only memory, the log has no hole, the reader skips nothing |
| gateway publisher `publish/gateway.go` | the record in hand | drain loop, send, back-off | timeouts, late answers, refusals | acknowledged means stored |
| health tracker `health` | status and failure counts per endpoint | Success, Failure, Register, Forget, SetCheckInterval | two wheels report; publication happens outside the lock | published status follows the last result |
| pool budgets `throttle` | token buckets, reservations | Admit, Charge, SetBudgets | reservation settled by another call | what is reserved is settled once |
| commands and self-upgrade `app/upgrade.go`, `update` | marker file, previous binary | handle, stage, re-exec, confirm, watch | crash between any two steps | one working binary, one answer per command |
| adapters, trap reception, discovery, configuration, mTLS, vault | sessions, keys | device I/O, decoding | wire formats | - |

### Backend (Python, `backend/app`)

| component | state | operations | hard because | correct when |
|---|---|---|---|---|
| batches endpoint `services/collector_gateway.py` | Redis stream, last sequence number per collector and stream | check, XADD, commit | two Redis calls; overlapping and repeated requests; API death; key expiry | the number never regresses and covers only stored batches |
| ingest worker `ingest/worker.py`, counter rates `ingest/rates.py` | consumer-group entries, dedup claims, counter baselines, samples and events | read, handlers, commit, acknowledge, reclaim, reap consumers | at-least-once delivery, several workers, slow ones included | what is acknowledged is stored, events once, a rate is the difference of two real readings |
| alarm service and correlation `alarms`, alarm table `repositories/alarms.py` | alarm rows with root and shelving, device roll-up | raise, escalate, clear, correlate, adopt, release, sweeps | roots, symptoms and reports arrive in any order; every path must refresh the roll-up | folding ends at a root, what was held back surfaces, shelving has a reason |
| alarm engine `alarms/engine.py` | dwell state in Redis | evaluate | read-modify-write by several workers | dwell and hysteresis respected |
| ownership `services/sharding.py`, `assigner.py`, `ingest/ownership.py` | `endpoint_assignment`, guard's copy | plan, damp, HA policy, guard | stale copies, failover and failback | one owner at a time as far as the platform can tell, no pool held out |
| rollout `services/rollout.py`, `repositories/commands.py` | rollouts, commands, drain marks | decide, tick, restore | members fail at any step, commands expire | never the last healthy member, no member drained for good |
| tickets `integrations` | outbox rows, link to the issue, inbound events | enqueue, claim, deliver, retry, hold, apply events | a claim commits long before the call ends; people edit the issue meanwhile | a row is in one hand and opens one issue, every row settles |
| email `notifications` | outbox rows, open notifications | enqueue, claim, decide, send, record, prune | the alarm moves on between decision and delivery; workers die after sending | emails in order, who was told of an alarm is told that it ended |
| maintenance windows | window status, targets, shelved alarms | activate, complete, approve, retarget | windows and lifecycle shelve the same rows | shelved only for a standing reason, visible again afterwards |
| websocket hub `websocket/hub.py` | sessions, topics, pending frames | subscribe, route, flush, drop slow consumers | awaits between steps | latest value reaches every subscriber |
| analytics, estate, power, cooling, API, importer, frontend | SQL rows, statistics | queries and edits | - | - |

Interaction: the assignment the backend serves drives the collector's scheduler;
polls feed the health tracker and a publisher; the direct publisher XADDs to
Redis, the gateway publisher drains the spool through the batches endpoint; the
ingest worker consumes the streams and calls alarm service, outboxes and fan-out.

## 2. Modules

| module | models | built on |
|---|---|---|
| `Publisher`, `MCPublisher`, `PublisherProofs` | `publish.go`, shutdown order of `app.go` | |
| `SpoolPartition` | `partition.go`, `spool.go`, `record.go`, `segment.go` | |
| `CollectorGateway` | `collector_gateway.py`; `GatewaySpec` is the endpoint under an arbitrary client | |
| `SpoolDelivery`, `MCSpoolDelivery`, `SpoolDeliveryProofs` | `replay.go`, `gateway.go`; the path from Append to the stream. The theorems cover partition, endpoint and path | `SpoolPartition`, `CollectorGateway` |
| `Scheduler`, `MCScheduler`, `SchedulerProofs` | `sched.go`, target half of `throttle.go`, `assign.go`, `applyDiff` | |
| `Sharding` | the pure policy of `sharding.py` and `assigner.py` | |
| `Fleet`, `MCFleet` | collector rows, pins, ownership record, assigner, operator actions | `Sharding` |
| `RollingUpgrade` | abstract: members leave service one at a time | |
| `Rollout`, `MCRollout`, `RolloutProofs` | `rollout.py`, `commands.py`, `app/upgrade.go`. The theorems cover policy, fleet, rollouts and the refinement | `Fleet`; implements `RollingUpgrade` |
| `Ingest`, `MCIngest`, `IngestProofs` | `worker.py`, `rates.py` and the consumer group | |
| `Alarms`, `MCAlarms`, `AlarmsProofs` | alarm table, correlation, sweeps, maintenance windows, lifecycle | |
| `Notifications`, `NotificationsProofs` | email outbox and notifier | |
| `Tickets`, `TicketsProofs` | ticket outbox, dispatcher, `IssueTarget`, inbox | |

### Publisher

Samples and events are numbered in the order pollers publish them, so "older" is
"smaller". Pollers append (`Telemetry`, `Events`), the flusher goroutine takes
both queues under the lock and then XADDs events and telemetry chunks one
attempt at a time; an attempt is answered, refused, or applied with its reply
lost. Three failures put events back at the head of their queue and a chunk into
the ring, which sheds its oldest. `app` is `App.Run`'s shutdown: the flusher sees
the cancelled context, flushes once more and returns.

### Spool and delivery

`SpoolPartition` has one action per step that a crash or a reader can fall
between: Append, the start of a flush, each write, rotation, fsync, shedding, the
end of the flush. `disk` maps segment indices to frames; `synced` is what an
fsync covered. A kill keeps what was written, the frame being written may be
torn; a power loss keeps at least the synced prefix. Recovery translates
`openPartition`. Simplifications:

- a frame has length 1. A torn frame followed by other bytes could also decode
  to a corrupt record that the gateway refuses; the effect, nothing behind it is
  delivered, is the same;
- a reader holding a shed (unlinked) file is not modelled: it jumps to the
  oldest segment;
- sequence numbers burnt by the retries of a wedged partition are left out;
- power loss does not lose directory entries;
- one of the two partitions. `flushLocked` returns when the bulk partition
  fails, so the other one is then not flushed either.

`SpoolDelivery` adds the reader, which takes no lock - end of file and the look
for a next segment are two actions - and the drain loop: a record in hand, a POST,
its answer, a refusal, or a timeout after which the platform may go on serving
the abandoned request. `CollectorGateway` has the endpoint's steps per request
slot: arrive, duplicate, check, refuse, XADD, commit (compare and set), die, and
expiry of the key.

### Scheduler

A wheel's tick goroutine is a phase machine: `Second` (the ticker), `Dispatch`
(lock, collect candidates, skip running ones), `Admit` per candidate, `Unlock`,
`Enqueue`, `DispatchEnd`. While it admits it holds the scheduler's mutex, so
`Add`, `Change`, `Remove` and `markDone` wait; the limiter has its own mutex, so
`Done` does not. Workers take a job, wait for the host semaphore, poll the
address the job has by then, free the semaphore, and run `markDone` and `Done`.
A job's slot is remembered in `target`, the address really polled in `at`.

Times count down in units of a second's fraction; a tick is exactly one second
and dispatch takes less. `deferred` holds the jobs that a limit refused in the
order they fell due, which is the order `firstDue` sorts them by; jobs that fall
due in one tick come after them in any order. One assignment change affects one
endpoint. Left out: pool budgets, the protocol semaphore, changing intervals,
streamed endpoints, shutdown, counters.

### Fleet and rollout

`Sharding` has no state: its operators take the fleet as `live_collectors`
reports it, the pins and the record, and give the owner (`Effective`), the moves
a run must make (`MandatoryMoves`), those it may (rebalancing with its damping)
and whom the HA policy holds out. Rendezvous weights are a constant function
without ties. `Fleet` adds the rows - state, pool, ages of heartbeat and of the
healthy streak, in ticks, capped where the code no longer tells them apart - and
one action per request of the collectors API that moves work: heartbeat,
registration, drain and its end, patches of pool and state, decommission, pin,
freeze, rebalance, the assigner's run. Collector processes go and come (`up`).
The record starts as the assigner's first run leaves it. A run that finds the
assigner's lock held elsewhere is skipped (`Assign`, where `LockBusy` allows it):
`fleet` has that, `rollout` does not, to keep it small; it passes with it, too.
`TickCommit` leaves out the branch for a release that no longer exists: no code
deletes one, and a rollout's version is a foreign key.

`Rollout` extends the fleet with rollouts and commands. A tick lists the running
rollouts (`TickBegin`) and writes later (`TickCommit`): a cancel can fall
between. The collector reads a command (marked delivered in the statement that
reads it), refuses it or swaps its binary, and either confirms the new build or
rolls back. `IsRollingUpgrade` maps a pool to `RollingUpgrade`: a member is
`upgrading` while a command to it is open, `out` while it carries a rollout's
drain, `in` otherwise.

### Ingest

An entry is one message: a sample of one counter and one gauge, an event, or an
endpoint state. A worker reads up to a batch of each stream, or reclaims what
others left pending too long, and for each stream exchanges baselines or claims
dedup keys in Redis, runs one transaction, and acknowledges. Any transaction can
fail, any worker can die or be slow enough to be reclaimed from. `Total` is what
the counter really counted, so that a rate over a wrap, a late or a repeated
reading can be compared with the truth. With `CommitsLost` a commit may be
applied although the worker is told that it failed; no run has it (Findings).
Left out: derived metrics, lag monitoring, snapshots, changelogs, the ownership
guard; events without a dedup key, which are always fresh, and the expiry of a
claim after 24 hours; readings marked as an explicit reset, which give no rate,
like any discarded one (rates.py:78). `XINFO` and `DELCONSUMER` are one step, and
the idle time that makes a consumer worth forgetting is any.

### Alarms

The database is one record: alarm rows, roll-up, windows, targets, approvals,
lifecycle. A handler reads what is committed and leaves its result in `txn[s]`;
`Commit` merges it as READ COMMITTED with row locks does, `Rollback` drops it.
With one session this is a sequence of transactions any of which may fail; with
two, their reads interleave. A key is (device, alarm type, instance). Each
handler is the whole handler: `HandleEvent` raises, looks for a root, folds
bands and cable ends, adopts what its trip explains and refreshes the roll-up of
every device it touched; the sweep is one transaction that raises what went
stale, clears what recovered (`ClearAll`), adopts under the trips whose hold
stands and releases what a hold no longer explains. `recent` is the time since a power event, in the two stages the code
tells apart (restore window, hold). Which trap alarms a device denies, and
whether a rule speaks, are choices. A window's status is read and set at one
point, once no other transaction is changing it (`Settled`); the ticker reads
which windows are due and updates each in later statements without looking again
(services/maintenance.py:62, repositories/maintenance.py:142), so that with two
sessions it can start or end a window that an operator has just moved. Left out: rules and overrides, dwell and hysteresis, cooling
correlation, collector visibility, listings.

### Notifications and tickets

Both have an outbox written in the alarm's transaction and workers that claim,
deliver and record in separate steps, between which the alarm moves on, others
run and the worker may die.

`Notifications` is one rule and one condition. `Alarm` is a transaction with one
change of the condition or several, up to `MaxBatch`: `Change` is one turn of
`enqueue_actions`' loop, which keeps a copy of what is open, and `LeftOpen` what
the two statements after the loop leave in `notification_open`. `NotifiesOn` is
the rule's choice of follow-ups. What the policy admits, whether the hourly limit
is used up and whether it is the rule or email that was turned off are choices.

`Tickets` is one condition of one Jira integration: the link is read once per
claimed group, the rows come in any order (the claim's `UPDATE ... RETURNING` has
none), the search for an issue opened by an earlier attempt, each branch of
`IssueTarget.handle`, the 404 of a deleted issue, retries and dead letters, the
storm brake, a disabled integration. `Desks` says whether issues are plain or a
service desk's requests: a plain issue is created with its label in one call, a
request by one call and labelled by a second (`Label`), whose failure is
swallowed (`LabelFails`); only what is labelled is `Found`. A client that cannot
be built (`Unusable`) ends the pass outside the rows' own `try`, with the group
still claimed. People close, decline, reopen, move or delete an issue or revive a
row, and any worker applies the events that come back; one that cannot be applied
is put back, and parked after `InboundAttempts` (`FailInbound`). Left out: JSM
Operations alerts, change requests of windows, `allow_clear_on_transition`,
comments' texts, Assets, webhook registration. Jira's search is taken to find a
labelled issue by the time its row is retried.

## 3. Runs

Bounds are constants named in each module (`Max...`) and set in the `.cfg`.

| run | shows | bounds and why they are enough |
|---|---|---|
| `publisher` | nothing is lost uncounted, events never shed or reordered, samples shed oldest first, at every interleaving with shutdown; every event reaches the stream unless the process is stopped first | 5 samples, batches of 2, ring of 2: several chunks, overflow while a flush is putting chunks back; 2 events, one of which may be queued while the other's flush fails |
| `delivery_all` | the log has no hole, the committed number belongs to a stored batch and never regresses, an acknowledged record's number is covered by the platform, every fault switched on | 2 records, one per segment, each fault |
| `delivery_live` | in one segment the saved cursor passes only delivered records and every readable record is delivered | 2 records, a kill, a failed, torn or unsynced write |
| `scheduler_churn` | the limiter's count is exactly the slots held or on their way back, while an endpoint moves, leaves and returns; both wheels together keep a target's limit while the assignment stands | 1 endpoint on 2 wheels, 2 targets, 3 jobs (so an old job outlives its endpoint's return), queue of 1 so that shedding happens, 2 changes |
| `scheduler_live` | under overload every deferred poll gets its turn and every endpoint is polled for ever | 3 endpoints due every second, a gap that lets 2 through |
| `fleet` | unpinned work is served only in its place; the HA policy never empties a pool and lets no member that just came back take work away; a silent owner is replaced | 2 members of an HA pool and a newcomer, a pooled and a loose endpoint, 2 outages (a member leaves, returns and leaves, or both do) and any one operator action |
| `rollout` | the rollout implements `RollingUpgrade`; a member is commanded only when the pool is covered; what a rollout drained is put back | a pool of 2, one rollout, lost commands and answers, a refusal, a broken build, an outage, no other holder of the assigner's lock, one operator's drain (two operator acts may take a second member out, and then it is no rolling upgrade), a cancel in the middle of a tick |
| `alarms` | with one transaction at a time, the roll-up is current, rows are shelved only for a standing reason, folding has neither circles nor dead ends, what a trip explained is released | six estates of 2 to 4 alarms, chosen by `Init`: detectors on a rack with a PDU, a server and a switch; operators, lifecycle and a window that needs approval, over three alarms and, with acknowledgements, over two; the return after a trip; a switch that others are polled through; a measurement in bands with a part named |
| `ingest` | an acknowledged entry is stored, none is dropped from the group, rates are differences of real readings and chain, an event is stored once, every entry is acknowledged in the end | 2 workers, 5 entries over 3 streams, a counter that wraps, batches of 2, one death or failed transaction |
| `notifications` | emails leave in order, a clear follows what it clears, whoever was told of an alarm is told of its end, every row settles | 2 notifiers, 4 rows over 2 episodes, up to 3 changes in a transaction, one death, refusal, switch-off or pruning |
| `tickets` | no row is delivered by two workers at once; a row tried again finds the labelled issue it opened; after finitely many failures every row is delivered or given up and every event applied or parked | 2 dispatchers, 2 rows, plain issues and a service desk's, one fault of any kind (an unusable credential, a rejected label and an event that cannot be applied among them), one act of a person; 2 attempts of a row (8 in the code) and 2 of an event (3), so that the first fails and the last one gives up |
| `ingest_lost` (violation) | an event whose worker dies between the dedup claim and the commit is in no table, and acknowledged | 2 workers, 4 entries, one death |

`CHECK_DEADLOCK FALSE` is set where the bounded input runs out or the process
has exited. The type invariants that no run lists (`FleetTypeOK`,
`RolloutTypeOK`, `IngestTypeOK`, `AlarmsTypeOK`, `NotificationsTypeOK`,
`TicketsTypeOK`, `DeliveryTypeOK`, `GatewayTypeOK`, `Scheduler.TypeOK`) hold in
these instances and can be added to the `.cfg`.

Three more configurations pass and are kept for whoever changes the spool:
`SpoolLog` (increasing numbers in a segment across restarts and along the log in
one process, segments bounded, budget restored by every flush), `SpoolDurable`
(within one segment a power loss loses only memory, and memory is flushed) and
`DeliveryOrder` (records and numbers stored at most once and in order across
rotation, shedding and refusals).

## 4. Findings: where code and its own words disagree

Each line names the configuration in which TLC shows it; where none is named,
add the property to the module's passing configuration. All but `ingest_lost`
are run by hand.

| configuration | property violated | what happens | the words |
|---|---|---|---|
| `IngestLost` (run `ingest_lost`) | `EventNotLost` | the dedup key is set before the transaction; a worker that dies in between makes the redelivered event look like a duplicate | worker.py:6-7 "ack AFTER publishing (so a crash redelivers rather than loses)" |
| `PublisherStop` | `FlushFollowsPolls` | the last flush runs before the polls in flight end (app.go:494) | app.go:574 "Wait for in-flight polls, then let the publisher flush. Order matters" |
| `SpoolTorn` | `CrashLosesOnlyMemory` | reopening appends behind a torn frame (partition.go:58): records flushed later cannot be read | spool.go:212 |
| `DeliveryRefused` | `NothingSkipped` | after a refused send the reader goes on with the next record (replay.go:96) | gateway.go:217 |
| `FleetDark` | `PoolEndsUpPolled` | after an outage of a whole HA pool an endpoint stays with a member that is down while another is up | docs/26, Phase 6 |
| `RolloutTwice` | `OneAtATime` | a rollout cancelled with a command open, and another started: two members of a pool upgrade at once | rollout.py:1-8 "one member per pool at a time" |
| - | `CancelledIssuesNothing` | a cancel between a tick's listing and its writes does not stop the tick's command (rollout.py:241) | `cancel_rollout`: "Stops issuing new upgrades" |
| `AlarmsRace` | `ShelvedForAReason` | a raise that read the window as active commits after `complete()` un-shelved what it could see; the alarm stays shelved by a window that is over. `RollUpIsCurrent` and `ChainEndsAtARoot` fail likewise with two sessions | maintenance.py:43 "End a window and put back what is still wrong." |
| `AlarmsShelved` | `RedIsListed` | a switch port is folded under the alarm of the NIC that faces it; a window shelves the NIC, on the server: the list hides both (repositories/alarms.py:660) and the switch stays red | services/maintenance.py:6 "a red room and an empty alarm list" |
| `AlarmsRing` | `ChainEndsAtARoot` | a PDU is polled through a switch that it feeds: the switch goes silent, the PDU's silence is folded under it, then a trip makes `adopt_orphans` fold the switch under the oldest open alarm of the PDU, which is that silence (correlation.py:144, :483). Each is the other's root and nobody sees either | correlation.py:1 "one root cause, N symptoms" |
| - | `LoweredByItsSetter` | `raise_alarm`'s ON CONFLICT never updates `source`, so a severity is compared with the source that first raised the row (repositories/alarms.py:304) | - |
| - | `StillOpenBecomesARoot` | `restored_root` accepts a cleared unreachable feeder as root; `release_after_hold` releases only trips (correlation.py:722) | correlation.py:725 "Still open three minutes after the power came back is not a boot" |
| - | `HotNeverRegresses` | a reclaimed older sample can overwrite the newer current value | writer.py:151-152, the guard is what stops a late "redelivery from overwriting newer state with older values" |
| `Ingest`, with `CommitsLost` TRUE and the entries of `IngestLost` | `EventStoredOnce` | a commit is applied and its answer lost: the claims are released, and the redelivered event is stored again (worker.py:1088) | worker.py:1162 "a batch that never reached the database" |
| `Notifications`, with `MaxBatch` 2 | `OpenIsTold` | a trap and its recovery come in one batch: both rows are dropped, since the alarm is over, and `notification_open` is deleted from before it is inserted into, so the condition stays open (outbox.py:156). Its next alarm is mailed to nobody. With `MaxBatch` 1 it holds | outbox.py:13 "holds the conditions a rule has emailed about (or is about to)"; `integrations/outbox.py` takes care that "a raise and its clear in ONE batch see each other" |
| `Notifications`, with `MaxBatch` 4 | `NobodyLeftBelieving` | a clear, a raise, an escalation and a clear come in one batch: the second clear is dropped as a repetition (outbox.py:140), the escalation is sent last | dispatcher.py:21 "so nobody is left believing a condition is still active" |
| `TicketsDesk` | `RetryOpensNoTwin` | a service desk's request is created, and the worker dies, or the answer is lost, before the call that labels it: the retry searches for the label (target.py:523), finds nothing and opens a second | target.py:17-22 "the difference between ... duplicated everything during the outage and nobody noticing there was one" |
| `TicketsLoop` | `AttemptsAreBounded` | `_target_for` raises outside the rows' `try` (dispatcher.py:181): the group stays claimed, goes stale, is claimed again and counts another attempt, which nothing compares with `max_attempts`. A worker that dies each time does the same | dispatcher.py:23-26 "still walks to the dead state instead of looping forever"; services/integrations.py:170, repositories/integrations.py:335 |
| `TicketsFollowUps` | `FollowUpsGoOut` | `upsert_link` keeps `closed_at` and `wont_reopen` of the issue that a new one supersedes: after a Won't Fix the new issue's clear is dropped, and each later raise opens another | outbox.py:17-20 "Once a ticket exists for a fingerprint, every later action on that condition goes out" |
| `TicketsOrder` | `RaisedIsOpen` | claimed rows are not sorted, two workers may claim siblings, a row put off is overtaken: a clear is delivered after the raise that follows it | dispatcher.py:12-16 "Per-fingerprint order is preserved" |
| `TicketsTwin` | `OneOpenIssue` | a second worker creates an issue while the first one's link is not committed (target.py:163) | - |
| `TicketsInbound` | `LinkAgrees` | an event that comes before the link is committed is ignored; `claim_inbound` does not look at `claimed_by`, so two workers apply the same events in any order (repositories/integrations.py:746) | - |
| `TicketsEcho` | `AckIsADecision` | the platform's own transition to Done comes back as an acknowledge and acknowledges an alarm raised since | inbox.py:249 "an alarm is acknowledged by a decision" |

### Known limits

The models also have the following behaviours; the passing runs stop short of
them on purpose.

| where | behaviour | code |
|---|---|---|
| `SpoolDurable` with segments of 1 | segments a batch filled are closed without an fsync; a power loss after the flush loses them | partition.go:92 (comment at 112) |
| the same, with error `rotate` | after one failed creation of a segment every later flush fails at closing the old file | partition.go:96 |
| any spool run with error `sync` | a failed fsync writes the batch again under new numbers, which dedup cannot recognise | spool.go:181 |
| `SpoolLog` with `SeqsIncrease` across crashes | a kill right after creating a segment makes the next process number from 2 again | partition.go:52 |
| `DeliveryLive` with segments of 1 | records appended between the reader's end of file and its look for a next segment are left behind | replay.go:126 |
| `SchedulerChurn` with 2 workers and a host limit of 2 | an endpoint removed and added while its poll is in flight is polled twice at once | sched.go:236 |
| `SchedulerChurn` with `PollsWithinLimit` across changes | a queued poll whose address changes runs there without a slot of that target | sched.go:231 |
| `SchedulerLive` with a concurrency limit | a slot released in the middle of a dispatch goes to a younger poll than the one refused a moment before | sched.go:300 |
| `Scheduler`, by reading | a target's gap is kept between admissions, not requests; a poll shed or panicked after admission never settles its budget reservation | throttle.go:275, throttle.go:258 |
| `Fleet`, by reading | the drain preview ignores the HA policy; an operator's drain of a member that a rollout drained keeps the rollout's mark; a pin on a candidate keeps it owning work | sharding.py, rollout.py |
| `Rollout` | an answer that comes after the command expired is still written | commands.py:72 |
| `Alarms`, by reading | overlapping windows: ending one exposes what the other still covers; targets added to an active window shelve nothing; activation shelves although the window does not suppress; two readings of a counter in one batch share one previous value; dwell is saved before the commit and without a lock | maintenance.py:28, service.py:145 |
| `Ingest` | `endpoint_state` is written unconditionally, so a redelivered older state overwrites a newer one; device status is fanned out before the commit | worker.py:1269 |
| `Ingest` with entries 2 and 4 | two receptions of one trap share a dedup key; only `IngestLost` has them | worker.py:1171 |
| `Notifications` with fault `stall` | work slower than `STALE_CLAIM_S` is claimed again and `MailInOrder` fails; `_prune` may delete a sent raise before its clear; a rule switched off while the alarm clears leaves its recipients untold | dispatcher.py:52 |
| `Notifications` with a death after sending | the raise left but is not recorded, and its clear is skipped | dispatcher.py:92 |
| `Tickets` with fault `stall` | a group slower than `STALE_CLAIM_S` is handed to a second dispatcher | dispatcher.py:72 |
| `Tickets` | a row that supersedes a closed issue is not searched for when retried, and a revived row forgets its attempts: both may open a twin; a raise delivered between deletion and its event goes dead; rows behind a failed one wait for `STALE_CLAIM_S` | target.py:163, integrations.py:372 |

## 5. Fairness

- Publisher: weak fairness of the flusher (ticker and goroutine), strong fairness
  of a successful XADD: asked again and again, Redis answers in the end.
- Spool: weak fairness of the flush steps (`flushLoop`'s ticker); errors are
  bounded.
- Delivery: weak fairness of the drain loop, the endpoint's steps and the restart
  of a dead process (a supervisor restarts it).
- Scheduler: weak fairness of the ticker, dispatch, dequeue and `Done`; strong
  fairness of what waits for the mutex or a semaphore channel - Go's mutex hands
  over to a starving waiter and a channel's waiters queue. Polls end because
  each has a timeout. `scheduler_live` limits by gap only: with a concurrency
  limit, only timing keeps a refused poll from being overtaken for ever.
- Fleet and rollout: time passes, collectors that are up heartbeat, the assigner
  and the rollout tick run (loops of the worker), a collector that swapped its
  binary confirms or rolls back (the watchdog's timer). Nothing forces a command
  to be answered; it expires.
- Ingest: each worker's loop goes on, and pending entries grow old. A dead
  worker's entries are reclaimed by any other.
- Alarms: transactions end, by commit or rollback; strong fairness of the sweep
  and of its commit: it runs every interval, and a sweep that fails is tried at
  the next one.
- Notifications and tickets: every worker's pass comes round and its calls end
  (HTTP and SMTP timeouts), retries fall due, claims of dead workers go stale.
  Faults are bounded: in particular finitely many passes end for want of a
  credential. With a credential that never comes back rows are claimed for ever
  (`TicketsLoop`).

## 6. Proofs

Every safety invariant and every action property that a passing run checks is a
theorem of the specification; `PROJECT.json` lists them. Each proof module has
one inductive invariant per subject, one lemma per action (`...Keeps`,
`...Step`), and theorems that put them together with PTL.

Assumptions on constants (`PublisherAssumption`, `SpoolAssumption`,
`GatewayAssumption`, `NoSlotAssumption`, `SchedulerAssumption`,
`ShardingAssumption`, `FleetAssumption`, `RolloutAssumption`,
`IngestAssumption`, `AlarmsAssumption`, `NotificationsAssumption`,
`TicketsAssumption`) state types, positive sizes, finite sets of things that are
counted, weights without ties, and that a rollout's target is not the version
everyone already has. TLC evaluates them in every run of the module. What a
theorem needs beyond them is a named hypothesis in its statement:

| hypothesis | theorems | why it is there |
|---|---|---|
| `"stall" \notin Faults` | Notifications and Tickets | a claim outlives the work on it. Without it two workers hold one row, which the known limits report |
| `TRUE \notin Desks` | `RetryOpensNoTwinAlways` | no issue is a service desk's request. With one it fails (`TicketsDesk`); `RowOpensOneIssueAlways`, about labelled issues, has both |
| `MaxBatch = 1`, `"alarm_cleared" \in NotifiesOn` | `NobodyIsLeftBelieving` | no transaction changes the condition twice, and the rule reports clears. With four changes it fails (Findings); the run has up to three |
| `~CommitsLost` | `EventsAreStoredOnce` | a commit reported as failed was not applied. Otherwise it fails (Findings) |
| `SlowCounter` | `RatesAreTrue` | no counter passes its whole width within the gap the worker accepts: a rate cannot see a whole lap |
| `OneSession` | Alarms, except its types | transactions do not overlap. With two all three invariants fail (`AlarmsRace`) |
| `Layered` | `ChainAlwaysEndsAtARoot`; `ClearsRelease` does without | power feeds, polling paths, cable ends and bands together have no loop. With a loop it fails (`AlarmsRing`). The six estates of the run are layered, `Ring` is not |
| `OneRollout(r, p)` | `RolloutIsRollingUpgrade`, `OneMemberAwayInARollout` | one rollout over one pool, and no operator drains, moves or retires members. With a second rollout it fails (`RolloutTwice`), with two operator acts as well |
| `~CancelDuringTick` | `CancelledIssuesNothingBetweenTicks` | confines the finding to a cancel inside a tick |
| `Undisturbed`, one segment | `NothingIsSkipped` | no timeout, refusal, API death or power loss; `DeliveryRefused` and `SpoolTorn` show what fails otherwise |
| `Serial` | `SerialClientStoredOnce`, `DeliveredNumbersOnce` | one request at a time, no API death, no expiry of the key |

The arguments:

- **Publisher.** `PublisherInv` is the type invariant, `FlushShape` (what the
  flusher's locals hold in each of its states), `PairwiseOrder` (ring before
  samples in hand before queue, each increasing) and `EventsNeverShed`. Order of
  the concatenation is not inductive as stated, so it is proved pairwise and
  `OrderByPairs` puts it together. `LossIsCounted` follows step by step from
  sets: a step either keeps what is held or counts what it sheds
  (`ShedIsCounted`). `EventsInOrder` needs `QueueInv`: batch in hand and queue
  are the newest events without a gap, and Redis has everything older, so that a
  batch XADDed twice still adds no event before an older one.
- **Batches endpoint.** `GatewayInv` adds `AddedIsStored`: a request between
  XADD and commit has its entry in the stream. `SerialInv` adds, for one slot,
  how the request's number, the committed number and the stream's numbers
  compare at each stage.
- **Spool partition.** `Interval`: the segments are an interval that ends with
  the active one; rotation extends it at the top, shedding removes its lower end.
  `LogInv` adds the types and that every frame is one Append numbered
  (`GoodLog`). `SeqInv` has, for each segment, that the readable numbers increase
  and, while the process lives, that the counter is not behind the active
  segment; recovery takes it from there, torn frame or not.
- **The path.** `Spec` of `SpoolDelivery` implements the partition's and the
  endpoint's specifications (`DeliveryKeepsTheLog`, `DeliveryKeepsTheEndpoint`),
  so their theorems hold in the composition (`SegmentsStayContiguous`,
  `CommitsAreSafe`, `DeliveredNumbersOnce`). `DeliveryInv` adds what the reader
  and the client know: the slot waited for serves the record in hand
  (`AskedForHand`). Hence an acknowledgement means that its number was stored.
  `CursorInv` ties, while there is one segment, the saved cursor to what the
  stream holds and to what any request, abandoned ones included, may still bring.
- **Scheduler.** `SlotsInv`: types, `Rostered` (who is in the wheels' maps),
  `QueuedOnce`, `DeferredOnce`, `CandidatesIdle` (what dispatch still has to
  admit is not running) and `SlotsBalanced`, whose count moves by one when one
  job takes or returns one slot (`SlotTaken`, `SlotFreed`). `LimitInv` adds,
  until the assignment first changes, that a job that runs holds a slot of the
  target it polls and that counts are below the strictest limit there.
- **Fleet and rollout.** Types are inductive. The policy is asked afresh in every
  state, so `ServedInPlace` and `PolicyKeepsAMember` hold in every well-typed
  state, reachable or not, for every fleet, pin and weight. `NoSnatchBack`
  follows from what one computation may do (`ComputeSnatchesNothing`) and from
  every step that writes the record being one. `CommandedWhenCovered` needs that
  only a tick issues commands and that `decide` covers before it commands
  (`DecideCovers`). For the refinement, `OneAway` is the invariant: commands go to
  the rollout's members, and two of them are never away at once. Every step takes
  at most one member (`StepsTakeOne`) and maps to one step of `RollingUpgrade` or
  none (`LoneStep`). `OneMemberAwayInARollout` is the abstract theorem carried
  over.
- **Alarms.** `AlarmsInv`: the committed database is `Good` - the roll-up is
  current (`RollOK`), every shelf has its reason (`ShelvedOK`), every root is an
  open cause, or a fault of the symptom's own supply (`FoldOK`) - and the open
  transaction `Promises` the same of what it will commit, the roll-up of the
  devices it touched included. Each operator of the model - raise, clear, fold, adopt, release, the bands, the windows - has a
  lemma that says what it may change of which rows (`Folded`, `Raised`,
  `Refolded`, `Cleared`), and each handler a lemma that composes them. Circles
  are excluded because a root is always among `Causes` of its symptom, by cabling
  and type alone, and `Causes` has no loop in a `Layered` estate. The hard cases:
  the two ends of a cable, where either may be the other's root but not both
  (`OtherEnds`), and a trip that cleared within the handler that releases its
  symptoms, which is why `FoldOK` carries the rows that were open before.
- **Ingest.** `IngestInv` adds to `StoredBeforeAck` the shape of a worker's pass
  and `BatchIsSafe`: a worker about to acknowledge has its whole batch, events
  excepted, in the database. This is what survives reclaiming: whoever
  acknowledges committed the batch. Events are excepted because for them it is
  false (`ingest_lost`). `EventInv`: who holds an event's key is the only one
  who may store it, and no event with that key is stored yet. `CounterInv`: the
  intervals of stored rates and of those still in a worker's hands never overlap
  and end at or before the baseline, which the exchange in Redis moves in one
  step.
- **Notifications.** `OrderInv`: a notifier with a row in hand has the oldest
  unsettled one, freshly claimed, one notifier at most has one, and all rows
  before one whose email left are settled. `StoryInv` adds what the emails sent
  tell: rows settle from the oldest on, sent means told, and a clear decided for
  sending has a start that no other clear answered. `BeliefInv` adds, while no
  fault happened, that a condition that is over has its clear in the queue and
  that such a clear is sent.
- **Tickets.** `HandsInv`: the rows in a dispatcher's hands are claimed, not stale, and on
  the attempt it counted, so no other dispatcher can claim them; a row that has
  opened an issue is on a later attempt, and a later attempt searches before it
  creates. What a row has opened and labelled is found, so it has opened at most one
  such issue (`Opened`); where nothing is a service desk's, `Labelled` says that
  every issue is labelled.

Only model-checked:

- all liveness (`EventsDelivered`, `SpooledIsDelivered`, `DeferredIsAdmitted`,
  `KeepsPolling`, `SilentOwnerReplaced`, `DrainedIsReturned`, `HeldIsReleased`,
  `EveryEntryAcked`, `EveryRowSettles`): outside the proof system's reach;
- `IsRollingUpgrade` while an operator drains a member, which the run also has;
- of the spool configurations run by hand, `SeqsIncrease`, `SegmentsBounded`,
  `CrashLosesOnlyMemory`, `MemoryIsFlushed` and `DeliveredInOrder`.

The models have no recursive operator: scans of segments and queues, and the
widest gap of a target, are bounded choices or filters whose properties are
lemmas (`ReadablePrefix`, `LargestSeq`, `WidestGap`, `KeptFacts`).

## 7. Plan

1. Proofs: order of the records stored (`DeliveredInOrder`) for a client without
   timeouts; numbers increasing along the whole log of one process
   (`SeqsIncrease`); the rollout refinement for several pools; which rows two
   overlapping alarm transactions may both write.
2. Models: `evaluate` of the alarm engine against a reference definition and then
   by two workers; pool budgets; the health tracker's order of publication; the
   ownership guard's copy against `Fleet`'s record; the websocket hub.

## 8. Not modelled

Health tracker (its states enter as endpoint states), pool budgets, alarm engine
dwell, ownership guard, websocket hub, device actions and discovery (their command
table is `Rollout`'s): see the plan. Protocol adapters and trap decoding (wire
formats; a poll answers, fails, times out or panics), cryptography and key
handling, configuration parsing, analytics (statistics over reals), inventory,
power and cooling services (one SQL transaction each), REST validation, importer,
migrations, generated code and the frontend. These last make up most of the
repository's lines: queries, edits and rendering with no state machine of the
kind checked here. Each is listed in `PROJECT.json` with its reason.
