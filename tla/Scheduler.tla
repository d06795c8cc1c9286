----------------------------- MODULE Scheduler -----------------------------
(***************************************************************************)
(* The collector's poll scheduler (collector/internal/sched) with the      *)
(* target limits of collector/internal/throttle and the assignment changes *)
(* that app.onChange applies to it.                                        *)
(*                                                                         *)
(* Each wheel (polls, liveness probes) has its jobs, queue and workers;    *)
(* the limiter is shared.  Every second each wheel's dispatch admits due   *)
(* jobs, oldest first, under its mutex, then queues them; workers run them.*)
(* Times are counted down in units of 1/Units of a second.                 *)
(***************************************************************************)
EXTENDS Integers, Sequences, FiniteSets, Functions

CONSTANTS
    Wheels,      \* the schedulers sharing the limiter
    Endpoints,
    Targets,     \* addresses
    None,        \* no target, no job, no address
    JobIds,      \* bound: Job objects alive at once
    Units,       \* time units per second
    Interval,    \* the poll interval, in seconds
    Cap,         \* Endpoints -> the endpoint's max_concurrent, 0 for none
    Gap,         \* Endpoints -> its min_interval_ms, in units
    Workers,     \* workers of a wheel
    QueueSize,   \* length of a wheel's queue
    HostCap,     \* polls at one address and wheel at a time
    MayMove,     \* whether an endpoint's address may change
    MayLeave,    \* whether an endpoint may be taken away and given back
    MaxChanges,  \* bound: assignment changes
    MaxReleasing \* bound: Limiter.Done calls on their way at one target

ASSUME SchedulerAssumption ==
    /\ None \notin Targets /\ None \notin JobIds
    /\ IsFiniteSet(JobIds) /\ IsFiniteSet(Endpoints)
    /\ Units \in Nat \ {0} /\ Interval \in Nat \ {0}
    /\ Cap \in [Endpoints -> Nat] /\ Gap \in [Endpoints -> Nat]
    /\ Workers \in Nat \ {0} /\ QueueSize \in Nat /\ HostCap \in Nat \ {0}
    /\ MayMove \in BOOLEAN /\ MayLeave \in BOOLEAN /\ MaxChanges \in Nat
    /\ MaxReleasing \in Nat \ {0}

VARIABLES
    assigned,   \* the assignment: endpoint -> address, or None
    changes,    \* for the bound
    jobs,       \* Scheduler.jobs: wheel -> endpoint -> job, or None
    job,        \* the Job objects
    deferred,   \* wheel -> jobs held back by a limit, by the time they fell due
    phase,      \* wheel -> where its tick goroutine is
    late,       \* wheel -> deferred candidates dispatch has still to admit
    fresh,      \* wheel -> its other candidates
    queue,      \* wheel -> Scheduler.queue
    inflight,   \* target.inflight
    nextStart,  \* target.nextStart, from now
    releasing   \* target -> slots given up whose Done has not run yet

dispatchVars == <<deferred, phase, late, fresh>>
limiterVars  == <<inflight, nextStart, releasing>>
vars == <<assigned, changes, jobs, job, dispatchVars, queue, limiterVars>>

\* A job is running from its admission until markDone.
Running == {"ready", "timer", "queued", "dequeued", "holding", "polling", "ended"}
Unused == [stage |-> "unused", wheel |-> None, ep |-> None, addr |-> None,
           next |-> 0, target |-> None, host |-> None, at |-> None]
stage(j) == job[j].stage

Init ==
    /\ assigned \in [Endpoints -> Targets] /\ changes = 0
    /\ jobs = [w \in Wheels |-> [e \in Endpoints |-> None]]
    /\ job = [j \in JobIds |-> Unused]
    /\ deferred = [w \in Wheels |-> <<>>] /\ phase = [w \in Wheels |-> "idle"]
    /\ late = [w \in Wheels |-> {}] /\ fresh = [w \in Wheels |-> {}]
    /\ queue = [w \in Wheels |-> <<>>]
    /\ inflight = [t \in Targets |-> 0] /\ nextStart = [t \in Targets |-> 0]
    /\ releasing = [t \in Targets |-> 0]

\* The scheduler's mutex: dispatch holds it while it admits.
Unlocked(w) == phase[w] # "admitting"
Registered(w) == {jobs[w][e] : e \in Endpoints} \ {None}

-----------------------------------------------------------------------------
(* The assignment.  One goroutine fetches it and applies it, so a change   *)
(* is applied to every wheel before the next one.                          *)

Applied ==
    \A w \in Wheels, e \in Endpoints :
        IF assigned[e] = None THEN jobs[w][e] = None
        ELSE jobs[w][e] # None /\ job[jobs[w][e]].addr = assigned[e]

Refresh(e, a) ==
    /\ Applied /\ changes < MaxChanges /\ assigned[e] # a
    /\ assigned[e] # None /\ a # None => MayMove
    /\ assigned[e] = None \/ a = None => MayLeave
    /\ assigned' = [assigned EXCEPT ![e] = a]
    /\ changes' = changes + 1
    /\ UNCHANGED <<jobs, job, dispatchVars, queue, limiterVars>>

\* addAt for an endpoint without a job; its first slot is within an interval.
Add(w, e) ==
    /\ Unlocked(w) /\ assigned[e] # None /\ jobs[w][e] = None
    /\ \E j \in JobIds, seconds \in 0 .. Interval - 1 :
          /\ stage(j) = "unused"
          /\ job' = [job EXCEPT ![j] =
                        [Unused EXCEPT !.stage = "idle", !.wheel = w, !.ep = e,
                                       !.addr = assigned[e], !.next = seconds * Units]]
          /\ jobs' = [jobs EXCEPT ![w][e] = j]
    /\ UNCHANGED <<assigned, changes, dispatchVars, queue, limiterVars>>

\* addAt for one that has a job: the job gets the new Endpoint, whatever it is
\* doing.
Change(w, e) ==
    /\ Unlocked(w) /\ assigned[e] # None
    /\ LET j == jobs[w][e] IN
          /\ j # None /\ job[j].addr # assigned[e]
          /\ job' = [job EXCEPT ![j].addr = assigned[e]]
    /\ UNCHANGED <<assigned, changes, jobs, dispatchVars, queue, limiterVars>>

\* The deferred jobs without j, which is among them at most once.
Without(s, j) ==
    LET i == CHOOSE k \in DOMAIN s : s[k] = j
    IN  IF j \in Range(s) THEN SubSeq(s, 1, i - 1) \o SubSeq(s, i + 1, Len(s)) ELSE s

Remove(w, e) ==
    /\ Unlocked(w) /\ assigned[e] = None
    /\ LET j == jobs[w][e] IN
          /\ j # None
          /\ jobs' = [jobs EXCEPT ![w][e] = None]
          /\ job' = IF stage(j) = "idle" THEN [job EXCEPT ![j] = Unused] ELSE job
          /\ deferred' = [deferred EXCEPT ![w] = Without(@, j)]
    /\ UNCHANGED <<assigned, changes, phase, late, fresh, queue, limiterVars>>

-----------------------------------------------------------------------------
(* The wheel.                                                              *)

Later(n) == IF n > Units THEN n - Units ELSE 0

\* A second passes.  Dispatch takes less than that.
Second ==
    /\ \A w \in Wheels : phase[w] = "idle"
    /\ phase' = [w \in Wheels |-> "ticked"]
    /\ job' = [j \in JobIds |-> [job[j] EXCEPT !.next = Later(@)]]
    /\ nextStart' = [t \in Targets |-> Later(nextStart[t])]
    /\ UNCHANGED <<assigned, changes, jobs, deferred, late, fresh, queue,
                   inflight, releasing>>

Due(w) == {j \in Registered(w) : job[j].next = 0}

\* dispatch locks the wheel and collects the candidates; a job still running
\* skips this slot.
Dispatch(w) ==
    /\ phase[w] = "ticked"
    /\ phase' = [phase EXCEPT ![w] = "admitting"]
    /\ late' = [late EXCEPT ![w] = Range(deferred[w]) \cap Due(w)]
    /\ fresh' = [fresh EXCEPT ![w] = {j \in Due(w) : stage(j) = "idle"} \ Range(deferred[w])]
    /\ job' = [j \in JobIds |-> IF j \in Due(w) /\ stage(j) \in Running
                                THEN [job[j] EXCEPT !.next = Interval * Units]
                                ELSE job[j]]
    /\ UNCHANGED <<assigned, changes, jobs, deferred, queue, limiterVars>>

\* recompute: the strictest of the limits of the endpoints at a target.
At(t) == {e \in Endpoints : assigned[e] = t}
CapOf(t) == LET caps == {Cap[e] : e \in At(t)} \ {0}
            IN  IF caps = {} THEN 0 ELSE CHOOSE c \in caps : \A d \in caps : c <= d
GapOf(t) == LET gaps == {Gap[e] : e \in At(t)} \cup {0}
            IN  CHOOSE g \in gaps : \A h \in gaps : h <= g
Limited(t) == CapOf(t) > 0 \/ GapOf(t) > 0

CandidateInMapOrder(w, j) == j \in late[w] \cup fresh[w]          \* mutant

\* Oldest due first: the deferred ones in their order, then the others.
Candidate(w, j) ==
    \/ \E k \in DOMAIN deferred[w] :
          /\ deferred[w][k] = j /\ j \in late[w]
          /\ \A i \in 1 .. k - 1 : deferred[w][i] \notin late[w]
    \/ late[w] = {} /\ j \in fresh[w]

Taken(w, j) ==
    /\ late' = [late EXCEPT ![w] = @ \ {j}]
    /\ fresh' = [fresh EXCEPT ![w] = @ \ {j}]

\* Admit says no: the job is tried again when Admit said.
Defer(w, j, retry) ==
    /\ job' = [job EXCEPT ![j].next = retry]
    /\ deferred' = [deferred EXCEPT ![w] = IF j \in Range(@) THEN @ ELSE Append(@, j)]
    /\ UNCHANGED <<inflight, nextStart>>

\* Admit says yes, to start now or inside this second.
Accept(w, j, target, start) ==
    /\ job' = [job EXCEPT ![j].next = Interval * Units,
                          ![j].target = target,
                          ![j].stage = IF start > 0 THEN "timer" ELSE "ready"]
    /\ deferred' = [deferred EXCEPT ![w] = Without(@, j)]

TakeSlot(t) ==
    /\ inflight' = [inflight EXCEPT ![t] = @ + 1]
    /\ nextStart' = [nextStart EXCEPT ![t] = @ + GapOf(t)]

BusyOverLimit(t) == CapOf(t) > 0 /\ inflight[t] > CapOf(t)        \* mutant

Busy(t) == CapOf(t) > 0 /\ inflight[t] >= CapOf(t)

Admit(w, j) ==
    /\ phase[w] = "admitting" /\ Candidate(w, j)
    /\ Taken(w, j)
    /\ LET t == job[j].addr IN
          \/ ~Limited(t) /\ Accept(w, j, None, 0) /\ UNCHANGED <<inflight, nextStart>>
          \/ Limited(t) /\ Busy(t) /\ Defer(w, j, Units)
          \/ Limited(t) /\ ~Busy(t) /\ nextStart[t] >= Units /\ Defer(w, j, nextStart[t])
          \/ Limited(t) /\ ~Busy(t) /\ nextStart[t] < Units
               /\ TakeSlot(t) /\ Accept(w, j, t, nextStart[t])
    /\ UNCHANGED <<assigned, changes, jobs, phase, queue, releasing>>

\* All candidates are decided: unlock.
Unlock(w) ==
    /\ phase[w] = "admitting" /\ late[w] = {} /\ fresh[w] = {}
    /\ phase' = [phase EXCEPT ![w] = "queueing"]
    /\ UNCHANGED <<assigned, changes, jobs, job, deferred, late, fresh, queue,
                   limiterVars>>

-----------------------------------------------------------------------------
(* Queue, workers and the end of a poll.                                   *)

\* Mutant: the slot is given back at the address the job has now.
MarkDoneAtAddress(j) ==
    /\ Unlocked(job[j].wheel)
    /\ job[j].target # None => releasing[job[j].addr] < MaxReleasing
    /\ job' = [job EXCEPT ![j] =
                  IF j \in Registered(job[j].wheel)
                  THEN [@ EXCEPT !.stage = "idle", !.target = None, !.host = None,
                                !.at = None]
                  ELSE Unused]
    /\ releasing' = IF job[j].target = None THEN releasing
                    ELSE [releasing EXCEPT ![job[j].addr] = @ + 1]
    /\ UNCHANGED <<inflight, nextStart>>

\* Mutant: the running flag is not cleared.
MarkDoneStillRunning(j) ==
    /\ Unlocked(job[j].wheel)
    /\ job[j].target # None => releasing[job[j].target] < MaxReleasing
    /\ job' = [job EXCEPT ![j] = [@ EXCEPT !.stage = "queued", !.target = None,
                                           !.host = None, !.at = None]]
    /\ releasing' = IF job[j].target = None THEN releasing
                    ELSE [releasing EXCEPT ![job[j].target] = @ + 1]
    /\ UNCHANGED <<inflight, nextStart>>

\* markDone: not running any more, the slot to be given back by Done.
MarkDone(j) ==
    /\ Unlocked(job[j].wheel)
    /\ job[j].target # None => releasing[job[j].target] < MaxReleasing
    /\ job' = [job EXCEPT ![j] =
                  IF j \in Registered(job[j].wheel)
                  THEN [@ EXCEPT !.stage = "idle", !.target = None, !.host = None,
                                !.at = None]
                  ELSE Unused]
    /\ releasing' = IF job[j].target = None THEN releasing
                    ELSE [releasing EXCEPT ![job[j].target] = @ + 1]
    /\ UNCHANGED <<inflight, nextStart>>

\* The dispatching goroutine, or the timer of a start inside the second,
\* queues the job, or sheds it when the queue is full.
Enqueue(w, j) ==
    /\ job[j].wheel = w
    /\ (stage(j) = "ready" /\ phase[w] = "queueing") \/ (stage(j) = "timer" /\ Unlocked(w))
    /\ \/ /\ Len(queue[w]) < QueueSize
          /\ queue' = [queue EXCEPT ![w] = Append(@, j)]
          /\ job' = [job EXCEPT ![j].stage = "queued"]
          /\ UNCHANGED limiterVars
       \/ /\ Len(queue[w]) >= QueueSize
          /\ MarkDone(j)
          /\ UNCHANGED queue
    /\ UNCHANGED <<assigned, changes, jobs, dispatchVars>>

DispatchEnd(w) ==
    /\ phase[w] = "queueing"
    /\ \A j \in JobIds : ~(job[j].wheel = w /\ stage(j) = "ready")
    /\ phase' = [phase EXCEPT ![w] = "idle"]
    /\ UNCHANGED <<assigned, changes, jobs, job, deferred, late, fresh, queue,
                   limiterVars>>

InStages(w, S) == {j \in JobIds : job[j].wheel = w /\ stage(j) \in S}

Dequeue(w) ==
    /\ queue[w] # <<>>
    /\ Cardinality(InStages(w, {"dequeued", "holding", "polling", "ended"})) < Workers
    /\ LET j == Head(queue[w]) IN
          job' = [job EXCEPT ![j].stage = "dequeued", ![j].host = job[j].addr]
    /\ queue' = [queue EXCEPT ![w] = Tail(@)]
    /\ UNCHANGED <<assigned, changes, jobs, dispatchVars, limiterVars>>

\* The worker waits for a slot of the semaphore of the host it found.
AcquireHost(w, j) ==
    /\ job[j].wheel = w /\ stage(j) = "dequeued"
    /\ Cardinality({i \in InStages(w, {"holding", "polling"}) :
                       job[i].host = job[j].host}) < HostCap
    /\ job' = [job EXCEPT ![j].stage = "holding"]
    /\ UNCHANGED <<assigned, changes, jobs, dispatchVars, queue, limiterVars>>

\* The runner is called with what job.Endpoint is by now.
Poll(w, j) ==
    /\ job[j].wheel = w /\ stage(j) = "holding"
    /\ job' = [job EXCEPT ![j].stage = "polling", ![j].at = job[j].addr]
    /\ UNCHANGED <<assigned, changes, jobs, dispatchVars, queue, limiterVars>>

\* The poll answers, fails, times out or panics: the host's slot is free.
Finish(w, j) ==
    /\ job[j].wheel = w /\ stage(j) = "polling"
    /\ job' = [job EXCEPT ![j].stage = "ended"]
    /\ UNCHANGED <<assigned, changes, jobs, dispatchVars, queue, limiterVars>>

\* The deferred markDone, once the worker gets the mutex.
Return(w, j) ==
    /\ job[j].wheel = w /\ stage(j) = "ended"
    /\ MarkDone(j)
    /\ UNCHANGED <<assigned, changes, jobs, dispatchVars, queue>>

\* Limiter.Done, after markDone has released the scheduler's mutex.
Done(t) ==
    /\ releasing[t] > 0
    /\ releasing' = [releasing EXCEPT ![t] = @ - 1]
    /\ inflight' = [inflight EXCEPT ![t] = IF @ > 0 THEN @ - 1 ELSE 0]
    /\ UNCHANGED <<assigned, changes, jobs, job, dispatchVars, queue, nextStart>>

Apply(w, e) == Add(w, e) \/ Change(w, e) \/ Remove(w, e)
Wheel(w) == Dispatch(w) \/ (\E j \in JobIds : Admit(w, j)) \/ Unlock(w) \/ DispatchEnd(w)
Work(w, j) == Enqueue(w, j) \/ AcquireHost(w, j) \/ Poll(w, j) \/ Finish(w, j)
              \/ Return(w, j)

Next ==
    \/ \E e \in Endpoints, a \in Targets \cup {None} : Refresh(e, a)
    \/ \E w \in Wheels, e \in Endpoints : Apply(w, e)
    \/ Second
    \/ \E w \in Wheels : Wheel(w) \/ Dequeue(w) \/ \E j \in JobIds : Work(w, j)
    \/ \E t \in Targets : Done(t)

Spec == Init /\ [][Next]_vars

\* Time passes, goroutines run, and polls end: every poll has a timeout.
\* What waits for the mutex or for a semaphore channel is served in the end
\* (Go's mutex hands over to a starving waiter; a channel's waiters queue).
Fairness ==
    /\ WF_vars(Second)
    /\ \A w \in Wheels : WF_vars(Wheel(w)) /\ WF_vars(Dequeue(w))
    /\ \A w \in Wheels, j \in JobIds : SF_vars(Work(w, j))
    /\ \A w \in Wheels, e \in Endpoints : SF_vars(Apply(w, e))
    /\ \A t \in Targets : WF_vars(Done(t))

FairSpec == Spec /\ Fairness

-----------------------------------------------------------------------------
(* Properties.                                                             *)

Job == [stage : Running \cup {"idle", "unused"}, wheel : Wheels \cup {None},
        ep : Endpoints \cup {None}, addr : Targets \cup {None}, next : Nat,
        target : Targets \cup {None}, host : Targets \cup {None},
        at : Targets \cup {None}]

TypeOK ==
    /\ assigned \in [Endpoints -> Targets \cup {None}] /\ changes \in 0 .. MaxChanges
    /\ jobs \in [Wheels -> [Endpoints -> JobIds \cup {None}]]
    /\ job \in [JobIds -> Job]
    /\ phase \in [Wheels -> {"idle", "ticked", "admitting", "queueing"}]
    /\ late \in [Wheels -> SUBSET JobIds] /\ fresh \in [Wheels -> SUBSET JobIds]
    /\ deferred \in [Wheels -> Seq(JobIds)] /\ queue \in [Wheels -> Seq(JobIds)]
    /\ \A w \in Wheels : Len(queue[w]) <= QueueSize
    /\ inflight \in [Targets -> Nat] /\ nextStart \in [Targets -> Nat]
    /\ releasing \in [Targets -> Nat]

\* The limiter counts exactly the slots that jobs hold or are giving back:
\* none leaks and none is released twice, across shed and removed jobs and
\* addresses that change under a queued job.
SlotsBalanced ==
    \A t \in Targets :
        inflight[t] = Cardinality({j \in JobIds : job[j].target = t}) + releasing[t]

Polling(e) == {j \in JobIds : job[j].ep = e /\ stage(j) = "polling"}

\* As long as the assignment stands, a target's limit holds for the requests
\* that are really at it, those of all wheels together.
PollsWithinLimit ==
    \A t \in Targets : changes = 0 /\ CapOf(t) > 0 =>
        Cardinality({j \in JobIds : stage(j) = "polling" /\ job[j].at = t}) <= CapOf(t)

\* "FIFO bounds every wait" (sched.go): a poll that a target's gap holds back
\* gets its turn, also when more falls due than the gap lets through.
DeferredIsAdmitted ==
    \A w \in Wheels, j \in JobIds :
        j \in Range(deferred[w]) ~> j \notin Range(deferred[w])

\* Every endpoint is polled again and again on every wheel: no slot, queue
\* entry, worker or running flag is lost for good.
KeepsPolling ==
    \A w \in Wheels, e \in Endpoints :
        LET polled == \E j \in Polling(e) : job[j].wheel = w
        IN  []<>polled /\ []<>~polled
=============================================================================
