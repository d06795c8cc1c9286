------------------------------ MODULE Rollout -------------------------------
(***************************************************************************)
(* Rolling a release over the fleet: services/rollout.py (decide, tick,    *)
(* _restore_orphans), the command table of repositories/commands.py, the   *)
(* rollout endpoints, and the collector's side of an upgrade               *)
(* (collector/internal/app/upgrade.go).  Extends the fleet: the same rows, *)
(* operator actions and assigner.                                          *)
(***************************************************************************)
EXTENDS Fleet, FiniteSetsExt

CONSTANTS Rollouts,          \* rollout ids; a rollout's tag in state_changed_by
          RolloutPools,      \* rollout -> the pools it covers
          TargetOf,          \* rollout -> release version
          OldVersion,
          SettleTicks, HandoffTicks, CommandTimeout,
          MayCancel,         \* an admin cancels rollouts
          CancelDuringTick,  \* ... also between a tick's listing and its writes
          MayFail,           \* upgrades are refused, answers get lost
          MayBreak           \* a build can fail to start

(* Endpoints are finite and times count ticks.  Two rollouts listed by one  *)
(* tick cover different pools, as long as none is cancelled and replaced   *)
(* while the tick runs.                                                    *)
ASSUME RolloutAssumption ==
    /\ IsFiniteSet(Endpoints)
    /\ SettleTicks \in Nat /\ HandoffTicks \in Nat /\ CommandTimeout \in Nat
    /\ OldVersion \notin {TargetOf[r] : r \in Rollouts}
    /\ CancelDuringTick => \A r, o \in Rollouts :
                              r # o => RolloutPools[r] \cap RolloutPools[o] = {}

VARIABLES rstate,     \* collector_rollout.state ("none": not started)
          cmd,        \* collector_command.state of rollout r's command to c
          cmdAge,     \* ticks since it was created, then since it finished
          stateAge,   \* ticks since state_changed_at
          version,    \* collector_instance.version, from the heartbeat
          runs,       \* the version the process really runs
          job,        \* the command the collector is working on
          verifying,  \* its new build has yet to confirm itself
          listed      \* the running rollouts a tick has read (None: no tick)

upgradeVars == <<cmd, cmdAge, runs, job, verifying>>
rolloutVars == <<rstate, upgradeVars, version, listed>>
vars        == <<fleetVars, rolloutVars, stateAge>>

MaxStateAge == HandoffTicks
MaxCmdAge   == IF SettleTicks > CommandTimeout THEN SettleTicks ELSE CommandTimeout + 1
CmdStates   == {"none", "pending", "delivered", "succeeded", "failed", "expired"}
Open        == {"pending", "delivered"}
Ended       == {"succeeded", "failed", "cancelled"}

RolloutTypeOK ==
    /\ by \in [Collectors -> Rollouts \cup {Operator, "rollout"}]
    /\ rstate \in [Rollouts -> {"none", "running"} \cup Ended]
    /\ cmd \in [Rollouts -> [Collectors -> CmdStates]]
    /\ stateAge \in [Collectors -> 0 .. MaxStateAge]
    /\ job \in [Collectors -> Rollouts \cup {None}]
    /\ listed = None \/ listed \in SUBSET Rollouts

Init ==
    /\ FleetInit
    /\ rstate = [r \in Rollouts |-> "none"]
    /\ cmd = [r \in Rollouts |-> [c \in Collectors |-> "none"]]
    /\ cmdAge = [r \in Rollouts |-> [c \in Collectors |-> 0]]
    /\ stateAge = [c \in Collectors |-> MaxStateAge]
    /\ version = [c \in Collectors |-> OldVersion]
    /\ runs = [c \in Collectors |-> OldVersion]
    /\ job = [c \in Collectors |-> None]
    /\ verifying = [c \in Collectors |-> FALSE]
    /\ listed = None

---------------------------------------------------------------------------
(* decide, one pool at a time.                                             *)

Healthy(c) == age[c] < StaleAfter

(* The members a rollout looks at: active ones, and the ones it drained.   *)
MineActive(r, p) ==                                              \* mutant
    {c \in Collectors : pool[c] = p /\ state[c] = "active"}

Mine(r, p) == {c \in Collectors : /\ pool[c] = p
                                  /\ \/ state[c] = "active"
                                     \/ state[c] = "draining" /\ by[c] = r}

Owned(c) == Cardinality({e \in Endpoints : Served(e) = c})

Wait == [act |-> "wait", who |-> None]
Do(a, c) == [act |-> a, who |-> c]

(* Mutant: the partners' health is looked at only before the drain.        *)
DecideDrainedRegardless(r, p, m) ==
    IF Owned(m) > 0 \/ stateAge[m] < HandoffTicks THEN Wait ELSE Do("upgrade", m)

(* A member this rollout drained and has not upgraded: put back untouched  *)
(* if the partners went sick, commanded once it owns nothing and the       *)
(* hand-off window is over.                                                *)
DecideDrained(r, p, m) ==
    LET partners == Mine(r, p) \ {m}
    IN  IF partners = {} \/ \E c \in partners : ~ Healthy(c) THEN Do("restore", m)
        ELSE IF Owned(m) > 0 \/ stateAge[m] < HandoffTicks THEN Wait
        ELSE Do("upgrade", m)

(* The next member to take: only a heartbeating one, only while its        *)
(* partners are healthy; drained first if it has any.                      *)
DecideNext(r, p) ==
    LET remaining == {c \in Mine(r, p) : version[c] # TargetOf[r]}
        candidate == Min(remaining)
        others    == Mine(r, p) \ {candidate}
    IN  IF remaining = {} THEN Do("done", None)
        ELSE IF ~ Healthy(candidate) \/ \E c \in others : ~ Healthy(c) THEN Wait
        ELSE IF others # {} THEN Do("drain", candidate)
        ELSE Do("upgrade", candidate)

CommandOpen(r, p, cs) == \E c \in Mine(r, p) : cs[c] \in Open

DecidePool(r, p, cs) ==
    LET mine      == Mine(r, p)
        finished  == {c \in mine : cs[c] = "succeeded"}
        ours      == {c \in mine : state[c] = "draining"}
        unsettled == {c \in finished : \/ version[c] # TargetOf[r] \/ ~ Healthy(c)
                                       \/ cmdAge[r][c] < SettleTicks}
    IN  IF mine = {} \/ CommandOpen(r, p, cs) THEN Wait
        ELSE IF ours \cap finished # {}
             THEN LET m == Min(ours \cap finished)
                  IN  IF version[m] = TargetOf[r] /\ Healthy(m)
                      THEN Do("restore", m) ELSE Wait
        ELSE IF ours # {} THEN DecideDrained(r, p, Min(ours))
        ELSE IF unsettled # {} THEN Wait
        ELSE DecideNext(r, p)

---------------------------------------------------------------------------
(* tick.                                                                   *)

(* It lists the running rollouts ...                                       *)
TickBegin ==
    /\ listed = None
    /\ listed' = {r \in Rollouts : rstate[r] = "running"}
    /\ UNCHANGED <<fleetVars, rstate, upgradeVars, version>>

(* expire_stale: an open command older than the timeout.                   *)
Expired(r) == [c \in Collectors |->
                 IF cmd[r][c] \in Open /\ cmdAge[r][c] > CommandTimeout
                 THEN "expired" ELSE cmd[r][c]]

HasFailed(r) == \E c \in Collectors : Expired(r)[c] \in {"failed", "expired"}

Decision(r) == IF r \in listed /\ ~ HasFailed(r)
               THEN {DecidePool(r, p, Expired(r)) : p \in RolloutPools[r]}
               ELSE {}
IsDone(r)   == r \in listed /\ ~ HasFailed(r) /\ Decision(r) = {Do("done", None)}
Chosen(r, a) == {d.who : d \in {x \in Decision(r) : x.act = a}}

(* ... and then writes each decision over whatever the row says by now:    *)
(* set_rollout_state has no condition on the old state.  A decision with   *)
(* something to wait for writes 'running' (only upgrades wait for nothing).*)
NewRState(r) ==
    IF r \notin listed THEN rstate[r]
    ELSE IF HasFailed(r) THEN "failed"
    ELSE IF IsDone(r) THEN "succeeded"
    ELSE IF \E d \in Decision(r) : d.act \in {"wait", "drain", "restore"}
         THEN "running"
    ELSE rstate[r]

(* Mutant: only what a failed rollout left behind is put back.             *)
OrphansOfFailed(st, bb) ==
    {c \in Collectors :
        /\ st[c] = "draining" /\ bb[c] \in Rollouts
        /\ Healthy(c)
        /\ rstate'[bb[c]] = "failed"
        /\ \A r \in Rollouts : cmd'[r][c] \notin Open}

(* _restore_orphans: a member drained by a rollout that no longer runs,    *)
(* heartbeating, with no command open.                                     *)
Orphans(st, bb) ==
    {c \in Collectors :
        /\ st[c] = "draining" /\ bb[c] \in Rollouts
        /\ Healthy(c)
        /\ rstate'[bb[c]] # "running"
        /\ \A r \in Rollouts : cmd'[r][c] \notin Open}

TickCommit ==
    LET drained(c)  == {r \in Rollouts : c \in Chosen(r, "drain")}
        restored(c) == {r \in Rollouts : c \in Chosen(r, "restore")}
        st == [c \in Collectors |-> IF drained(c) # {} THEN "draining"
                                    ELSE IF restored(c) # {} THEN "active" ELSE state[c]]
        bb == [c \in Collectors |->
                 IF drained(c) \cup restored(c) = {} THEN by[c]
                 ELSE CHOOSE r \in drained(c) \cup restored(c) : TRUE]
    IN  /\ listed # None
        /\ rstate' = [r \in Rollouts |-> NewRState(r)]
        /\ cmd' = [r \in Rollouts |-> [c \in Collectors |->
                     IF c \in Chosen(r, "upgrade") THEN "pending" ELSE Expired(r)[c]]]
        /\ cmdAge' = [r \in Rollouts |-> [c \in Collectors |->
                        IF cmd'[r][c] # cmd[r][c] THEN 0 ELSE cmdAge[r][c]]]
        /\ state' = [c \in Collectors |-> IF c \in Orphans(st, bb) THEN "active" ELSE st[c]]
        /\ by' = [c \in Collectors |-> IF c \in Orphans(st, bb) THEN "rollout" ELSE bb[c]]
        /\ IF by' # by \/ state' # state THEN Assign(pins) ELSE UNCHANGED record
        /\ listed' = None
        /\ UNCHANGED <<pool, ran, age, streak, up, pins, frozen, changes, outages,
                       runs, job, verifying, version>>

---------------------------------------------------------------------------
(* The admin.                                                              *)

(* start_rollout: refused while a running one covers the same pool.        *)
StartRollout(r) ==
    /\ rstate[r] = "none"
    /\ \A o \in Rollouts : rstate[o] = "running" => RolloutPools[o] \cap RolloutPools[r] = {}
    /\ rstate' = [rstate EXCEPT ![r] = "running"]
    /\ UNCHANGED <<fleetVars, upgradeVars, version, listed>>

CancelRollout(r) ==
    /\ MayCancel /\ rstate[r] = "running"
    /\ listed = None \/ CancelDuringTick
    /\ rstate' = [rstate EXCEPT ![r] = "cancelled"]
    /\ UNCHANGED <<fleetVars, upgradeVars, version, listed>>

---------------------------------------------------------------------------
(* The collector.                                                          *)

SetCmd(r, c, s) == /\ cmd' = [cmd EXCEPT ![r][c] = s]
                   /\ cmdAge' = [cmdAge EXCEPT ![r][c] = IF s = "delivered" THEN @ ELSE 0]

(* claim_pending: delivered in the statement that returns it; the answer   *)
(* may be lost on the way.                                                 *)
Claim(r, c) ==
    /\ up[c] /\ job[c] = None /\ cmd[r][c] = "pending"
    /\ SetCmd(r, c, "delivered")
    /\ \/ job' = [job EXCEPT ![c] = r]
       \/ MayFail /\ UNCHANGED job
    /\ UNCHANGED <<fleetVars, rstate, version, runs, verifying, listed>>

(* command_result: only an open command is answered, and only once; the    *)
(* collector does not repeat a report that was lost.                       *)
Report(r, c, s) ==
    \/ IF cmd[r][c] \in Open THEN SetCmd(r, c, s) ELSE UNCHANGED <<cmd, cmdAge>>
    \/ MayFail /\ UNCHANGED <<cmd, cmdAge>>

(* handleUpgrade: refused before anything is touched, or answered at once  *)
(* because that release already runs.                                      *)
RefuseUpgrade(c) ==
    /\ up[c] /\ job[c] # None /\ ~ verifying[c]
    /\ \/ runs[c] = TargetOf[job[c]] /\ Report(job[c], c, "succeeded")
       \/ MayFail /\ runs[c] # TargetOf[job[c]] /\ Report(job[c], c, "failed")
    /\ job' = [job EXCEPT ![c] = None]
    /\ UNCHANGED <<fleetVars, rstate, version, runs, verifying, listed>>

(* ... or staged, and the process replaced by the new build.               *)
SwapBinary(c) ==
    /\ up[c] /\ job[c] # None /\ ~ verifying[c] /\ runs[c] # TargetOf[job[c]]
    /\ runs' = [runs EXCEPT ![c] = TargetOf[job[c]]]
    /\ verifying' = [verifying EXCEPT ![c] = TRUE]
    /\ \/ UNCHANGED up
       \/ MayBreak /\ up' = [up EXCEPT ![c] = FALSE]
    /\ UNCHANGED <<rowVars, pins, record, frozen, changes, outages,
                   rstate, cmd, cmdAge, job, version, listed>>

(* confirmUpgrade: the new build ran long enough.                          *)
Confirm(c) ==
    /\ up[c] /\ verifying[c]
    /\ Report(job[c], c, "succeeded")
    /\ verifying' = [verifying EXCEPT ![c] = FALSE]
    /\ job' = [job EXCEPT ![c] = None]
    /\ UNCHANGED <<fleetVars, rstate, version, runs, listed>>

(* The watcher puts the previous binary back, and resumeUpgrade reports it.*)
RollBack(c) ==
    /\ verifying[c] /\ ~ up[c]
    /\ runs' = [runs EXCEPT ![c] = OldVersion]
    /\ up' = [up EXCEPT ![c] = TRUE]
    /\ Report(job[c], c, "failed")
    /\ verifying' = [verifying EXCEPT ![c] = FALSE]
    /\ job' = [job EXCEPT ![c] = None]
    /\ UNCHANGED <<rowVars, pins, record, frozen, changes, outages, rstate, version, listed>>

---------------------------------------------------------------------------
(* The fleet's own steps; a heartbeat also carries the running version.    *)

TimePasses ==
    /\ Tick
    /\ cmdAge' = [r \in Rollouts |-> [c \in Collectors |->
                    IF cmd[r][c] = "none" THEN 0 ELSE Cap(cmdAge[r][c] + 1, MaxCmdAge)]]
    /\ UNCHANGED <<rstate, cmd, runs, job, verifying, version, listed>>

HeartbeatWithVersion(c) ==
    /\ Heartbeat(c)
    /\ version' = [version EXCEPT ![c] = runs[c]]
    /\ UNCHANGED <<rstate, upgradeVars, listed>>

FleetStep ==
    /\ \/ \E c \in Collectors : Silent(c) \/ (Return(c) /\ ~ verifying[c])
       \/ AssignerRun
       \/ Operate
    /\ UNCHANGED rolloutVars

RolloutStep ==
    \/ TickBegin \/ TickCommit
    \/ \E r \in Rollouts : StartRollout(r) \/ CancelRollout(r)
    \/ \E r \in Rollouts, c \in Collectors : Claim(r, c)
    \/ \E c \in Collectors : RefuseUpgrade(c) \/ SwapBinary(c) \/ Confirm(c) \/ RollBack(c)

(* state_changed_at is written with every set_state.                       *)
Aged(dt) == stateAge' = [c \in Collectors |->
                IF <<state[c], by[c]>>' # <<state[c], by[c]>> THEN 0
                ELSE Cap(stateAge[c] + dt, MaxStateAge)]

Next ==
    \/ TimePasses /\ Aged(1)
    \/ \E c \in Collectors : HeartbeatWithVersion(c) /\ Aged(0)
    \/ FleetStep /\ Aged(0)
    \/ RolloutStep /\ Aged(0)

Spec == Init /\ [][Next]_vars

(* The worker's passes and the collectors' own steps happen in time;       *)
(* nothing makes an operator act or a silent collector return.             *)
Fairness ==
    /\ WF_vars(TimePasses /\ Aged(1))
    /\ WF_vars(TickBegin /\ Aged(0))
    /\ WF_vars(TickCommit /\ Aged(0))
    /\ WF_vars(\E c \in Collectors : HeartbeatWithVersion(c) /\ Aged(0))
    /\ \A c \in Collectors : WF_vars((Confirm(c) \/ RollBack(c)) /\ Aged(0))

FairSpec == Spec /\ Fairness

---------------------------------------------------------------------------
(* Properties.                                                             *)

Upgrading(c) == verifying[c] \/ \E r \in Rollouts : cmd[r][c] \in Open

(* docs/26 Phase 7, "one member per pool at a time": no pool has two       *)
(* members with an upgrade under way.                                      *)
OneAtATime ==
    \A c, d \in Collectors :
        c # d /\ pool[c] # None /\ pool[c] = pool[d] => ~ (Upgrading(c) /\ Upgrading(d))

(* A member with an active partner is commanded only once nothing is       *)
(* polled through it, and with no sick partner; so a broken build costs    *)
(* the pool nothing.                                                       *)
CommandedWhenCovered ==
    [][\A r \in Rollouts, c \in Collectors :
          cmd[r][c] = "none" /\ cmd'[r][c] = "pending" =>
             \A d \in Collectors \ {c} :
                pool[d] = pool[c] /\ state[d] = "active" =>
                   Healthy(d) /\ \A e \in Endpoints : Served(e) # c]_vars

(* A member a rollout drained and that keeps heartbeating is returned to   *)
(* service, however the rollout ends.                                      *)
DrainedIsReturned ==
    \A c \in Collectors :
        (state[c] = "draining" /\ by[c] \in Rollouts)
            ~> (~ (state[c] = "draining" /\ by[c] \in Rollouts) \/ ~ up[c])

(* "Stops issuing new upgrades" (cancel_rollout): a cancelled rollout      *)
(* creates no command.                                                     *)
CancelledIssuesNothing ==
    [][\A r \in Rollouts : rstate[r] = "cancelled" =>
          \A c \in Collectors : cmd'[r][c] = "pending" => cmd[r][c] = "pending"]_vars

(* The pool p as a rolling upgrade sees it.                                *)
Phase(c) == IF \E r \in Rollouts : cmd[r][c] \in Open THEN "upgrading"
            ELSE IF state[c] = "draining" /\ by[c] \in Rollouts THEN "out"
            ELSE "in"

Upgrade == INSTANCE RollingUpgrade
             WITH Members <- Collectors, phase <- [c \in Collectors |-> Phase(c)]

(* The rollout of a pool implements the rolling upgrade it promises.       *)
IsRollingUpgrade == Upgrade!Spec
=============================================================================
