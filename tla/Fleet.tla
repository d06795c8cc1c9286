------------------------------- MODULE Fleet --------------------------------
(***************************************************************************)
(* The collector fleet as the platform keeps it: the rows of               *)
(* collector_instance, the pins on device_endpoint, the assigner's record  *)
(* endpoint_assignment and the change-freeze blackouts, with every         *)
(* operation of the collectors API that moves work.  A request or a worker *)
(* pass is one transaction and one action.  The collector processes are    *)
(* the environment: up says whether a collector's heartbeats arrive.       *)
(***************************************************************************)
EXTENDS Sharding

CONSTANTS StaleAfter,     \* a heartbeat gap that ends the healthy streak
          Operator,       \* state_changed_by of a person
          FirstFleet,     \* collectors installed and placed at the start
          FirstPool,      \* their placement
          LockBusy,       \* may a run elsewhere hold the assigner's lock?
          OperatorActs,   \* the operator actions the run explores
          MaxChanges,     \* bound on operator actions
          MaxOutages      \* bound on outages of collector processes

ASSUME FleetAssumption ==
    /\ StaleAfter \in Nat
    /\ FirstFleet \subseteq Collectors
    /\ FirstPool \in Pools \cup {None}

VARIABLES state,    \* collector_instance.state ("none": no row)
          by,       \* state_changed_by
          pool,     \* admin placement
          ran,      \* started_at is set
          age,      \* ticks since the last heartbeat
          streak,   \* ticks since healthy_since
          up,       \* the process is heartbeating
          pins, record, frozen,
          changes, outages

rowVars   == <<state, by, pool, ran, age, streak>>
fleetVars == <<rowVars, up, pins, record, frozen, changes, outages>>

MaxAge    == FailoverAfter + 1
MaxStreak == FailbackAfter
States    == {"none", "pending", "active", "draining", "decommissioned"}

Cap(n, max) == IF n < max THEN n ELSE max

FleetTypeOK ==
    /\ state \in [Collectors -> States]
    /\ pool \in [Collectors -> Pools \cup {None}]
    /\ ran \in [Collectors -> BOOLEAN]
    /\ age \in [Collectors -> 0 .. MaxAge]
    /\ streak \in [Collectors -> 0 .. MaxStreak]
    /\ up \in [Collectors -> BOOLEAN]
    /\ pins \in [Endpoints -> Collectors \cup {None}]
    /\ DOMAIN record \subseteq Endpoints
    /\ \A e \in DOMAIN record : record[e] \in Collectors \cup {None}
    /\ frozen \in SUBSET Pools

(* live_collectors: every row that may own work; accepting only once       *)
(* active and actually run.                                                *)
FleetOf(st) ==
    [c \in {d \in Collectors : st[d] \in {"active", "draining"}} |->
        [pool |-> pool[c], accepting |-> st[c] = "active" /\ ran[c],
         age |-> age[c], streak |-> streak[c]]]
LiveCollectors == FleetOf(state)

Served(e) == Effective(e, LiveCollectors, pins, record)

(* A new row: the first collector ever is active, a later one waits for an *)
(* admin.                                                                  *)
NewState == IF \E c \in Collectors : state[c] \notin {"none", "decommissioned"}
            THEN "pending" ELSE "active"

FleetInit ==
    /\ state = [c \in Collectors |-> IF c \in FirstFleet THEN "active" ELSE "none"]
    /\ by = [c \in Collectors |-> Operator]
    /\ pool = [c \in Collectors |-> IF c \in FirstFleet THEN FirstPool ELSE None]
    /\ ran = [c \in Collectors |-> c \in FirstFleet]
    /\ age = [c \in Collectors |-> 0]
    /\ streak = [c \in Collectors |-> IF c \in FirstFleet THEN MaxStreak ELSE 0]
    /\ up = [c \in Collectors |-> c \in FirstFleet]
    /\ pins = [e \in Endpoints |-> None]
    /\ frozen = {}
    /\ record = Compute(LiveCollectors, pins, <<>>, frozen, None)
    /\ changes = 0 /\ outages = 0

SetState(c, s, actor) ==
    /\ state' = [state EXCEPT ![c] = s]
    /\ by' = [by EXCEPT ![c] = actor]

---------------------------------------------------------------------------
(* Collectors.                                                             *)

(* register_collector: the first assignment fetch of an unknown id.        *)
Register(c) ==
    /\ state[c] = "none" /\ up[c]
    /\ state' = [state EXCEPT ![c] = NewState]
    /\ UNCHANGED <<by, pool, ran, age, streak, up, pins, record, frozen, changes, outages>>

(* upsert_heartbeat: a gap past StaleAfter, or a first run, starts a new   *)
(* streak.                                                                 *)
Heartbeat(c) ==
    /\ up[c]
    /\ state' = [state EXCEPT ![c] = IF @ = "none" THEN NewState ELSE @]
    /\ ran' = [ran EXCEPT ![c] = TRUE]
    /\ streak' = [streak EXCEPT ![c] =
                    IF ~ ran[c] \/ age[c] > StaleAfter THEN 0 ELSE @]
    /\ age' = [age EXCEPT ![c] = 0]
    /\ UNCHANGED <<by, pool, up, pins, record, frozen, changes, outages>>

Silent(c) ==
    /\ up[c] /\ outages < MaxOutages
    /\ up' = [up EXCEPT ![c] = FALSE]
    /\ outages' = outages + 1
    /\ UNCHANGED <<rowVars, pins, record, frozen, changes>>

Return(c) ==
    /\ ~ up[c]
    /\ up' = [up EXCEPT ![c] = TRUE]
    /\ UNCHANGED <<rowVars, pins, record, frozen, changes, outages>>

(* A live collector heartbeats several times in one tick.                  *)
Tick ==
    /\ \A c \in Collectors : up[c] => age[c] = 0
    /\ age' = [c \in Collectors |-> Cap(age[c] + 1, MaxAge)]
    /\ streak' = [c \in Collectors |-> Cap(streak[c] + 1, MaxStreak)]
    /\ UNCHANGED <<state, by, pool, ran, up, pins, record, frozen, changes, outages>>

---------------------------------------------------------------------------
(* The platform.                                                           *)

AssignerRun ==
    /\ record' = Compute(LiveCollectors, pins, record, frozen, None)
    /\ UNCHANGED <<rowVars, up, pins, frozen, changes, outages>>

(* assigner.run inside another transaction: skipped while a run elsewhere  *)
(* holds the advisory lock.                                                *)
Assign(p) == \/ record' = Compute(FleetOf(state'), p, record, frozen, None)
             \/ LockBusy /\ UNCHANGED record

RebalanceNow(p) ==
    /\ record' = Compute(LiveCollectors, pins, record, frozen, p)
    /\ UNCHANGED <<rowVars, up, pins, frozen>>

Unpinned(c) == [e \in Endpoints |-> IF pins[e] = c THEN None ELSE pins[e]]

(* drain: guarded unless forced, pins released if asked, and the assigner  *)
(* in the same transaction.  A member already draining keeps its marker.   *)
Drain(c, force, release) ==
    /\ state[c] \in {"active", "draining"}
    /\ force \/ CanDrain(c, LiveCollectors, pins, record)
    /\ pins' = IF release THEN Unpinned(c) ELSE pins
    /\ IF state[c] = "draining" THEN UNCHANGED <<state, by>>
       ELSE SetState(c, "draining", Operator)
    /\ Assign(pins')
    /\ UNCHANGED <<pool, ran, age, streak, up, frozen>>

Undrain(c) ==
    /\ state[c] = "draining"
    /\ SetState(c, "active", Operator)
    /\ Assign(pins)
    /\ UNCHANGED <<pool, ran, age, streak, up, pins, frozen>>

(* patch_collector: place it, approve it or change its state; nothing runs *)
(* the assigner.                                                           *)
PatchPool(c, p) ==
    /\ state[c] \notin {"none", "decommissioned"} /\ pool[c] # p
    /\ pool' = [pool EXCEPT ![c] = p]
    /\ UNCHANGED <<state, by, ran, age, streak, up, pins, record, frozen>>

PatchState(c, s) ==
    /\ state[c] \notin {"none", "decommissioned", s}
    /\ SetState(c, s, Operator)
    /\ UNCHANGED <<pool, ran, age, streak, up, pins, record, frozen>>

Decommission(c) ==
    /\ state[c] \notin {"none", "decommissioned"}
    /\ pins' = Unpinned(c)
    /\ SetState(c, "decommissioned", Operator)
    /\ UNCHANGED <<pool, ran, age, streak, up, record, frozen>>

Pin(e, c) ==
    /\ pins[e] # c
    /\ pins' = [pins EXCEPT ![e] = c]
    /\ UNCHANGED <<rowVars, up, record, frozen>>

Freeze(p) ==
    /\ frozen' = IF p \in frozen THEN frozen \ {p} ELSE frozen \cup {p}
    /\ UNCHANGED <<rowVars, up, pins, record>>

Operate ==
    /\ changes < MaxChanges
    /\ changes' = changes + 1
    /\ UNCHANGED outages
    /\ \/ /\ "drain" \in OperatorActs
          /\ \/ \E c \in Collectors, force, release \in BOOLEAN : Drain(c, force, release)
             \/ \E c \in Collectors : Undrain(c)
       \/ /\ "patch" \in OperatorActs
          /\ \/ \E c \in Collectors, p \in Pools \cup {None} : PatchPool(c, p)
             \/ \E c \in Collectors, s \in {"active", "draining"} : PatchState(c, s)
             \/ \E c \in Collectors : Decommission(c)
       \/ /\ "pin" \in OperatorActs
          /\ \E e \in Endpoints, c \in Collectors \cup {None} : Pin(e, c)
       \/ /\ "freeze" \in OperatorActs
          /\ \E p \in Pools : Freeze(p)
       \/ /\ "rebalance" \in OperatorActs
          /\ \E p \in Pools : RebalanceNow(p)

FleetNext ==
    \/ \E c \in Collectors : Register(c) \/ Heartbeat(c) \/ Silent(c) \/ Return(c)
    \/ Tick
    \/ AssignerRun
    \/ Operate

FleetSpec == FleetInit /\ [][FleetNext]_fleetVars

(* Running collectors heartbeat, time passes, and the ingest worker runs   *)
(* the assigner on its interval.                                           *)
FleetFairness ==
    /\ WF_fleetVars(\E c \in Collectors : Heartbeat(c))
    /\ WF_fleetVars(Tick)
    /\ WF_fleetVars(AssignerRun)

FairFleetSpec == FleetSpec /\ FleetFairness

---------------------------------------------------------------------------
(* Properties.                                                             *)

(* An unpinned endpoint is only ever served by a collector that is active, *)
(* has run, and is placed in the endpoint's pool or site: whatever the     *)
(* record still says after a drain, a move or a retirement.                *)
ServedInPlace ==
    \A e \in Endpoints :
        LET c == Served(e)
        IN  pins[e] = None /\ c # None =>
                /\ state[c] = "active" /\ ran[c]
                /\ IF pool[c] # None THEN EndpointPool[e] = pool[c]
                   ELSE EndpointPool[e] = None

(* The HA policy never empties a pool that has an accepting member whose   *)
(* heartbeat is fresh: members that came back together do not hold each    *)
(* other out.                                                              *)
PolicyKeepsAMember ==
    LET f    == LiveCollectors
        kept == ApplyHAPolicy(f, frozen)
    IN  \A c \in DOMAIN f :
            f[c].accepting /\ f[c].age <= FailoverAfter =>
                \E d \in DOMAIN f : f[d].pool = f[c].pool /\ kept[d].accepting

(* A member that has just come back does not snatch work from a pool with  *)
(* a long-healthy member: whoever writes the record (the assigner, a drain *)
(* or "rebalance now") gives it nothing new before the failback window is  *)
(* over.                                                                   *)
NoSnatchBack ==
    [][\A e \in DOMAIN record :
            LET c == record'[e]
            IN  /\ c # None /\ c # record[e] /\ pins'[e] = None
                /\ EndpointPool[e] \in HAPools \ frozen
                =>  \/ streak[c] >= FailbackAfter
                    \/ \A d \in Collectors \ {c} :
                          ~ /\ pool[d] = pool[c] /\ state'[d] = "active" /\ ran[d]
                            /\ age[d] <= FailoverAfter /\ streak[d] >= FailbackAfter
      ]_fleetVars

Live(c) == state[c] = "active" /\ ran[c] /\ up[c]

(* The recorded owner of an HA pool's endpoint is silent while a member    *)
(* could serve it.                                                         *)
Abandoned(e) ==
    /\ e \in DOMAIN record /\ pins[e] = None
    /\ EndpointPool[e] \in HAPools \ frozen
    /\ record[e] # None => ~ up[record[e]]
    /\ \E c \in Collectors : Live(c) /\ pool[c] = EndpointPool[e]

(* Failover happens: in an HA pool that is not frozen, a record that names *)
(* a silent collector while a live member could take the endpoint does not *)
(* last.                                                                   *)
SilentOwnerReplaced ==
    \A e \in Endpoints :
        (Abandoned(e) /\ record[e] # None) ~> ~ (Abandoned(e) /\ record[e] # None)

(* docs/26 Phase 6: an HA pool with a live member always ends up polled by *)
(* one.  (Does not hold after an outage of the whole pool.)                *)
PoolEndsUpPolled ==
    <>[](\A e \in Endpoints :
            Abandoned(e) => Served(e) # None /\ up[Served(e)])
=============================================================================
