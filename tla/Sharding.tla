------------------------------ MODULE Sharding ------------------------------
(***************************************************************************)
(* The ownership policy of services/sharding.py and services/assigner.py:  *)
(* which collector polls which endpoint.  The policy is pure: every        *)
(* operator takes the fleet as live_collectors reports it,                 *)
(*   f : collectors in the fleet -> [pool, accepting, age, streak],        *)
(* the pins (endpoint -> collector or None) and the record                 *)
(* endpoint_assignment (a partial function endpoint -> owner or None).     *)
(* Ages are whole ticks of the unit that FailoverAfter and FailbackAfter   *)
(* are given in.                                                           *)
(***************************************************************************)
EXTENDS Integers, FiniteSets

CONSTANTS Collectors,       \* collector ids, ordered as the code sorts them
          Endpoints,
          Pools,
          None,             \* no pool, no site, no pin, no owner
          EndpointPool,     \* the pool an endpoint's address resolves into
          EndpointSite,
          CollectorSites,   \* admin placement by site; {} serves any site
          HAPools,          \* pools whose min_members is at least 2
          Weight,           \* rendezvous weight of (endpoint, collector)
          MaxWeight,        \* ... which is eight bytes of a digest
          FailoverAfter,
          FailbackAfter,
          RebalanceMinDelta,
          RebalanceMinRatio

ASSUME ShardingAssumption ==
    /\ Collectors \subseteq Nat
    /\ IsFiniteSet(Collectors)
    /\ None \notin Collectors /\ None \notin Pools
    /\ EndpointPool \in [Endpoints -> Pools \cup {None}]
    /\ CollectorSites \in [Collectors -> SUBSET {EndpointSite[e] : e \in Endpoints}]
    /\ HAPools \subseteq Pools
    /\ MaxWeight \in Nat
    /\ Weight \in [Endpoints -> [Collectors -> 0 .. MaxWeight]]
    /\ \A e \in Endpoints : \A c, d \in Collectors :
          Weight[e][c] = Weight[e][d] => c = d
    /\ FailoverAfter \in Nat /\ FailbackAfter \in Nat
    /\ RebalanceMinDelta \in Nat /\ RebalanceMinRatio \in Nat

(* Mutant: a collector without a pool serves pooled endpoints of its site. *)
ServesSite(c, m, e) ==
    IF m.pool # None
    THEN EndpointPool[e] = m.pool
    ELSE CollectorSites[c] = {} \/ EndpointSite[e] \in CollectorSites[c]

(* Collector.serves: a pool is the whole placement; an endpoint in a pool  *)
(* is never served from outside it.                                        *)
Serves(c, m, e) ==
    IF m.pool # None
    THEN EndpointPool[e] = m.pool
    ELSE /\ EndpointPool[e] = None
         /\ CollectorSites[c] = {} \/ EndpointSite[e] \in CollectorSites[c]

Eligible(e, f) == {c \in DOMAIN f : f[c].accepting /\ Serves(c, f[c], e)}

(* The highest rendezvous weight among the eligible, or nobody.            *)
Owner(e, f) ==
    IF Eligible(e, f) = {} THEN None
    ELSE CHOOSE c \in Eligible(e, f) :
            \A d \in Eligible(e, f) : Weight[e][d] <= Weight[e][c]

Plan(e, f, pins) == IF pins[e] # None THEN pins[e] ELSE Owner(e, f)

Recorded(record, e) == IF e \in DOMAIN record THEN record[e] ELSE None

(* The one answer every reader shares: a pin, else the record while its    *)
(* owner may still hold it, else the live plan.                            *)
Effective(e, f, pins, record) ==
    IF DOMAIN f = {} THEN None
    ELSE IF pins[e] = None /\ Recorded(record, e) \in Eligible(e, f)
         THEN record[e]
         ELSE Plan(e, f, pins)

(* Mutant: only an owner that left the fleet is replaced. *)
MandatoryMovesGone(record, f, pins) ==
    {e \in DOMAIN record : record[e] # None /\ record[e] \notin DOMAIN f}

(* Endpoints whose recorded owner can no longer hold them at all.          *)
MandatoryMoves(record, f, pins) ==
    {e \in DOMAIN record :
        /\ record[e] # None
        /\ \/ record[e] \notin DOMAIN f
           \/ ~ f[record[e]].accepting
           \/ pins[e] # record[e] /\ ~ Serves(record[e], f[record[e]], e)}

Group(e) == {d \in Endpoints : /\ EndpointPool[d] = EndpointPool[e]
                               /\ EndpointSite[d] = EndpointSite[e]}

(* The damping test on the group of e: the fullest member is off the mean  *)
(* by both the delta and the ratio (both sides multiplied by the members). *)
Imbalanced(e, record, f, pins) ==
    LET members == Eligible(e, f)
        n       == Cardinality(members)
        size    == Cardinality(Group(e))
        held(c) == Cardinality({d \in Group(e) : Recorded(record, d) = c})
    IN  /\ \E c \in members : /\ n * held(c) - size >= n * RebalanceMinDelta
                              /\ n * held(c) >= size * RebalanceMinRatio
        /\ \E d \in Group(e) : Recorded(record, d) # Plan(d, f, pins)

(* The group of e adopts the plan as one if any of it must move.           *)
Triggered(e, record, f, pins) ==
    \/ Group(e) \cap MandatoryMoves(record, f, pins) # {}
    \/ Imbalanced(e, record, f, pins)

Rebalance(e, record, f, pins) ==
    IF e \notin DOMAIN record \/ Triggered(e, record, f, pins)
    THEN Plan(e, f, pins)
    ELSE record[e]

(* Mutant: any heartbeating member counts. *)
LongHealthyNow(m) == m.accepting /\ m.age <= FailoverAfter

(* A member that could stand in for a quarantined one: itself past the     *)
(* failback window.                                                        *)
LongHealthy(m) == /\ m.accepting
                  /\ m.age <= FailoverAfter
                  /\ m.streak >= FailbackAfter

(* Mutant: no failback window. *)
HeldOutSilent(c, f, frozen) ==
    f[c].accepting /\ f[c].pool \in HAPools \ frozen /\ f[c].age > FailoverAfter

(* apply_ha_policy, one member: silence past the failover limit, or a      *)
(* fresh return while a long-healthy peer serves, takes accepting away.    *)
HeldOut(c, f, frozen) ==
    /\ f[c].accepting
    /\ f[c].pool \in HAPools \ frozen
    /\ \/ f[c].age > FailoverAfter
       \/ /\ f[c].streak < FailbackAfter
          /\ \E d \in DOMAIN f \ {c} : f[d].pool = f[c].pool /\ LongHealthy(f[d])

ApplyHAPolicy(f, frozen) ==
    [c \in DOMAIN f |->
        [f[c] EXCEPT !.accepting = @ /\ ~ HeldOut(c, f, frozen)]]

(* assigner.compute: what one pass writes; an endpoint that had no row and *)
(* is served by nobody gets none.  force is None or the pool of "rebalance *)
(* now".                                                                   *)
Compute(raw, pins, record, frozen, force) ==
    LET f     == ApplyHAPolicy(raw, frozen)
        first == {e \in Endpoints \ DOMAIN record : Plan(e, f, pins) # None}
    IN  IF DOMAIN raw = {} THEN record
        ELSE [e \in DOMAIN record \cup first |->
                IF force # None /\ EndpointPool[e] = force
                THEN Plan(e, f, pins)
                ELSE Rebalance(e, record, f, pins)]

(* preview_drain: every endpoint c is served has somewhere to go once c no *)
(* longer accepts.                                                         *)
CanDrain(c, f, pins, record) ==
    LET drained == [f EXCEPT ![c].accepting = FALSE]
    IN  \A e \in Endpoints :
            Effective(e, f, pins, record) = c => Plan(e, drained, pins) # None
=============================================================================
