--------------------------- MODULE RolloutProofs ----------------------------
(***************************************************************************)
(* What the ownership policy, the fleet and the rollouts over it guarantee *)
(* for any number of collectors, endpoints, pools and releases.            *)
(***************************************************************************)
EXTENDS Rollout, FiniteSetTheorems, WellFoundedInduction, TLAPS

---------------------------------------------------------------------------
(* The policy.                                                             *)

\* Weights are bounded, so among eligible collectors one is the heaviest.
LEMMA HeaviestExists ==
    ASSUME NEW e \in Endpoints, NEW S \in SUBSET Collectors, S # {}
    PROVE  \E c \in S : \A d \in S : Weight[e][d] <= Weight[e][c]
<1> DEFINE slack(c) == MaxWeight - Weight[e][c]
           T == {slack(c) : c \in S}
<1>1. \A c \in Collectors : Weight[e][c] \in 0 .. MaxWeight /\ slack(c) \in Nat
  BY ShardingAssumption
<1>2. T \subseteq Nat /\ T # {}
  BY <1>1
<1>3. \E x \in T : \A y \in T : ~ (<<y, x>> \in OpToRel(<, Nat))
  <2> HIDE DEF T
  <2> QED BY <1>2, NatLessThanWellFounded, WFMin
<1>4. PICK c \in S : \A y \in T : ~ (<<y, slack(c)>> \in OpToRel(<, Nat))
  BY <1>3
<1>5. ASSUME NEW d \in S PROVE Weight[e][d] <= Weight[e][c]
  <2>1. slack(d) \in T /\ slack(d) \in Nat /\ slack(c) \in Nat
    BY <1>1
  <2>2. ~ (slack(d) < slack(c))
    BY <1>4, <2>1 DEF OpToRel
  <2>3. /\ Weight[e][c] \in Int /\ Weight[e][d] \in Int /\ MaxWeight \in Int
        /\ ~ (MaxWeight - Weight[e][d] < MaxWeight - Weight[e][c])
    BY <1>1, <2>2, ShardingAssumption
  <2> QED BY <2>3
<1> QED BY <1>5

\* The owner the plan chooses is eligible.
LEMMA OwnerIsEligible ==
    ASSUME NEW e \in Endpoints, NEW f, DOMAIN f \subseteq Collectors
    PROVE  \/ Owner(e, f) = None /\ Eligible(e, f) = {}
           \/ Owner(e, f) \in Eligible(e, f)
<1>1. Eligible(e, f) \in SUBSET Collectors
  BY DEF Eligible
<1>2. CASE Eligible(e, f) # {}
  <2>1. \E c \in Eligible(e, f) : \A d \in Eligible(e, f) : Weight[e][d] <= Weight[e][c]
    BY <1>1, <1>2, HeaviestExists
  <2> QED BY <1>2, <2>1 DEF Owner
<1>3. CASE Eligible(e, f) = {}
  BY <1>3 DEF Owner
<1> QED BY <1>2, <1>3

\* An endpoint is served by its pin or by an eligible collector.
LEMMA EffectiveIsEligible ==
    ASSUME NEW e \in Endpoints, NEW f, DOMAIN f \subseteq Collectors,
           NEW p, NEW r, p[e] = None,
           Effective(e, f, p, r) # None
    PROVE  Effective(e, f, p, r) \in Eligible(e, f)
<1>1. CASE DOMAIN f = {}
  BY <1>1 DEF Effective
<1>2. CASE DOMAIN f # {} /\ Recorded(r, e) \in Eligible(e, f)
  <2>1. None \notin Eligible(e, f)
    BY ShardingAssumption DEF Eligible
  <2>2. e \in DOMAIN r /\ Recorded(r, e) = r[e]
    BY <1>2, <2>1 DEF Recorded
  <2> QED BY <1>2, <2>2 DEF Effective
<1>3. CASE DOMAIN f # {} /\ Recorded(r, e) \notin Eligible(e, f)
  <2>1. Effective(e, f, p, r) = Owner(e, f)
    BY <1>3 DEF Effective, Plan
  <2> QED BY <2>1, OwnerIsEligible
<1> QED BY <1>1, <1>2, <1>3

\* A pass of the assigner writes collectors it knows, or nobody.
LEMMA ComputeTypes ==
    ASSUME NEW f, DOMAIN f \subseteq Collectors,
           NEW p \in [Endpoints -> Collectors \cup {None}],
           NEW r, DOMAIN r \subseteq Endpoints,
           \A e \in DOMAIN r : r[e] \in Collectors \cup {None},
           NEW frz, NEW force
    PROVE  LET w == Compute(f, p, r, frz, force)
           IN  /\ DOMAIN w \subseteq Endpoints
               /\ \A e \in DOMAIN w : w[e] \in Collectors \cup {None}
<1> DEFINE g == ApplyHAPolicy(f, frz)
<1>1. DOMAIN g = DOMAIN f
  BY DEF ApplyHAPolicy
<1>2. ASSUME NEW e \in Endpoints PROVE Plan(e, g, p) \in Collectors \cup {None}
  <2>1. Owner(e, g) \in Eligible(e, g) \cup {None}
    BY <1>1, OwnerIsEligible
  <2>2. Eligible(e, g) \subseteq Collectors
    BY <1>1 DEF Eligible
  <2> QED BY <2>1, <2>2 DEF Plan
<1>3. ASSUME NEW e \in Endpoints PROVE Rebalance(e, r, g, p) \in Collectors \cup {None}
  BY <1>2 DEF Rebalance
<1> HIDE DEF g
<1>4. CASE DOMAIN f = {}
  BY <1>4 DEF Compute
<1>5. CASE DOMAIN f # {}
  <2> DEFINE rows == DOMAIN r \cup {e \in Endpoints \ DOMAIN r : Plan(e, g, p) # None}
  <2>1. Compute(f, p, r, frz, force) =
          [e \in rows |-> IF force # None /\ EndpointPool[e] = force
                          THEN Plan(e, g, p) ELSE Rebalance(e, r, g, p)]
    BY <1>5 DEF Compute, g
  <2>2. rows \subseteq Endpoints
    OBVIOUS
  <2> HIDE DEF rows
  <2> QED BY <2>1, <2>2, <1>2, <1>3
<1> QED BY <1>4, <1>5

---------------------------------------------------------------------------
(* The fleet.                                                              *)

\* The fleet is made of collectors that are active or draining.
LEMMA FleetFacts ==
    ASSUME NEW st
    PROVE  /\ DOMAIN FleetOf(st) = {d \in Collectors : st[d] \in {"active", "draining"}}
           /\ \A c \in DOMAIN FleetOf(st) :
                FleetOf(st)[c] = [pool |-> pool[c],
                                  accepting |-> st[c] = "active" /\ ran[c],
                                  age |-> age[c], streak |-> streak[c]]
BY DEF FleetOf

\* Unpinned endpoints are served in their place, in every state: the policy
\* asks the fleet as it is, whatever the record says.
LEMMA PolicyServesInPlace == ServedInPlace
<1> SUFFICES ASSUME NEW e \in Endpoints,
                    pins[e] = None, Served(e) # None
             PROVE  /\ state[Served(e)] = "active" /\ ran[Served(e)]
                    /\ IF pool[Served(e)] # None
                       THEN EndpointPool[e] = pool[Served(e)]
                       ELSE EndpointPool[e] = None
  BY DEF ServedInPlace
<1> DEFINE f == LiveCollectors
           c == Served(e)
<1>1. DOMAIN f \subseteq Collectors
  BY FleetFacts DEF LiveCollectors
<1>2. c \in Eligible(e, f)
  BY <1>1, EffectiveIsEligible DEF Served
<1>3. c \in DOMAIN f /\ f[c].accepting /\ Serves(c, f[c], e)
  BY <1>2 DEF Eligible
<1>4. f[c] = [pool |-> pool[c], accepting |-> state[c] = "active" /\ ran[c],
              age |-> age[c], streak |-> streak[c]]
  BY <1>3, FleetFacts DEF LiveCollectors
<1>5. f[c].pool = pool[c] /\ f[c].accepting = (state[c] = "active" /\ ran[c])
  BY <1>4
<1> HIDE DEF c, f
<1>6. state[c] = "active" /\ ran[c]
  BY <1>3, <1>5
<1>7. IF pool[c] # None THEN EndpointPool[e] = pool[c] ELSE EndpointPool[e] = None
  BY <1>3, <1>5 DEF Serves
<1> QED BY <1>6, <1>7 DEF c

\* The HA policy leaves every pool that has a fresh accepting member with an
\* accepting member: a member is only held out for a peer that is kept.
LEMMA PolicyNeverEmptiesAPool == FleetTypeOK => PolicyKeepsAMember
<1> SUFFICES ASSUME FleetTypeOK,
                    NEW c \in DOMAIN LiveCollectors,
                    LiveCollectors[c].accepting,
                    LiveCollectors[c].age <= FailoverAfter
             PROVE  \E d \in DOMAIN LiveCollectors :
                        /\ LiveCollectors[d].pool = LiveCollectors[c].pool
                        /\ ApplyHAPolicy(LiveCollectors, frozen)[d].accepting
  BY DEF PolicyKeepsAMember
<1> DEFINE f == LiveCollectors
<1>0. /\ DOMAIN f \subseteq Collectors
      /\ \A d \in DOMAIN f : f[d] = [pool |-> pool[d],
                                     accepting |-> state[d] = "active" /\ ran[d],
                                     age |-> age[d], streak |-> streak[d]]
  BY FleetFacts DEF LiveCollectors
<1>1. \A d \in DOMAIN f : f[d].age \in Int /\ f[d].streak \in Int
  BY <1>0 DEF FleetTypeOK, MaxAge, MaxStreak
<1>2. \A d \in DOMAIN f : f[d].accepting /\ ~ HeldOut(d, f, frozen)
                             => ApplyHAPolicy(f, frozen)[d].accepting
  BY <1>0 DEF ApplyHAPolicy
<1> HIDE DEF f
<1>3. CASE ~ HeldOut(c, f, frozen)
  BY <1>2, <1>3 DEF f
<1>4. CASE HeldOut(c, f, frozen)
  <2>1. PICK d \in DOMAIN f \ {c} : f[d].pool = f[c].pool /\ LongHealthy(f[d])
    BY <1>4, <1>1, ShardingAssumption DEF HeldOut, f
  <2>2. f[d].accepting /\ ~ HeldOut(d, f, frozen)
    BY <2>1, <1>1, ShardingAssumption DEF HeldOut, LongHealthy
  <2> QED BY <2>1, <2>2, <1>2 DEF f
<1> QED BY <1>3, <1>4

\* The invariant holds for a new fleet.
LEMMA FleetInitially == FleetInit => FleetTypeOK
<1> SUFFICES ASSUME FleetInit PROVE FleetTypeOK
  OBVIOUS
<1>1. MaxAge \in Nat /\ MaxStreak \in Nat
  BY ShardingAssumption DEF MaxAge, MaxStreak
<1>2. /\ state \in [Collectors -> States]
      /\ pool \in [Collectors -> Pools \cup {None}]
      /\ ran \in [Collectors -> BOOLEAN] /\ up \in [Collectors -> BOOLEAN]
      /\ pins \in [Endpoints -> Collectors \cup {None}]
      /\ frozen \in SUBSET Pools
  BY FleetAssumption DEF FleetInit, States
<1>3. /\ age \in [Collectors -> 0 .. MaxAge]
      /\ streak \in [Collectors -> 0 .. MaxStreak]
  BY <1>1 DEF FleetInit
<1>4. /\ DOMAIN record \subseteq Endpoints
      /\ \A e \in DOMAIN record : record[e] \in Collectors \cup {None}
  <2>0. DOMAIN <<>> = {}
    OBVIOUS
  <2>1. PICK st, r : st = state /\ r = <<>> /\ DOMAIN r = {}
    BY <2>0
  <2>2. record = Compute(FleetOf(st), pins, r, frozen, None)
    BY <2>1 DEF FleetInit, LiveCollectors
  <2>3. DOMAIN FleetOf(st) \subseteq Collectors
    BY FleetFacts
  <2> DEFINE f == FleetOf(st)
  <2> HIDE DEF f
  <2>4. LET w == Compute(f, pins, r, frozen, None)
        IN  /\ DOMAIN w \subseteq Endpoints
            /\ \A e \in DOMAIN w : w[e] \in Collectors \cup {None}
    BY <1>2, <2>1, <2>3, ComputeTypes DEF f
  <2> QED BY <2>2, <2>4 DEF f
<1> QED BY <1>2, <1>3, <1>4 DEF FleetTypeOK

\* The record keeps its type through a pass of the assigner.
LEMMA RecordKeepsType ==
    ASSUME FleetTypeOK, NEW st, NEW p \in [Endpoints -> Collectors \cup {None}], NEW force,
           record' = Compute(FleetOf(st), p, record, frozen, force)
    PROVE  /\ DOMAIN record' \subseteq Endpoints
           /\ \A e \in DOMAIN record' : record'[e] \in Collectors \cup {None}
<1>1. DOMAIN FleetOf(st) \subseteq Collectors
  BY FleetFacts
<1>2. /\ DOMAIN record \subseteq Endpoints
      /\ \A e \in DOMAIN record : record[e] \in Collectors \cup {None}
  BY DEF FleetTypeOK
<1> DEFINE f == FleetOf(st)
<1> HIDE DEF f
<1>3. LET w == Compute(f, p, record, frozen, force)
      IN  /\ DOMAIN w \subseteq Endpoints
          /\ \A e \in DOMAIN w : w[e] \in Collectors \cup {None}
  BY <1>1, <1>2, ComputeTypes DEF f
<1> QED BY <1>3 DEF f

\* ... and through a run that found the lock held.
LEMMA AssignKeepsType ==
    ASSUME FleetTypeOK, NEW p \in [Endpoints -> Collectors \cup {None}], Assign(p)
    PROVE  /\ DOMAIN record' \subseteq Endpoints
           /\ \A e \in DOMAIN record' : record'[e] \in Collectors \cup {None}
<1>1. CASE record' = Compute(FleetOf(state'), p, record, frozen, None)
  BY <1>1, RecordKeepsType
<1>2. CASE record' = record
  BY <1>2 DEF FleetTypeOK
<1> QED BY <1>1, <1>2 DEF Assign

\* A step by a collector keeps the types.
LEMMA CollectorStepTypes ==
    ASSUME FleetTypeOK, NEW c \in Collectors,
           Register(c) \/ Heartbeat(c) \/ Silent(c) \/ Return(c)
    PROVE  FleetTypeOK'
<1> USE DEF FleetTypeOK
<1>0. NewState \in States
  BY DEF NewState, States
<1>1. CASE Register(c)
  BY <1>0, <1>1 DEF Register
<1>2. CASE Heartbeat(c)
  <2>1. 0 \in 0 .. MaxAge /\ 0 \in 0 .. MaxStreak
    BY ShardingAssumption DEF MaxAge, MaxStreak
  <2>2. /\ state' \in [Collectors -> States] /\ ran' \in [Collectors -> BOOLEAN]
        /\ age' \in [Collectors -> 0 .. MaxAge]
        /\ streak' \in [Collectors -> 0 .. MaxStreak]
    BY <1>0, <1>2, <2>1 DEF Heartbeat
  <2> QED BY <1>2, <2>2 DEF Heartbeat
<1>3. CASE Silent(c)
  BY <1>3 DEF Silent, rowVars
<1>4. CASE Return(c)
  BY <1>4 DEF Return, rowVars
<1> QED BY <1>1, <1>2, <1>3, <1>4

\* The passing of time keeps the types.
LEMMA TickTypes == FleetTypeOK /\ Tick => FleetTypeOK'
<1> SUFFICES ASSUME FleetTypeOK, Tick PROVE FleetTypeOK'
  OBVIOUS
<1>1. MaxAge \in Nat /\ MaxStreak \in Nat
  BY ShardingAssumption DEF MaxAge, MaxStreak
<1>2. \A c \in Collectors : /\ age[c] \in 0 .. MaxAge
                            /\ streak[c] \in 0 .. MaxStreak
  BY DEF FleetTypeOK
<1>3. age' \in [Collectors -> 0 .. MaxAge] /\ streak' \in [Collectors -> 0 .. MaxStreak]
  BY <1>1, <1>2 DEF Tick, Cap
<1> QED BY <1>3 DEF FleetTypeOK, Tick

\* Whatever an operator does keeps the types.
LEMMA OperateTypes == FleetTypeOK /\ Operate => FleetTypeOK'
<1> SUFFICES ASSUME FleetTypeOK, Operate PROVE FleetTypeOK'
  OBVIOUS
<1> USE DEF FleetTypeOK
<1>0. \A c \in Collectors : Unpinned(c) \in [Endpoints -> Collectors \cup {None}]
  BY DEF Unpinned
<1>s. \A c \in Collectors, s \in States : \A actor :
        SetState(c, s, actor) => state' \in [Collectors -> States]
  BY DEF SetState
<1>1. ASSUME NEW c \in Collectors, NEW force \in BOOLEAN, NEW release \in BOOLEAN,
             Drain(c, force, release)
      PROVE  FleetTypeOK'
  <2>1. pins' \in [Endpoints -> Collectors \cup {None}]
    BY <1>0, <1>1 DEF Drain
  <2>2. state' \in [Collectors -> States]
    BY <1>s, <1>1 DEF Drain, States
  <2>3. Assign(pins')
    BY <1>1 DEF Drain
  <2>4. /\ DOMAIN record' \subseteq Endpoints
        /\ \A e \in DOMAIN record' : record'[e] \in Collectors \cup {None}
    BY <2>1, <2>3, AssignKeepsType
  <2> QED BY <1>1, <2>1, <2>2, <2>4 DEF Drain
<1>2. ASSUME NEW c \in Collectors, Undrain(c) PROVE FleetTypeOK'
  <2>1. state' \in [Collectors -> States]
    BY <1>s, <1>2 DEF Undrain, States
  <2>2. Assign(pins)
    BY <1>2 DEF Undrain
  <2>3. /\ DOMAIN record' \subseteq Endpoints
        /\ \A e \in DOMAIN record' : record'[e] \in Collectors \cup {None}
    BY <2>2, AssignKeepsType
  <2> QED BY <1>2, <2>1, <2>3 DEF Undrain
<1>3. ASSUME NEW c \in Collectors, NEW p \in Pools \cup {None}, PatchPool(c, p)
      PROVE  FleetTypeOK'
  BY <1>3 DEF PatchPool
<1>4. ASSUME NEW c \in Collectors, NEW s \in {"active", "draining"}, PatchState(c, s)
      PROVE  FleetTypeOK'
  <2>1. state' \in [Collectors -> States]
    BY <1>s, <1>4 DEF PatchState, States
  <2> QED BY <1>4, <2>1 DEF PatchState
<1>5. ASSUME NEW c \in Collectors, Decommission(c) PROVE FleetTypeOK'
  <2>1. state' \in [Collectors -> States]
    BY <1>s, <1>5 DEF Decommission, States
  <2> QED BY <1>0, <1>5, <2>1 DEF Decommission
<1>6. ASSUME NEW e \in Endpoints, NEW c \in Collectors \cup {None}, Pin(e, c)
      PROVE  FleetTypeOK'
  BY <1>6 DEF Pin, rowVars
<1>7. ASSUME NEW p \in Pools, Freeze(p) PROVE FleetTypeOK'
  BY <1>7 DEF Freeze, rowVars
<1>8. ASSUME NEW p \in Pools, RebalanceNow(p) PROVE FleetTypeOK'
  <2>1. record' = Compute(FleetOf(state), pins, record, frozen, p)
    BY <1>8 DEF RebalanceNow, LiveCollectors
  <2>2. /\ DOMAIN record' \subseteq Endpoints
        /\ \A e \in DOMAIN record' : record'[e] \in Collectors \cup {None}
    BY <2>1, RecordKeepsType
  <2> QED BY <1>8, <2>2 DEF RebalanceNow, rowVars
<1> QED BY <1>1, <1>2, <1>3, <1>4, <1>5, <1>6, <1>7, <1>8 DEF Operate

\* The types are kept by every step.
LEMMA FleetTypes == FleetTypeOK /\ [FleetNext]_fleetVars => FleetTypeOK'
<1> SUFFICES ASSUME FleetTypeOK, [FleetNext]_fleetVars PROVE FleetTypeOK'
  OBVIOUS
<1>1. ASSUME NEW c \in Collectors,
             Register(c) \/ Heartbeat(c) \/ Silent(c) \/ Return(c)
      PROVE  FleetTypeOK'
  BY <1>1, CollectorStepTypes
<1>2. CASE Tick
  BY <1>2, TickTypes
<1>3. CASE AssignerRun
  <2>1. record' = Compute(FleetOf(state), pins, record, frozen, None)
    BY <1>3 DEF AssignerRun, LiveCollectors
  <2>2. /\ DOMAIN record' \subseteq Endpoints
        /\ \A e \in DOMAIN record' : record'[e] \in Collectors \cup {None}
    BY <2>1, RecordKeepsType DEF FleetTypeOK
  <2> QED BY <1>3, <2>2 DEF AssignerRun, rowVars, FleetTypeOK
<1>4. CASE Operate
  BY <1>4, OperateTypes
<1>5. CASE UNCHANGED fleetVars
  BY <1>5 DEF fleetVars, rowVars, FleetTypeOK
<1> QED BY <1>1, <1>2, <1>3, <1>4, <1>5 DEF FleetNext

\* The fleet's rows, pins and record keep their types whatever the number of
\* collectors and operator actions.
THEOREM FleetTypeCorrect == FleetSpec => []FleetTypeOK
<1>1. FleetInit => FleetTypeOK
  BY FleetInitially
<1>2. FleetTypeOK /\ [FleetNext]_fleetVars => FleetTypeOK'
  BY FleetTypes
<1> QED BY <1>1, <1>2, PTL DEF FleetSpec

\* In every state of the fleet, unpinned work is served only by an active
\* collector that has run, in the endpoint's own placement.
THEOREM ServedInPlaceAlways == FleetSpec => []ServedInPlace
<1>1. ServedInPlace
  BY PolicyServesInPlace
<1> QED BY <1>1, PTL

\* In every state of the fleet the HA policy leaves a pool with a fresh
\* accepting member an accepting member.
THEOREM PolicyKeepsAMemberAlways == FleetSpec => []PolicyKeepsAMember
<1>1. FleetTypeOK => PolicyKeepsAMember
  BY PolicyNeverEmptiesAPool
<1> QED BY <1>1, FleetTypeCorrect, PTL

---------------------------------------------------------------------------
(* Nobody who has just come back is given work.                            *)

\* What a pass of the assigner gives to someone else, unpinned and in an HA
\* pool, it gives to an accepting member of that pool which the policy has not
\* held out.
LEMMA ComputeSnatchesNothing ==
    ASSUME NEW st, NEW p, NEW force, NEW w, w = Compute(FleetOf(st), p, record, frozen, force),
           FleetTypeOK, NEW e \in DOMAIN record,
           w[e] # None, w[e] # record[e], p[e] = None, EndpointPool[e] \in HAPools \ frozen
    PROVE  \/ streak[w[e]] >= FailbackAfter
           \/ \A d \in Collectors \ {w[e]} :
                 ~ /\ pool[d] = pool[w[e]] /\ st[d] = "active" /\ ran[d]
                   /\ age[d] <= FailoverAfter /\ streak[d] >= FailbackAfter
<1> DEFINE raw == FleetOf(st)
           f == ApplyHAPolicy(raw, frozen)
           c == w[e]
<1>1. /\ DOMAIN raw = {d \in Collectors : st[d] \in {"active", "draining"}}
      /\ \A d \in DOMAIN raw : /\ raw[d].pool = pool[d] /\ raw[d].age = age[d]
                               /\ raw[d].streak = streak[d]
                               /\ raw[d].accepting <=> st[d] = "active" /\ ran[d]
  <2>1. /\ DOMAIN raw = {d \in Collectors : st[d] \in {"active", "draining"}}
        /\ \A d \in DOMAIN raw :
             raw[d] = [pool |-> pool[d], accepting |-> st[d] = "active" /\ ran[d],
                       age |-> age[d], streak |-> streak[d]]
    BY FleetFacts
  <2> HIDE DEF raw, f, c
  <2>2. ASSUME NEW d \in DOMAIN raw
        PROVE  /\ raw[d].pool = pool[d] /\ raw[d].age = age[d] /\ raw[d].streak = streak[d]
               /\ raw[d].accepting <=> st[d] = "active" /\ ran[d]
    <3>1. PICK ok \in BOOLEAN : ok <=> st[d] = "active" /\ ran[d]
      OBVIOUS
    <3>2. raw[d] = [pool |-> pool[d], accepting |-> ok, age |-> age[d], streak |-> streak[d]]
      BY <2>1, <3>1
    <3> QED BY <3>1, <3>2
  <2> QED BY <2>1, <2>2
<1> HIDE DEF raw
<1>2. /\ DOMAIN f = DOMAIN raw
      /\ \A d \in DOMAIN raw : f[d] = [raw[d] EXCEPT !.accepting = @ /\ ~ HeldOut(d, raw, frozen)]
  BY DEF ApplyHAPolicy
<1>3. \A d \in DOMAIN raw : /\ f[d].pool = pool[d]
                            /\ f[d].accepting => raw[d].accepting /\ ~ HeldOut(d, raw, frozen)
  <2> SUFFICES ASSUME NEW d \in DOMAIN raw
               PROVE  /\ f[d].pool = pool[d]
                      /\ f[d].accepting => raw[d].accepting /\ ~ HeldOut(d, raw, frozen)
    OBVIOUS
  <2>1. PICK ok : ok = (raw[d].accepting /\ ~ HeldOut(d, raw, frozen))
    OBVIOUS
  <2>2. raw[d] = [pool |-> pool[d], accepting |-> st[d] = "active" /\ ran[d],
                  age |-> age[d], streak |-> streak[d]]
    BY <1>1, FleetFacts DEF raw
  <2>3. f[d] = [raw[d] EXCEPT !.accepting = ok]
    BY <1>2, <2>1
  <2> HIDE DEF f
  <2>4. f[d].accepting = ok /\ f[d].pool = raw[d].pool
    BY <2>2, <2>3
  <2> QED BY <1>1, <2>1, <2>4
<1>4. e \in Endpoints /\ c # record[e] /\ c # None
  BY DEF FleetTypeOK
<1>5. c = Owner(e, f)
  <2>1. DOMAIN raw # {}
    BY DEF Compute, raw
  <2>2. c = IF force # None /\ EndpointPool[e] = force THEN Plan(e, f, p)
            ELSE Rebalance(e, record, f, p)
    BY <1>4, <2>1 DEF Compute, raw
  <2>3. Plan(e, f, p) = Owner(e, f)
    BY DEF Plan
  <2> HIDE DEF f, c
  <2> QED BY <1>4, <2>2, <2>3 DEF Rebalance
<1>6. c \in DOMAIN raw /\ f[c].accepting /\ Serves(c, f[c], e)
  <2>1. DOMAIN f \subseteq Collectors
    BY <1>1, <1>2
  <2> HIDE DEF f, c
  <2>2. c \in Eligible(e, f)
    BY <1>4, <1>5, <2>1, OwnerIsEligible
  <2> QED BY <1>2, <2>2 DEF Eligible
<1>7. pool[c] = EndpointPool[e]
  <2>1. EndpointPool[e] # None
    BY ShardingAssumption
  <2> QED BY <1>3, <1>6, <2>1 DEF Serves
<1>8. ~ HeldOut(c, raw, frozen) /\ raw[c].accepting
  BY <1>3, <1>6
<1> HIDE DEF f, c
<1>9. \/ ~ streak[c] < FailbackAfter
      \/ \A d \in DOMAIN raw \ {c} : ~ (pool[d] = pool[c] /\ LongHealthy(raw[d]))
  BY <1>1, <1>6, <1>7, <1>8 DEF HeldOut
<1>10. ASSUME NEW d \in Collectors, st[d] = "active", ran[d], age[d] <= FailoverAfter,
              streak[d] >= FailbackAfter
       PROVE  d \in DOMAIN raw /\ LongHealthy(raw[d])
  BY <1>1, <1>10 DEF LongHealthy
<1>11. streak[c] \in Int /\ FailbackAfter \in Int
  <2>1. c \in Collectors
    BY <1>1, <1>6
  <2>2. streak \in [Collectors -> 0 .. FailbackAfter] /\ FailbackAfter \in Nat
    BY ShardingAssumption DEF FleetTypeOK, MaxStreak
  <2> QED BY <2>1, <2>2
<1> QED BY <1>9, <1>10, <1>11 DEF c

\* A step that gives no work to a member that has just come back: what
\* NoSnatchBack says of every step.
SnatchesNothing ==
    \A e \in DOMAIN record :
        LET c == record'[e]
        IN  /\ c # None /\ c # record[e] /\ pins'[e] = None
            /\ EndpointPool[e] \in HAPools \ frozen
            =>  \/ streak[c] >= FailbackAfter
                \/ \A d \in Collectors \ {c} :
                      ~ /\ pool[d] = pool[c] /\ state'[d] = "active" /\ ran[d]
                        /\ age[d] <= FailoverAfter /\ streak[d] >= FailbackAfter

\* Only the assigner writes the record, of the fleet as the step leaves it.
LEMMA AssignedSteps ==
    ASSUME FleetTypeOK,
           \/ record' = record
           \/ \E force : record' = Compute(FleetOf(state'), pins', record, frozen, force)
    PROVE  SnatchesNothing
<1>1. CASE record' = record
  BY <1>1 DEF SnatchesNothing
<1>2. ASSUME NEW force, record' = Compute(FleetOf(state'), pins', record, frozen, force)
      PROVE  SnatchesNothing
  <2> SUFFICES ASSUME NEW e \in DOMAIN record, record'[e] # None, record'[e] # record[e],
                      pins'[e] = None, EndpointPool[e] \in HAPools \ frozen
               PROVE  \/ streak[record'[e]] >= FailbackAfter
                      \/ \A d \in Collectors \ {record'[e]} :
                            ~ /\ pool[d] = pool[record'[e]] /\ state'[d] = "active" /\ ran[d]
                              /\ age[d] <= FailoverAfter /\ streak[d] >= FailbackAfter
    BY DEF SnatchesNothing
  <2>1. PICK w, st, p : w = record' /\ st = state' /\ p = pins'
    OBVIOUS
  <2>2. w = Compute(FleetOf(st), p, record, frozen, force)
    BY <1>2, <2>1
  <2>3. w[e] # None /\ w[e] # record[e] /\ p[e] = None
    BY <2>1
  <2>4. \/ streak[w[e]] >= FailbackAfter
        \/ \A d \in Collectors \ {w[e]} :
              ~ /\ pool[d] = pool[w[e]] /\ st[d] = "active" /\ ran[d]
                /\ age[d] <= FailoverAfter /\ streak[d] >= FailbackAfter
    BY <2>2, <2>3, ComputeSnatchesNothing
  <2> QED BY <2>1, <2>4
<1> QED BY <1>1, <1>2

LEMMA FleetAssigns ==
    ASSUME FleetNext
    PROVE  \/ record' = record
           \/ \E force : record' = Compute(FleetOf(state'), pins', record, frozen, force)
<1>1. ASSUME NEW c \in Collectors, Register(c) \/ Heartbeat(c) \/ Silent(c) \/ Return(c)
      PROVE  record' = record
  BY <1>1 DEF Register, Heartbeat, Silent, Return
<1>2. CASE Tick
  BY <1>2 DEF Tick
<1>3. CASE AssignerRun
  BY <1>3 DEF AssignerRun, LiveCollectors, FleetOf, rowVars
<1>4. ASSUME NEW q, RebalanceNow(q)
      PROVE  record' = Compute(FleetOf(state'), pins', record, frozen, q)
  BY <1>4 DEF RebalanceNow, LiveCollectors, FleetOf, rowVars
<1>5. ASSUME NEW c, NEW force, NEW release, Drain(c, force, release)
      PROVE  \/ record' = record
             \/ record' = Compute(FleetOf(state'), pins', record, frozen, None)
  BY <1>5 DEF Drain, Assign
<1>6. ASSUME NEW c, Undrain(c)
      PROVE  \/ record' = record
             \/ record' = Compute(FleetOf(state'), pins', record, frozen, None)
  BY <1>6 DEF Undrain, Assign
<1>7. CASE Operate
  <2>1. \/ UNCHANGED record \/ \E q : RebalanceNow(q)
        \/ \E c, force, release : Drain(c, force, release) \/ Undrain(c)
    BY <1>7 DEF Operate, PatchPool, PatchState, Decommission, Pin, Freeze
  <2> QED BY <1>4, <1>5, <1>6, <2>1
<1> QED BY <1>1, <1>2, <1>3, <1>7 DEF FleetNext

\* Whoever writes the record - the assigner, a drain or its end, "rebalance now" -
\* a member of an HA pool that has just come back is given nothing new while a
\* long-healthy member serves, in every fleet.
THEOREM NoSnatchBackAlways == FleetSpec => NoSnatchBack
<1>1. ASSUME FleetTypeOK, [FleetNext]_fleetVars PROVE [SnatchesNothing]_fleetVars
  BY <1>1, FleetAssigns, AssignedSteps
<1>2. FleetSpec => [][SnatchesNothing]_fleetVars
  BY <1>1, FleetTypeCorrect, PTL DEF FleetSpec
<1> QED BY <1>2 DEF NoSnatchBack, SnatchesNothing

---------------------------------------------------------------------------
(* Rollouts: types.                                                        *)

\* A new build on trial belongs to a command its collector works on.
Working ==
    /\ verifying \in [Collectors -> BOOLEAN]
    /\ \A c \in Collectors : verifying[c] => job[c] # None

RolloutInv == FleetTypeOK /\ RolloutTypeOK /\ Working

Actors == Rollouts \cup {Operator, "rollout"}

\* Operators sign with their own name.
LEMMA OperatorsSign ==
    ASSUME RolloutInv, Operate
    PROVE  by' \in [Collectors -> Actors]
<1>0. by \in [Collectors -> Actors]
  BY DEF RolloutInv, RolloutTypeOK, Actors
<1>1. ASSUME NEW c \in Collectors, NEW s, SetState(c, s, Operator)
      PROVE  by' \in [Collectors -> Actors]
  BY <1>0, <1>1 DEF SetState, Actors
<1>2. CASE UNCHANGED by
  BY <1>0, <1>2
<1>3. UNCHANGED by \/ \E c \in Collectors : \E s : SetState(c, s, Operator)
  BY DEF Operate, Drain, Undrain, PatchPool, PatchState, Decommission, Pin, Freeze,
         RebalanceNow, rowVars
<1> QED BY <1>1, <1>2, <1>3

\* The age of a state stays within its cap.
LEMMA AgedTypes ==
    ASSUME RolloutInv, NEW dt \in {0, 1}, Aged(dt)
    PROVE  stateAge' \in [Collectors -> 0 .. MaxStateAge]
<1>1. MaxStateAge \in Nat
  BY RolloutAssumption DEF MaxStateAge
<1>2. \A c \in Collectors : stateAge[c] \in 0 .. MaxStateAge
  BY DEF RolloutInv, RolloutTypeOK
<1>3. \A c \in Collectors : Cap(stateAge[c] + dt, MaxStateAge) \in 0 .. MaxStateAge
  BY <1>1, <1>2 DEF Cap
<1>4. 0 \in 0 .. MaxStateAge
  BY <1>1
<1> HIDE DEF MaxStateAge
<1> QED BY <1>3, <1>4 DEF Aged

\* A command's state is written by its collector's claim ...
LEMMA SetCmdTypes ==
    ASSUME RolloutInv, NEW r \in Rollouts, NEW c \in Collectors, NEW s \in CmdStates,
           SetCmd(r, c, s)
    PROVE  cmd' \in [Rollouts -> [Collectors -> CmdStates]]
BY DEF RolloutInv, RolloutTypeOK, SetCmd

\* ... and its report.
LEMMA ReportTypes ==
    ASSUME RolloutInv, NEW r \in Rollouts, NEW c \in Collectors,
           NEW s \in {"succeeded", "failed"}, Report(r, c, s)
    PROVE  cmd' \in [Rollouts -> [Collectors -> CmdStates]]
<1>1. CASE SetCmd(r, c, s)
  BY <1>1, SetCmdTypes DEF CmdStates
<1>2. CASE UNCHANGED cmd
  BY <1>2 DEF RolloutInv, RolloutTypeOK
<1> QED BY <1>1, <1>2 DEF Report

\* A tick commits well-typed rows, commands and rollouts.
LEMMA TickCommitTypes ==
    ASSUME RolloutInv, TickCommit
    PROVE  /\ state' \in [Collectors -> States] /\ by' \in [Collectors -> Actors]
           /\ rstate' \in [Rollouts -> {"none", "running"} \cup Ended]
           /\ cmd' \in [Rollouts -> [Collectors -> CmdStates]]
           /\ DOMAIN record' \subseteq Endpoints
           /\ \A e \in DOMAIN record' : record'[e] \in Collectors \cup {None}
<1> DEFINE drained(c)  == {r \in Rollouts : c \in Chosen(r, "drain")}
           restored(c) == {r \in Rollouts : c \in Chosen(r, "restore")}
           st == [c \in Collectors |-> IF drained(c) # {} THEN "draining"
                                       ELSE IF restored(c) # {} THEN "active" ELSE state[c]]
           bb == [c \in Collectors |->
                    IF drained(c) \cup restored(c) = {} THEN by[c]
                    ELSE CHOOSE r \in drained(c) \cup restored(c) : TRUE]
           orphan(c) == c \in Orphans(st, bb)
<1>1. /\ rstate' = [r \in Rollouts |-> NewRState(r)]
      /\ cmd' = [r \in Rollouts |-> [c \in Collectors |->
                   IF c \in Chosen(r, "upgrade") THEN "pending" ELSE Expired(r)[c]]]
      /\ state' = [c \in Collectors |-> IF orphan(c) THEN "active" ELSE st[c]]
      /\ by' = [c \in Collectors |-> IF orphan(c) THEN "rollout" ELSE bb[c]]
      /\ IF by' # by \/ state' # state THEN Assign(pins) ELSE UNCHANGED record
  BY DEF TickCommit
<1>2. \A c \in Collectors : state[c] \in States /\ by[c] \in Actors
  BY DEF RolloutInv, FleetTypeOK, RolloutTypeOK, Actors
<1>3. \A c \in Collectors : st[c] \in States
  BY <1>2 DEF States
<1>4. \A c \in Collectors : bb[c] \in Actors
  <2> SUFFICES ASSUME NEW c \in Collectors PROVE bb[c] \in Actors
    OBVIOUS
  <2>1. drained(c) \cup restored(c) \subseteq Rollouts
    OBVIOUS
  <2> HIDE DEF drained, restored
  <2> QED BY <2>1, <1>2 DEF Actors
<1> HIDE DEF st, bb, orphan
<1>5. state' \in [Collectors -> States]
  BY <1>1, <1>3 DEF States
<1>6. by' \in [Collectors -> Actors]
  BY <1>1, <1>4 DEF Actors
<1>7. rstate' \in [Rollouts -> {"none", "running"} \cup Ended]
  BY <1>1 DEF NewRState, Ended, RolloutInv, RolloutTypeOK
<1>8. \A r \in Rollouts, c \in Collectors : Expired(r)[c] \in CmdStates
  BY DEF Expired, CmdStates, RolloutInv, RolloutTypeOK
<1>9. cmd' \in [Rollouts -> [Collectors -> CmdStates]]
  BY <1>1, <1>8 DEF CmdStates
<1>10. /\ DOMAIN record' \subseteq Endpoints
       /\ \A e \in DOMAIN record' : record'[e] \in Collectors \cup {None}
  <2>1. CASE Assign(pins)
    BY <2>1, AssignKeepsType DEF RolloutInv, FleetTypeOK
  <2>2. CASE record' = record
    BY <2>2 DEF RolloutInv, FleetTypeOK
  <2> QED BY <1>1, <2>1, <2>2
<1> QED BY <1>5, <1>6, <1>7, <1>9, <1>10

\* Every step keeps the types.
LEMMA RolloutTypes == RolloutInv /\ [Next]_vars => RolloutInv'
<1> SUFFICES ASSUME RolloutInv, [Next]_vars PROVE RolloutInv'
  OBVIOUS
<1>t. FleetTypeOK /\ RolloutTypeOK /\ Working
  BY DEF RolloutInv
<1>u. ASSUME UNCHANGED <<job, verifying>> PROVE Working'
  BY <1>t, <1>u DEF Working
<1>1. CASE TimePasses /\ Aged(1)
  <2>1. FleetTypeOK'
    BY <1>t, <1>1, TickTypes DEF TimePasses
  <2>2. stateAge' \in [Collectors -> 0 .. MaxStateAge]
    BY <1>1, AgedTypes
  <2> QED BY <1>t, <1>u, <1>1, <2>1, <2>2
      DEF RolloutInv, RolloutTypeOK, TimePasses, Tick, MaxStateAge
<1>2. ASSUME NEW c \in Collectors, HeartbeatWithVersion(c), Aged(0) PROVE RolloutInv'
  <2>1. FleetTypeOK'
    BY <1>t, <1>2, CollectorStepTypes DEF HeartbeatWithVersion
  <2>2. stateAge' \in [Collectors -> 0 .. MaxStateAge]
    BY <1>2, AgedTypes
  <2> QED BY <1>t, <1>u, <1>2, <2>1, <2>2
      DEF RolloutInv, RolloutTypeOK, HeartbeatWithVersion, Heartbeat, upgradeVars,
          MaxStateAge
<1>3. CASE FleetStep /\ Aged(0)
  <2>1. FleetTypeOK'
    BY <1>t, <1>3, FleetTypes DEF FleetStep, FleetNext
  <2>2. stateAge' \in [Collectors -> 0 .. MaxStateAge]
    BY <1>3, AgedTypes
  <2>3. by' \in [Collectors -> Actors]
    <3>1. CASE Operate
      BY <3>1, OperatorsSign
    <3>2. CASE AssignerRun \/ \E c \in Collectors : Silent(c) \/ Return(c)
      BY <1>t, <3>2 DEF AssignerRun, Silent, Return, rowVars, RolloutTypeOK, Actors
    <3> QED BY <1>3, <3>1, <3>2 DEF FleetStep
  <2> QED BY <1>t, <1>u, <1>3, <2>1, <2>2, <2>3
      DEF RolloutInv, RolloutTypeOK, FleetStep, rolloutVars, upgradeVars, Actors,
          MaxStateAge
<1>4. ASSUME RolloutStep, Aged(0) PROVE RolloutInv'
  <2>0. stateAge' \in [Collectors -> 0 .. MaxStateAge]
    BY <1>4, AgedTypes
  <2>f. ASSUME UNCHANGED fleetVars PROVE FleetTypeOK' /\ UNCHANGED by
    BY <1>t, <2>f, FleetTypes DEF fleetVars, rowVars
  <2> USE DEF RolloutTypeOK, MaxStateAge
  <2>1. CASE TickBegin
    <3>1. listed' \in SUBSET Rollouts
      BY <2>1 DEF TickBegin
    <3> QED BY <1>t, <1>u, <2>0, <2>1, <2>f, <3>1 DEF TickBegin, upgradeVars, RolloutInv
  <2>2. CASE TickCommit
    <3>1. FleetTypeOK'
      BY <1>t, <2>2, TickCommitTypes DEF TickCommit, FleetTypeOK
    <3>2. /\ by' \in [Collectors -> Actors]
          /\ rstate' \in [Rollouts -> {"none", "running"} \cup Ended]
          /\ cmd' \in [Rollouts -> [Collectors -> CmdStates]]
      BY <2>2, TickCommitTypes
    <3>3. listed' = None /\ UNCHANGED <<job, verifying>>
      BY <2>2 DEF TickCommit
    <3> QED BY <1>t, <1>u, <2>0, <3>1, <3>2, <3>3 DEF RolloutInv, Actors
  <2>3. ASSUME NEW r \in Rollouts, StartRollout(r) \/ CancelRollout(r) PROVE RolloutInv'
    BY <1>t, <1>u, <2>0, <2>3, <2>f DEF StartRollout, CancelRollout, upgradeVars,
                                        RolloutInv, Ended
  <2>4. ASSUME NEW r \in Rollouts, NEW c \in Collectors, Claim(r, c) PROVE RolloutInv'
    <3>1. cmd' \in [Rollouts -> [Collectors -> CmdStates]]
      BY <2>4, SetCmdTypes DEF Claim, CmdStates
    <3>2. job' \in [Collectors -> Rollouts \cup {None}]
      BY <1>t, <2>4 DEF Claim
    <3>3. Working'
      BY <1>t, <2>4 DEF Claim, Working
    <3> QED BY <1>t, <2>0, <2>4, <2>f, <3>1, <3>2, <3>3 DEF Claim, RolloutInv
  <2>5. ASSUME NEW c \in Collectors, RefuseUpgrade(c) PROVE RolloutInv'
    <3>1. job[c] \in Rollouts
      BY <1>t, <2>5 DEF RefuseUpgrade
    <3>2. cmd' \in [Rollouts -> [Collectors -> CmdStates]]
      BY <2>5, <3>1, ReportTypes DEF RefuseUpgrade
    <3>3. job' \in [Collectors -> Rollouts \cup {None}]
      BY <1>t, <2>5 DEF RefuseUpgrade
    <3>4. Working'
      BY <1>t, <2>5 DEF RefuseUpgrade, Working
    <3> QED BY <1>t, <2>0, <2>5, <2>f, <3>2, <3>3, <3>4 DEF RefuseUpgrade, RolloutInv
  <2>6. ASSUME NEW c \in Collectors, SwapBinary(c) PROVE RolloutInv'
    <3>1. up' \in [Collectors -> BOOLEAN]
      BY <1>t, <2>6 DEF SwapBinary, FleetTypeOK
    <3>2. FleetTypeOK'
      BY <1>t, <2>6, <3>1 DEF SwapBinary, FleetTypeOK, rowVars
    <3>3. Working'
      BY <1>t, <2>6 DEF SwapBinary, Working
    <3> QED BY <1>t, <2>0, <2>6, <3>2, <3>3 DEF SwapBinary, RolloutInv, rowVars
  <2>7. ASSUME NEW c \in Collectors, Confirm(c) PROVE RolloutInv'
    <3>1. job[c] \in Rollouts
      BY <1>t, <2>7 DEF Confirm, Working
    <3>2. cmd' \in [Rollouts -> [Collectors -> CmdStates]]
      BY <2>7, <3>1, ReportTypes DEF Confirm
    <3>3. job' \in [Collectors -> Rollouts \cup {None}]
      BY <1>t, <2>7 DEF Confirm
    <3>4. Working'
      BY <1>t, <2>7 DEF Confirm, Working
    <3> QED BY <1>t, <2>0, <2>7, <2>f, <3>2, <3>3, <3>4 DEF Confirm, RolloutInv
  <2>8. ASSUME NEW c \in Collectors, RollBack(c) PROVE RolloutInv'
    <3>1. job[c] \in Rollouts
      BY <1>t, <2>8 DEF RollBack, Working
    <3>2. cmd' \in [Rollouts -> [Collectors -> CmdStates]]
      BY <2>8, <3>1, ReportTypes DEF RollBack
    <3>3. job' \in [Collectors -> Rollouts \cup {None}]
      BY <1>t, <2>8 DEF RollBack
    <3>4. Working'
      BY <1>t, <2>8 DEF RollBack, Working
    <3>5. up' \in [Collectors -> BOOLEAN]
      BY <1>t, <2>8 DEF RollBack, FleetTypeOK
    <3>6. FleetTypeOK'
      BY <1>t, <2>8, <3>5 DEF RollBack, FleetTypeOK, rowVars
    <3> QED BY <1>t, <2>0, <2>8, <3>2, <3>3, <3>4, <3>6 DEF RollBack, RolloutInv, rowVars
  <2> QED BY <1>4, <2>1, <2>2, <2>3, <2>4, <2>5, <2>6, <2>7, <2>8 DEF RolloutStep
<1>5. CASE UNCHANGED vars
  <2>1. FleetTypeOK'
    BY <1>t, <1>5, FleetTypes DEF vars
  <2> QED BY <1>t, <1>u, <1>5, <2>1
      DEF vars, fleetVars, rowVars, rolloutVars, upgradeVars, RolloutInv, RolloutTypeOK,
          MaxStateAge
<1> QED BY <1>1, <1>2, <1>3, <1>4, <1>5 DEF Next

LEMMA RolloutInitially == Init => RolloutInv
<1> SUFFICES ASSUME Init PROVE RolloutInv
  OBVIOUS
<1>1. FleetTypeOK
  BY FleetInitially DEF Init
<1>2. by \in [Collectors -> Actors]
  BY DEF Init, FleetInit, Actors
<1>3. MaxStateAge \in 0 .. MaxStateAge
  BY RolloutAssumption DEF MaxStateAge
<1>4. stateAge \in [Collectors -> 0 .. MaxStateAge]
  BY <1>3 DEF Init
<1>5. /\ cmd \in [Rollouts -> [Collectors -> CmdStates]]
      /\ rstate \in [Rollouts -> {"none", "running"} \cup Ended]
      /\ job \in [Collectors -> Rollouts \cup {None}] /\ listed = None
  BY DEF Init, CmdStates
<1>6. Working
  BY DEF Init, Working
<1> QED BY <1>1, <1>2, <1>4, <1>5, <1>6 DEF RolloutInv, RolloutTypeOK, Actors

\* The rows of the fleet, the rollouts and their commands keep their types, and
\* a collector tries a new build only for a command, however many rollouts run
\* and whatever becomes of them.
THEOREM RolloutTypeCorrect == Spec => []RolloutInv
<1>1. Init => RolloutInv
  BY RolloutInitially
<1>2. RolloutInv /\ [Next]_vars => RolloutInv'
  BY RolloutTypes
<1> QED BY <1>1, <1>2, PTL DEF Spec

\* While rollouts drain and restore members, unpinned work is still served in
\* its place and no pool is emptied by the policy.
THEOREM RolloutsKeepThePolicy == Spec => [](ServedInPlace /\ PolicyKeepsAMember)
<1>1. RolloutInv => ServedInPlace /\ PolicyKeepsAMember
  BY PolicyServesInPlace, PolicyNeverEmptiesAPool DEF RolloutInv
<1> QED BY <1>1, RolloutTypeCorrect, PTL

---------------------------------------------------------------------------
(* Rollouts: whom a rollout commands.                                      *)

\* Among collector ids there is a first one.
LEMMA FirstOf ==
    ASSUME NEW S \in SUBSET Collectors, S # {}
    PROVE  Min(S) \in S
<1>1. S \subseteq Nat
  BY ShardingAssumption
<1>2. PICK x \in S : \A y \in S : ~ (<<y, x>> \in OpToRel(<, Nat))
  BY <1>1, NatLessThanWellFounded, WFMin
<1>3. \A y \in S : ~ (y < x)
  BY <1>1, <1>2 DEF OpToRel
<1>4. \A y \in S : x <= y
  BY <1>1, <1>3
<1> QED BY <1>4 DEF Min

\* Nothing is polled through c, and its active partners in its pool are healthy.
Covered(c) ==
    \A d \in Collectors \ {c} :
        pool[d] = pool[c] /\ state[d] = "active" =>
            Healthy(d) /\ \A e \in Endpoints : Served(e) # c

\* A collector that owns nothing is not polled through.
LEMMA OwnsNothing ==
    ASSUME NEW c, ~ (Owned(c) > 0)
    PROVE  \A e \in Endpoints : Served(e) # c
<1> DEFINE S == {e \in Endpoints : Served(e) = c}
<1>1. IsFiniteSet(S)
  BY RolloutAssumption, FS_Subset
<1>2. Cardinality(S) \in Nat /\ ~ (Cardinality(S) > 0)
  BY <1>1, FS_CardinalityType DEF Owned
<1>3. S = {}
  <2>1. Cardinality(S) = 0
    BY <1>2
  <2> QED BY <1>1, <2>1, FS_EmptySet
<1> QED BY <1>3

\* What decide commands in a pool is a covered member of it.
LEMMA DecideCovers ==
    ASSUME NEW r \in Rollouts, NEW p, NEW cs, DecidePool(r, p, cs).act = "upgrade"
    PROVE  Covered(DecidePool(r, p, cs).who)
<1> DEFINE mine == Mine(r, p)
           finished == {c \in mine : cs[c] = "succeeded"}
           ours     == {c \in mine : state[c] = "draining"}
           m == Min(ours)
           partners == mine \ {m}
           remaining == {c \in mine : version[c] # TargetOf[r]}
           candidate == Min(remaining)
           others    == mine \ {candidate}
<1>0. /\ Wait.act # "upgrade"
      /\ \A c : /\ Do("restore", c).act # "upgrade" /\ Do("drain", c).act # "upgrade"
                /\ Do("done", c).act # "upgrade"
                /\ Do("upgrade", c).act = "upgrade" /\ Do("upgrade", c).who = c
  BY DEF Wait, Do
<1>1. \A d \in Collectors : pool[d] = p /\ state[d] = "active" => d \in mine
  BY DEF Mine
<1>2. \A d \in mine : d \in Collectors /\ pool[d] = p
  BY DEF Mine
<1> DEFINE D == DecidePool(r, p, cs)
<1>3. \/ ours # {} /\ D = DecideDrained(r, p, m)
      \/ D = DecideNext(r, p)
  BY <1>0 DEF DecidePool
<1>4. CASE ours # {} /\ D = DecideDrained(r, p, m)
  <2>1. m \in ours
    BY <1>2, <1>4, FirstOf
  <2>2. /\ D = Do("upgrade", m) /\ ~ (Owned(m) > 0)
        /\ \A c \in partners : Healthy(c)
    BY <1>0, <1>4 DEF DecideDrained
  <2>3. \A e \in Endpoints : Served(e) # m
    BY <2>2, OwnsNothing
  <2>4. D.who = m /\ pool[m] = p
    BY <1>0, <1>2, <2>1, <2>2
  <2>5. Covered(m)
    <3>1. \A d \in Collectors \ {m} : pool[d] = p /\ state[d] = "active" => d \in partners
      BY <1>1
    <3> HIDE DEF m, partners
    <3> QED BY <2>2, <2>3, <2>4, <3>1 DEF Covered
  <2> QED BY <2>4, <2>5
<1>5. CASE D = DecideNext(r, p)
  <2>1. /\ remaining # {} /\ others = {} /\ D = Do("upgrade", candidate)
    BY <1>0, <1>5 DEF DecideNext
  <2>2. candidate \in remaining
    BY <1>2, <2>1, FirstOf
  <2>3. D.who = candidate /\ pool[candidate] = p
    BY <1>0, <1>2, <2>1, <2>2
  <2>4. \A d \in mine : d = candidate
    BY <2>1
  <2>5. Covered(candidate)
    <3>1. \A d \in Collectors \ {candidate} : ~ (pool[d] = p /\ state[d] = "active")
      BY <1>1, <2>4
    <3> HIDE DEF candidate
    <3> QED BY <2>3, <3>1 DEF Covered
  <2> QED BY <2>3, <2>5
<1> QED BY <1>3, <1>4, <1>5

\* Only the tick of a rollout creates a command, for a member it chose to upgrade.
LEMMA OnlyTicksCommand ==
    ASSUME RolloutInv, [Next]_vars, NEW r \in Rollouts, NEW c \in Collectors,
           cmd[r][c] # "pending", cmd'[r][c] = "pending"
    PROVE  TickCommit /\ c \in Chosen(r, "upgrade")
<1>0. cmd \in [Rollouts -> [Collectors -> CmdStates]]
  BY DEF RolloutInv, RolloutTypeOK
<1>1. ASSUME NEW q \in Rollouts, NEW d \in Collectors, NEW s, s # "pending",
             SetCmd(q, d, s)
      PROVE  FALSE
  BY <1>0, <1>1 DEF SetCmd
<1>2. TickCommit
  <2>1. cmd' # cmd
    OBVIOUS
  <2>2. ASSUME NEW q, NEW d \in Collectors, NEW s \in {"succeeded", "failed"},
               q \in Rollouts, Report(q, d, s)
        PROVE  FALSE
    BY <1>1, <2>1, <2>2 DEF Report
  <2>w. \A d \in Collectors : job[d] # None => job[d] \in Rollouts
    BY DEF RolloutInv, RolloutTypeOK
  <2>3. \A q \in Rollouts, d \in Collectors : ~ Claim(q, d)
    BY <1>1, <2>1 DEF Claim
  <2>4. ASSUME NEW d \in Collectors, RefuseUpgrade(d) PROVE FALSE
    BY <2>2, <2>w, <2>4 DEF RefuseUpgrade
  <2>5. ASSUME NEW d \in Collectors, Confirm(d) PROVE FALSE
    BY <2>2, <2>w, <2>5 DEF Confirm, RolloutInv, Working
  <2>6. ASSUME NEW d \in Collectors, RollBack(d) PROVE FALSE
    BY <2>2, <2>w, <2>6 DEF RollBack, RolloutInv, Working
  <2> QED BY <2>1, <2>3, <2>4, <2>5, <2>6
      DEF Next, TimePasses, HeartbeatWithVersion, FleetStep, RolloutStep, TickBegin,
          StartRollout, CancelRollout, SwapBinary, vars, rolloutVars, upgradeVars
<1>3. cmd'[r][c] = IF c \in Chosen(r, "upgrade") THEN "pending" ELSE Expired(r)[c]
  BY <1>2 DEF TickCommit
<1>4. Expired(r)[c] # "pending"
  BY DEF Expired, Open
<1> QED BY <1>2, <1>3, <1>4

\* A member it commands is covered.
LEMMA CommandsAreForTheCovered ==
    ASSUME RolloutInv, [Next]_vars, NEW r \in Rollouts, NEW c \in Collectors,
           cmd[r][c] = "none", cmd'[r][c] = "pending"
    PROVE  Covered(c)
<1>1. c \in Chosen(r, "upgrade")
  BY OnlyTicksCommand
<1>2. PICK p \in RolloutPools[r] : /\ DecidePool(r, p, Expired(r)).act = "upgrade"
                                   /\ DecidePool(r, p, Expired(r)).who = c
  BY <1>1 DEF Chosen, Decision
<1> QED BY <1>2, DecideCovers

\* Whatever rollouts run over whatever pools, and whoever cancels, drains or
\* falls silent meanwhile, a member with active partners is commanded only when
\* nothing is polled through it and they are all healthy.
THEOREM CommandedWhenCoveredAlways == Spec => CommandedWhenCovered
<1>1. ASSUME RolloutInv, [Next]_vars
      PROVE  [\A r \in Rollouts, c \in Collectors :
                 cmd[r][c] = "none" /\ cmd'[r][c] = "pending" =>
                    \A d \in Collectors \ {c} :
                       pool[d] = pool[c] /\ state[d] = "active" =>
                          Healthy(d) /\ \A e \in Endpoints : Served(e) # c]_vars
  BY <1>1, CommandsAreForTheCovered DEF Covered
<1> QED BY <1>1, RolloutTypeCorrect, PTL DEF Spec, CommandedWhenCovered

\* What a tick has listed still runs, unless a cancel may fall inside the tick.
ListedRun == listed # None => \A r \in listed : rstate[r] = "running"

\* When no cancel falls between a tick's listing and its writes, a cancelled
\* rollout creates no command: the window inside a tick is the only way to one.
THEOREM CancelledIssuesNothingBetweenTicks ==
    ASSUME ~ CancelDuringTick
    PROVE  Spec => CancelledIssuesNothing
<1>1. Init => ListedRun
  BY DEF Init, ListedRun
<1>2. RolloutInv /\ ListedRun /\ [Next]_vars => ListedRun'
  <2> SUFFICES ASSUME RolloutInv, ListedRun, [Next]_vars PROVE ListedRun'
    OBVIOUS
  <2>0. rstate \in [Rollouts -> {"none", "running"} \cup Ended]
    BY DEF RolloutInv, RolloutTypeOK
  <2>1. CASE UNCHANGED <<rstate, listed>>
    BY <2>1 DEF ListedRun
  <2>2. CASE TickBegin
    BY <2>2 DEF TickBegin, ListedRun
  <2>3. CASE TickCommit
    BY <2>3 DEF TickCommit, ListedRun
  <2>4. ASSUME NEW r \in Rollouts, StartRollout(r) PROVE ListedRun'
    BY <2>0, <2>4 DEF StartRollout, ListedRun
  <2>5. ASSUME NEW r \in Rollouts, CancelRollout(r) PROVE ListedRun'
    BY <2>5 DEF CancelRollout, ListedRun
  <2> QED BY <2>1, <2>2, <2>3, <2>4, <2>5
      DEF Next, TimePasses, HeartbeatWithVersion, FleetStep, RolloutStep, Claim,
          RefuseUpgrade, SwapBinary, Confirm, RollBack, vars, rolloutVars
<1>3. ASSUME RolloutInv, ListedRun, [Next]_vars
      PROVE  [\A r \in Rollouts : rstate[r] = "cancelled" =>
                 \A c \in Collectors : cmd'[r][c] = "pending" => cmd[r][c] = "pending"]_vars
  <2> SUFFICES ASSUME NEW r \in Rollouts, NEW c \in Collectors, rstate[r] = "cancelled",
                      cmd'[r][c] = "pending", cmd[r][c] # "pending"
               PROVE  FALSE
    OBVIOUS
  <2>1. TickCommit /\ c \in Chosen(r, "upgrade")
    BY <1>3, OnlyTicksCommand
  <2>2. r \in listed /\ listed # None
    BY <2>1 DEF TickCommit, Chosen, Decision
  <2> QED BY <1>3, <2>2 DEF ListedRun
<1> QED BY <1>1, <1>2, <1>3, RolloutTypeCorrect, PTL DEF Spec, CancelledIssuesNothing

\* Nor does the tick of a rollout, which drains and restores members, give work
\* to a member that has just come back.
THEOREM RolloutsSnatchNothing == Spec => NoSnatchBack
<1>1. ASSUME RolloutInv, Next PROVE SnatchesNothing
  <2>0. FleetTypeOK
    BY <1>1 DEF RolloutInv
  <2>1. CASE FleetNext
    BY <2>0, <2>1, FleetAssigns, AssignedSteps
  <2>2. CASE TickCommit
    <3>1. \/ record' = record
          \/ record' = Compute(FleetOf(state'), pins', record, frozen, None)
      BY <2>2 DEF TickCommit, Assign
    <3> QED BY <2>0, <3>1, AssignedSteps
  <2>3. CASE record' = record
    BY <2>0, <2>3, AssignedSteps
  <2>4. FleetNext \/ TickCommit \/ record' = record
    BY <1>1 DEF Next, TimePasses, HeartbeatWithVersion, FleetStep, FleetNext, RolloutStep,
                TickBegin, StartRollout, CancelRollout, Claim, RefuseUpgrade, SwapBinary,
                Confirm, RollBack, fleetVars
  <2> QED BY <2>1, <2>2, <2>3, <2>4
<1>2. ASSUME RolloutInv, [Next]_vars PROVE [SnatchesNothing]_fleetVars
  BY <1>1, <1>2 DEF vars
<1>3. Spec => [][SnatchesNothing]_fleetVars
  BY <1>2, RolloutTypeCorrect, PTL DEF Spec
<1> QED BY <1>3 DEF NoSnatchBack, SnatchesNothing

---------------------------------------------------------------------------
(* A rollout over one pool is a rolling upgrade.                           *)

\* One rollout, over one pool, while nobody else drains, moves or retires
\* members.  With a second rollout, or with operators who do, it is not one.
OneRollout(r, p) ==
    Rollouts = {r} /\ RolloutPools[r] = {p} /\ OperatorActs \cap {"drain", "patch"} = {}

\* Members out of service or upgrading: in r's pool, and one at most.
Commanded(r, c) == cmd[r][c] \in Open
HandedOut(r, c) == state[c] = "draining" /\ by[c] = r
Away(r, c) == Commanded(r, c) \/ HandedOut(r, c)
OneAway(r, p) ==
    /\ \A c \in Collectors : Commanded(r, c) => c \in Mine(r, p)
    /\ \A c \in Collectors : HandedOut(r, c) => pool[c] = p
    /\ \A c, d \in Collectors : c # d => ~ (Away(r, c) /\ Away(r, d))

\* decide never touches a pool with a command open; it drains while nobody is
\* drained, and otherwise restores or commands the member it drained.
LEMMA DecideOne ==
    ASSUME NEW r \in Rollouts, NEW p, NEW cs, NEW D, D = DecidePool(r, p, cs)
    PROVE  LET mine == Mine(r, p)
               ours == {c \in mine : state[c] = "draining"}
           IN  \/ D.act = "wait"
               \/ D.act = "done"
               \/ /\ \A c \in mine : cs[c] \notin Open
                  /\ D.act \in {"drain", "restore", "upgrade"} /\ D.who \in mine
                  /\ D.act = "drain" => ours = {}
                  /\ D.act # "drain" => ours = {} \/ D.who \in ours
<1> DEFINE mine == Mine(r, p)
           finished == {c \in mine : cs[c] = "succeeded"}
           ours     == {c \in mine : state[c] = "draining"}
           remaining == {c \in mine : version[c] # TargetOf[r]}
           candidate == Min(remaining)
<1>0. /\ Wait.act = "wait"
      /\ \A a, c : Do(a, c).act = a /\ Do(a, c).who = c
  BY DEF Wait, Do
<1>1. mine \in SUBSET Collectors
  BY DEF Mine
<1>2. CASE D = Wait
  BY <1>0, <1>2
<1>3. CASE D # Wait
  <2>1. \A c \in mine : cs[c] \notin Open
    BY <1>3 DEF DecidePool, CommandOpen
  <2>2. \/ ours \cap finished # {} /\ D = Do("restore", Min(ours \cap finished))
        \/ ours # {} /\ D = DecideDrained(r, p, Min(ours))
        \/ ours = {} /\ D = DecideNext(r, p)
    BY <1>3 DEF DecidePool
  <2>3. CASE ours \cap finished # {} /\ D = Do("restore", Min(ours \cap finished))
    <3>1. Min(ours \cap finished) \in ours
      BY <1>1, <2>3, FirstOf
    <3> HIDE DEF ours, finished
    <3>2. D.who \in ours /\ D.act = "restore"
      BY <1>0, <2>3, <3>1
    <3> QED BY <2>1, <3>2 DEF ours
  <2>4. CASE ours # {} /\ D = DecideDrained(r, p, Min(ours))
    <3>1. Min(ours) \in ours
      BY <1>1, <2>4, FirstOf
    <3>2. D = Do("restore", Min(ours)) \/ D = Do("upgrade", Min(ours))
      BY <1>3, <2>4 DEF DecideDrained
    <3> HIDE DEF ours
    <3>3. D.who \in ours /\ D.act \in {"restore", "upgrade"}
      BY <1>0, <3>1, <3>2
    <3> QED BY <2>1, <3>3 DEF ours
  <2>5. CASE ours = {} /\ D = DecideNext(r, p)
    <3>1. CASE remaining = {}
      <4>1. D = Do("done", None)
        BY <2>5, <3>1 DEF DecideNext
      <4> QED BY <1>0, <4>1
    <3>2. CASE remaining # {}
      <4>1. candidate \in remaining
        BY <1>1, <3>2, FirstOf
      <4>2. D = Do("drain", candidate) \/ D = Do("upgrade", candidate)
        BY <1>3, <2>5, <3>2 DEF DecideNext
      <4> HIDE DEF candidate, ours
      <4>3. D.who \in mine /\ D.act \in {"drain", "upgrade"}
        BY <1>0, <4>1, <4>2
      <4> QED BY <2>1, <2>5, <4>3 DEF ours
    <3> QED BY <3>1, <3>2
  <2> QED BY <2>2, <2>3, <2>4, <2>5
<1> QED BY <1>2, <1>3

\* What one tick writes, with one rollout over one pool: at most one decision,
\* about one member.
LEMMA TickDecides ==
    ASSUME RolloutInv, NEW r, NEW p, OneRollout(r, p), OneAway(r, p), TickCommit
    PROVE  /\ pool' = pool
           /\ \A c \in Collectors : Commanded(r, c)' => Commanded(r, c) \/ c \in Chosen(r, "upgrade")
           /\ \A c \in Collectors : Commanded(r, c)' /\ Commanded(r, c) =>
                                    state'[c] = state[c] /\ by'[c] = by[c]
           /\ \A c \in Chosen(r, "upgrade") : state'[c] = state[c] /\ by'[c] = by[c]
           /\ \A c \in Collectors : HandedOut(r, c)' => HandedOut(r, c) \/ c \in Chosen(r, "drain")
           /\ Chosen(r, "drain") \cup Chosen(r, "upgrade") \subseteq Mine(r, p)
           /\ Chosen(r, "drain") # {} => \A c \in Collectors : ~ Away(r, c)
           /\ \A c \in Chosen(r, "upgrade") : \A d \in Collectors \ {c} : ~ Away(r, d)
           /\ \A a, b \in {"drain", "upgrade"} :
                 \A c \in Chosen(r, a), d \in Chosen(r, b) : c = d /\ a = b
<1> DEFINE drained(c)  == {q \in Rollouts : c \in Chosen(q, "drain")}
           restored(c) == {q \in Rollouts : c \in Chosen(q, "restore")}
           st == [c \in Collectors |-> IF drained(c) # {} THEN "draining"
                                       ELSE IF restored(c) # {} THEN "active" ELSE state[c]]
           bb == [c \in Collectors |->
                    IF drained(c) \cup restored(c) = {} THEN by[c]
                    ELSE CHOOSE q \in drained(c) \cup restored(c) : TRUE]
           orphan(c) == c \in Orphans(st, bb)
<1>0. r \in Rollouts /\ \A q \in Rollouts : q = r
  BY DEF OneRollout
<1>1. /\ cmd' = [q \in Rollouts |-> [c \in Collectors |->
                   IF c \in Chosen(q, "upgrade") THEN "pending" ELSE Expired(q)[c]]]
      /\ state' = [c \in Collectors |-> IF orphan(c) THEN "active" ELSE st[c]]
      /\ by' = [c \in Collectors |-> IF orphan(c) THEN "rollout" ELSE bb[c]]
      /\ pool' = pool
  BY DEF TickCommit
<1>2. \A c \in Collectors : orphan(c) => cmd'[r][c] \notin Open
  BY <1>0 DEF Orphans
<1>3. \A c \in Collectors : st[c] = IF c \in Chosen(r, "drain") THEN "draining"
                                    ELSE IF c \in Chosen(r, "restore") THEN "active" ELSE state[c]
  BY <1>0
<1>4. \A c \in Collectors : c \notin Chosen(r, "drain") \cup Chosen(r, "restore") => bb[c] = by[c]
  BY <1>0
<1>5. \A c \in Collectors : cmd'[r][c] = IF c \in Chosen(r, "upgrade") THEN "pending" ELSE Expired(r)[c]
  BY <1>0, <1>1
<1> HIDE DEF orphan, st, bb
<1>6. \A c \in Collectors : /\ state'[c] = IF orphan(c) THEN "active" ELSE st[c]
                            /\ by'[c] = IF orphan(c) THEN "rollout" ELSE bb[c]
  BY <1>1
<1>7. \A c \in Collectors : Expired(r)[c] \in Open => cmd[r][c] \in Open
  BY DEF Expired, Open
<1> DEFINE D == DecidePool(r, p, Expired(r))
           mine == Mine(r, p)
           ours == {c \in mine : state[c] = "draining"}
<1>8. CASE Decision(r) = {} \/ D.act \in {"wait", "done"}
  <2>1. \A a \in {"drain", "restore", "upgrade"} : Chosen(r, a) = {}
    BY <1>8, <1>0 DEF Chosen, Decision, OneRollout
  <2> HIDE DEF D
  <2>2. \A c \in Collectors : st[c] = state[c] /\ bb[c] = by[c]
    BY <1>3, <1>4, <2>1
  <2> QED BY <1>1, <1>2, <1>5, <1>6, <1>7, <2>1, <2>2 DEF Commanded, HandedOut
<1>9. CASE Decision(r) # {} /\ D.act \notin {"wait", "done"}
  <2>1. Decision(r) = {D} /\ ~ HasFailed(r)
    BY <1>0, <1>9 DEF Decision, OneRollout
  <2>2. \A a : Chosen(r, a) = IF D.act = a THEN {D.who} ELSE {}
    BY <2>1 DEF Chosen
  <2>3. /\ \A c \in mine : Expired(r)[c] \notin Open
        /\ D.act \in {"drain", "restore", "upgrade"} /\ D.who \in mine
        /\ D.act = "drain" => ours = {}
        /\ D.act # "drain" => ours = {} \/ D.who \in ours
    BY <1>0, <1>9, DecideOne
  <2> HIDE DEF D
  <2>4. \A c \in Collectors : ~ Commanded(r, c)
    <3> SUFFICES ASSUME NEW c \in Collectors, Commanded(r, c) PROVE FALSE
      OBVIOUS
    <3>1. c \in mine
      BY DEF OneAway
    <3>2. Expired(r)[c] = cmd[r][c]
      BY <1>0, <2>1 DEF HasFailed, Expired
    <3> QED BY <2>3, <3>1, <3>2 DEF Commanded
  <2>5. \A c \in Collectors : HandedOut(r, c) => c \in ours
    BY DEF OneAway, HandedOut, Mine
  <2>6. \A c \in ours : HandedOut(r, c)
    BY DEF HandedOut, Mine
  <2>7. mine \subseteq Collectors
    BY DEF Mine
  <2> HIDE DEF mine, ours
  <2>8. D.act # "drain" => \A d \in Collectors \ {D.who} : ~ Away(r, d)
    BY <2>3, <2>4, <2>5, <2>6, <2>7 DEF OneAway, Away
  <2>9. D.act = "drain" => \A d \in Collectors : ~ Away(r, d)
    BY <2>3, <2>4, <2>5 DEF Away
  <2>10. \A c \in Collectors : Commanded(r, c)' => c \in Chosen(r, "upgrade")
    BY <1>5, <1>7, <2>4 DEF Commanded
  <2>11. \A c \in Collectors : HandedOut(r, c)' => HandedOut(r, c) \/ c \in Chosen(r, "drain")
    <3> SUFFICES ASSUME NEW c \in Collectors, HandedOut(r, c)', c \notin Chosen(r, "drain")
                 PROVE  HandedOut(r, c)
      OBVIOUS
    <3>1. ~ orphan(c) /\ st[c] = "draining" /\ bb[c] = r
      BY <1>6 DEF HandedOut
    <3>2. c \notin Chosen(r, "restore") /\ state[c] = "draining"
      BY <1>3, <3>1
    <3> QED BY <1>4, <3>1, <3>2 DEF HandedOut
  <2>12. \A c \in Chosen(r, "upgrade") : state'[c] = state[c] /\ by'[c] = by[c]
    <3> SUFFICES ASSUME NEW c \in Chosen(r, "upgrade")
                 PROVE  state'[c] = state[c] /\ by'[c] = by[c]
      OBVIOUS
    <3>1. c = D.who /\ D.act = "upgrade" /\ c \in Collectors
      BY <2>2, <2>3, <2>7
    <3>2. ~ orphan(c)
      BY <1>2, <1>5, <3>1 DEF Open
    <3>3. Chosen(r, "drain") = {} /\ Chosen(r, "restore") = {}
      BY <2>2, <3>1
    <3> QED BY <1>3, <1>4, <1>6, <3>1, <3>2, <3>3
  <2>13. Chosen(r, "drain") \cup Chosen(r, "upgrade") \subseteq mine
    BY <2>2, <2>3
  <2>14. Chosen(r, "drain") # {} => \A c \in Collectors : ~ Away(r, c)
    BY <2>2, <2>9
  <2>15. \A c \in Chosen(r, "upgrade") : \A d \in Collectors \ {c} : ~ Away(r, d)
    BY <2>2, <2>8
  <2>16. ASSUME NEW a \in {"drain", "upgrade"}, NEW b \in {"drain", "upgrade"},
                NEW c \in Chosen(r, a), NEW d \in Chosen(r, b)
         PROVE  c = d /\ a = b
    <3>1. a = "drain" \/ a = "upgrade"
      OBVIOUS
    <3>2. b = "drain" \/ b = "upgrade"
      OBVIOUS
    <3>3. D.act = a /\ c = D.who
      BY <2>2, <3>1
    <3>4. D.act = b /\ d = D.who
      BY <2>2, <3>2
    <3> QED BY <3>3, <3>4
  <2>17. \A c \in Collectors : ~ (Commanded(r, c)' /\ Commanded(r, c))
    BY <2>4
  <2> QED BY <1>1, <2>10, <2>11, <2>12, <2>13, <2>14, <2>15, <2>16, <2>17 DEF mine
<1> QED BY <1>8, <1>9

\* Between ticks nobody leaves service, and nobody away leaves the pool.
LEMMA OthersTakeNobody ==
    ASSUME RolloutInv, NEW r, NEW p, OneRollout(r, p), Next, ~ TickCommit
    PROVE  /\ pool' = pool
           /\ \A c \in Collectors : Commanded(r, c)' => Commanded(r, c)
           /\ \A c \in Collectors : /\ by'[c] = by[c]
                                    /\ state'[c] = state[c] \/ state[c] = "none"
           /\ \A c \in Collectors : HandedOut(r, c)' => HandedOut(r, c)
<1>0. r \in Rollouts /\ \A q \in Rollouts : q = r
  BY DEF OneRollout
<1>1. cmd \in [Rollouts -> [Collectors -> CmdStates]]
  BY DEF RolloutInv, RolloutTypeOK
<1>2. ASSUME NEW c \in Collectors, NEW s \in {"delivered", "succeeded", "failed"},
             SetCmd(r, c, s), Commanded(r, c)
      PROVE  \A d \in Collectors : Commanded(r, d)' => Commanded(r, d)
  BY <1>0, <1>1, <1>2 DEF SetCmd, Commanded
<1>3. \A c \in Collectors : job[c] # None => job[c] = r
  BY <1>0 DEF RolloutInv, RolloutTypeOK
<1>4. ASSUME NEW c \in Collectors, NEW s \in {"succeeded", "failed"}, Report(r, c, s)
      PROVE  \A d \in Collectors : Commanded(r, d)' => Commanded(r, d)
  <2>1. CASE UNCHANGED cmd
    BY <2>1 DEF Commanded
  <2>2. CASE cmd[r][c] \in Open /\ SetCmd(r, c, s)
    BY <1>2, <2>2 DEF Commanded
  <2> QED BY <1>4, <2>1, <2>2 DEF Report
<1> DEFINE stays == UNCHANGED <<state, by, pool>>
<1>5. CASE UNCHANGED cmd /\ stays
  BY <1>5 DEF Commanded, HandedOut
<1>6. ASSUME NEW c \in Collectors, Claim(r, c) PROVE stays /\ \A d \in Collectors : Commanded(r, d)' => Commanded(r, d)
  <2>1. Commanded(r, c) /\ SetCmd(r, c, "delivered")
    BY <1>6 DEF Claim, Commanded, Open
  <2> QED BY <1>2, <1>6, <2>1 DEF Claim, fleetVars, rowVars
<1>7. ASSUME NEW c \in Collectors, RefuseUpgrade(c) \/ Confirm(c) \/ RollBack(c)
      PROVE  stays /\ \A d \in Collectors : Commanded(r, d)' => Commanded(r, d)
  <2>1. job[c] = r
    BY <1>3, <1>7 DEF RefuseUpgrade, Confirm, RollBack, RolloutInv, Working
  <2>2. \E s \in {"succeeded", "failed"} : Report(r, c, s)
    BY <1>7, <2>1 DEF RefuseUpgrade, Confirm, RollBack
  <2> QED BY <1>4, <1>7, <2>2 DEF RefuseUpgrade, Confirm, RollBack, fleetVars, rowVars
<1>8. ASSUME NEW c \in Collectors, HeartbeatWithVersion(c)
      PROVE  /\ UNCHANGED <<cmd, by, pool>>
             /\ \A d \in Collectors : \/ state'[d] = state[d]
                                      \/ state[d] = "none" /\ state'[d] # "draining"
  BY <1>8 DEF HeartbeatWithVersion, Heartbeat, NewState, upgradeVars, RolloutInv, FleetTypeOK
<1>9. CASE Operate /\ UNCHANGED rolloutVars
  BY <1>5, <1>9 DEF OneRollout, Operate, Pin, Freeze, RebalanceNow, rowVars, rolloutVars, upgradeVars
<1>10. CASE \E c \in Collectors : HeartbeatWithVersion(c)
  BY <1>8, <1>10 DEF Commanded, HandedOut
<1>11. \/ UNCHANGED cmd /\ stays
       \/ \E c \in Collectors : \/ HeartbeatWithVersion(c) \/ Claim(r, c)
                                \/ RefuseUpgrade(c) \/ Confirm(c) \/ RollBack(c)
       \/ Operate /\ UNCHANGED rolloutVars
  BY <1>0 DEF Next, TimePasses, Tick, FleetStep, Silent, Return, AssignerRun, RolloutStep,
              TickBegin, StartRollout, CancelRollout, SwapBinary, fleetVars, rowVars,
              rolloutVars, upgradeVars
<1> QED BY <1>5, <1>6, <1>7, <1>9, <1>10, <1>11 DEF HandedOut

\* Every step concerns one member at most: all others are in service before and
\* after it.
LEMMA StepsTakeOne ==
    ASSUME RolloutInv, NEW r, NEW p, OneRollout(r, p), OneAway(r, p), [Next]_vars
    PROVE  /\ OneAway(r, p)'
           /\ \E m : \A d \in Collectors \ {m} : ~ Away(r, d) /\ ~ Away(r, d)'
<1> DEFINE shrinks == \A c \in Collectors : Away(r, c)' => Away(r, c)
           alone == \E m : \A d \in Collectors \ {m} : ~ Away(r, d) /\ ~ Away(r, d)'
<1>1. shrinks => alone
  <2> SUFFICES ASSUME shrinks PROVE alone
    OBVIOUS
  <2>1. CASE \E c \in Collectors : Away(r, c)
    BY <2>1 DEF OneAway
  <2>2. CASE \A c \in Collectors : ~ Away(r, c)
    BY <2>2
  <2> QED BY <2>1, <2>2
<1>2. alone => \A c, d \in Collectors : c # d => ~ (Away(r, c)' /\ Away(r, d)')
  OBVIOUS
<1>3. CASE UNCHANGED vars
  <2>1. UNCHANGED <<cmd, state, by, pool>>
    BY <1>3 DEF vars, fleetVars, rowVars, rolloutVars, upgradeVars
  <2>2. shrinks
    BY <2>1 DEF Away, Commanded, HandedOut
  <2>3. OneAway(r, p)'
    BY <2>1 DEF OneAway, Away, Commanded, HandedOut, Mine
  <2> QED BY <1>1, <2>2, <2>3
<1>4. CASE Next /\ ~ TickCommit
  <2>1. /\ pool' = pool
        /\ \A c \in Collectors : Commanded(r, c)' => Commanded(r, c)
        /\ \A c \in Collectors : /\ by'[c] = by[c]
                                 /\ state'[c] = state[c] \/ state[c] = "none"
        /\ \A c \in Collectors : HandedOut(r, c)' => HandedOut(r, c)
    BY <1>4, OthersTakeNobody
  <2>2. shrinks
    BY <2>1 DEF Away
  <2>3. \A c \in Collectors : Commanded(r, c)' => c \in Mine(r, p)'
    BY <2>1 DEF OneAway, Mine
  <2>4. \A c \in Collectors : HandedOut(r, c)' => pool'[c] = p
    BY <2>1 DEF OneAway
  <2> QED BY <1>1, <1>2, <2>2, <2>3, <2>4 DEF OneAway
<1>5. CASE TickCommit
  <2>1. /\ pool' = pool
        /\ \A c \in Collectors : Commanded(r, c)' => Commanded(r, c) \/ c \in Chosen(r, "upgrade")
        /\ \A c \in Collectors : Commanded(r, c)' /\ Commanded(r, c) =>
                                 state'[c] = state[c] /\ by'[c] = by[c]
        /\ \A c \in Chosen(r, "upgrade") : state'[c] = state[c] /\ by'[c] = by[c]
        /\ \A c \in Collectors : HandedOut(r, c)' => HandedOut(r, c) \/ c \in Chosen(r, "drain")
        /\ Chosen(r, "drain") \cup Chosen(r, "upgrade") \subseteq Mine(r, p)
        /\ Chosen(r, "drain") # {} => \A c \in Collectors : ~ Away(r, c)
        /\ \A c \in Chosen(r, "upgrade") : \A d \in Collectors \ {c} : ~ Away(r, d)
        /\ \A a, b \in {"drain", "upgrade"} :
              \A c \in Chosen(r, a), d \in Chosen(r, b) : c = d /\ a = b
    BY <1>5, TickDecides
  <2>2. \A c \in Collectors : Commanded(r, c)' => c \in Mine(r, p)'
    BY <2>1 DEF OneAway, Mine
  <2>3. \A c \in Collectors : HandedOut(r, c)' => pool'[c] = p
    BY <2>1 DEF OneAway, Mine
  <2>4. alone
    <3>1. CASE Chosen(r, "drain") \cup Chosen(r, "upgrade") = {}
      <4>1. shrinks
        BY <2>1, <3>1 DEF Away
      <4> QED BY <1>1, <4>1
    <3>2. ASSUME NEW m \in Chosen(r, "drain") PROVE alone
      <4>1. \A d \in Collectors \ {m} : ~ Away(r, d)
        BY <2>1, <3>2
      <4>2. \A d \in Collectors \ {m} : d \notin Chosen(r, "drain") \cup Chosen(r, "upgrade")
        BY <2>1, <3>2
      <4>3. \A d \in Collectors \ {m} : ~ Away(r, d)'
        BY <2>1, <4>1, <4>2 DEF Away
      <4> QED BY <4>1, <4>3
    <3>3. ASSUME NEW m \in Chosen(r, "upgrade") PROVE alone
      <4>1. \A d \in Collectors \ {m} : ~ Away(r, d)
        BY <2>1, <3>3
      <4>2. \A d \in Collectors \ {m} : d \notin Chosen(r, "drain") \cup Chosen(r, "upgrade")
        BY <2>1, <3>3
      <4>3. \A d \in Collectors \ {m} : ~ Away(r, d)'
        BY <2>1, <4>1, <4>2 DEF Away
      <4> QED BY <4>1, <4>3
    <3> QED BY <3>1, <3>2, <3>3
  <2> QED BY <1>2, <2>2, <2>3, <2>4 DEF OneAway
<1> QED BY <1>3, <1>4, <1>5

\* While every other member is in service, whatever one does is a step of a
\* rolling upgrade.
LEMMA LoneStep ==
    ASSUME NEW r, NEW p, OneRollout(r, p),
           NEW m, \A d \in Collectors \ {m} : ~ Away(r, d) /\ ~ Away(r, d)'
    PROVE  [Upgrade!Next]_([c \in Collectors |-> Phase(c)])
<1> DEFINE phases == [c \in Collectors |-> Phase(c)]
<1>1. \A c \in Collectors : Phase(c) = IF Commanded(r, c) THEN "upgrading"
                                      ELSE IF HandedOut(r, c) THEN "out" ELSE "in"
  BY DEF Phase, OneRollout, Commanded, HandedOut
<1>2. \A c \in Collectors : Phase(c)' = IF Commanded(r, c)' THEN "upgrading"
                                       ELSE IF HandedOut(r, c)' THEN "out" ELSE "in"
  BY DEF Phase, OneRollout, Commanded, HandedOut
<1>3. /\ \A c \in Collectors : phases[c] \in {"in", "out", "upgrading"}
      /\ \A c \in Collectors : phases'[c] \in {"in", "out", "upgrading"}
      /\ \A d \in Collectors \ {m} : phases[d] = "in" /\ phases'[d] = "in"
  BY <1>1, <1>2 DEF Away
<1>4. DOMAIN phases = Collectors /\ DOMAIN phases' = Collectors
  OBVIOUS
<1>5. phases = [c \in Collectors |-> phases[c]] /\ phases' = [c \in Collectors |-> phases'[c]]
  OBVIOUS
<1>6. CASE m \in Collectors /\ phases'[m] # phases[m]
  <2>1. phases' = [phases EXCEPT ![m] = phases'[m]]
    <3> HIDE DEF phases
    <3> QED BY <1>3, <1>4, <1>5, <1>6
  <2>2. \A d \in Collectors \ {m} : phases[d] = "in"
    BY <1>3
  <2>3. CASE phases[m] = "in"
    <3>1. phases'[m] \in {"out", "upgrading"}
      BY <1>3, <1>6, <2>3
    <3>2. Upgrade!Take(m, phases'[m])
      BY <2>1, <2>2, <2>3, <3>1 DEF Upgrade!Take, Upgrade!AllIn
    <3> QED BY <1>6, <3>1, <3>2 DEF Upgrade!Next
  <2>4. CASE phases[m] = "out" /\ phases'[m] = "upgrading"
    <3>1. Upgrade!Upgrade(m)
      BY <2>1, <2>2, <2>4 DEF Upgrade!Upgrade, Upgrade!AllIn
    <3> QED BY <1>6, <3>1 DEF Upgrade!Next
  <2>5. CASE phases[m] = "out" /\ phases'[m] = "in"
    <3>1. Upgrade!PutBack(m)
      BY <2>1, <2>5 DEF Upgrade!PutBack
    <3> QED BY <1>6, <3>1 DEF Upgrade!Next
  <2>6. CASE phases[m] = "upgrading"
    <3>1. phases'[m] \in {"in", "out"}
      BY <1>3, <1>6, <2>6
    <3>2. Upgrade!Finish(m)
      BY <2>1, <2>6, <3>1 DEF Upgrade!Finish
    <3> QED BY <1>6, <3>2 DEF Upgrade!Next
  <2> QED BY <1>3, <1>6, <2>3, <2>4, <2>5, <2>6
<1>7. CASE m \notin Collectors \/ phases'[m] = phases[m]
  <2>1. phases' = phases
    <3>1. \A c \in Collectors : phases'[c] = phases[c]
      BY <1>3, <1>7
    <3> HIDE DEF phases
    <3> QED BY <1>4, <1>5, <3>1
  <2> QED BY <2>1
<1> QED BY <1>6, <1>7

\* One rollout over one pool implements the rolling upgrade, whatever the size of
\* the fleet, however commands and answers get lost, whoever falls silent, cancels,
\* pins, freezes or rebalances.
THEOREM RolloutIsRollingUpgrade ==
    ASSUME NEW r, NEW p, OneRollout(r, p) PROVE Spec => IsRollingUpgrade
<1>1. Init => OneAway(r, p) /\ Upgrade!Init
  <2> SUFFICES ASSUME Init PROVE OneAway(r, p) /\ Upgrade!Init
    OBVIOUS
  <2>1. \A c \in Collectors : ~ Commanded(r, c) /\ state[c] # "draining"
    BY DEF Init, FleetInit, Commanded, Open, OneRollout
  <2>2. OneAway(r, p)
    BY <2>1 DEF OneAway, Away, HandedOut
  <2>3. \A c \in Collectors : Phase(c) = "in"
    BY <2>1 DEF Phase, Commanded, OneRollout
  <2> QED BY <2>2, <2>3 DEF Upgrade!Init
<1>2. RolloutInv /\ OneAway(r, p) /\ [Next]_vars => OneAway(r, p)'
  BY StepsTakeOne
<1>3. RolloutInv /\ OneAway(r, p) /\ [Next]_vars
        => [Upgrade!Next]_([c \in Collectors |-> Phase(c)])
  <2> SUFFICES ASSUME RolloutInv, OneAway(r, p), [Next]_vars
               PROVE  [Upgrade!Next]_([c \in Collectors |-> Phase(c)])
    OBVIOUS
  <2>1. PICK m : \A d \in Collectors \ {m} : ~ Away(r, d) /\ ~ Away(r, d)'
    BY StepsTakeOne
  <2> QED BY <2>1, LoneStep
<1> QED BY <1>1, <1>2, <1>3, RolloutTypeCorrect, PTL DEF Spec, IsRollingUpgrade, Upgrade!Spec

---------------------------------------------------------------------------
(* What a pool gains from being upgraded as RollingUpgrade says.           *)

AtMostOneAway ==
    \A c, d \in Collectors : c # d => Phase(c) = "in" \/ Phase(d) = "in"

\* However large the pool, a rollout that is a rolling upgrade (and Rollout's
\* are: IsRollingUpgrade) has at most one member out of service or upgrading at
\* any moment.
THEOREM OneMemberAwayAtMost == IsRollingUpgrade => []AtMostOneAway
<1> DEFINE phases == [c \in Collectors |-> Phase(c)]
           inv == \A c, d \in Collectors : c # d => phases[c] = "in" \/ phases[d] = "in"
<1>1. Upgrade!Init => inv
  BY DEF Upgrade!Init
<1>2. ASSUME inv, Upgrade!Next PROVE inv'
  <2>1. PICK m \in Collectors : \/ \E p \in {"out", "upgrading"} : Upgrade!Take(m, p)
                                \/ Upgrade!Upgrade(m) \/ Upgrade!Finish(m)
                                \/ Upgrade!PutBack(m)
    BY <1>2 DEF Upgrade!Next
  <2> DEFINE alone == \A d \in Collectors \ {m} : phases[d] = "in"
  <2>2. alone
    <3>1. CASE (\E p \in {"out", "upgrading"} : Upgrade!Take(m, p)) \/ Upgrade!Upgrade(m)
      BY <3>1 DEF Upgrade!Take, Upgrade!Upgrade, Upgrade!AllIn
    <3>2. CASE Upgrade!Finish(m)
      BY <1>2, <3>2 DEF Upgrade!Finish
    <3>3. CASE Upgrade!PutBack(m)
      BY <1>2, <3>3 DEF Upgrade!PutBack
    <3> QED BY <2>1, <3>1, <3>2, <3>3
  <2>3. \E p : phases' = [phases EXCEPT ![m] = p]
    BY <2>1 DEF Upgrade!Take, Upgrade!Upgrade, Upgrade!Finish, Upgrade!PutBack
  <2>4. \A d \in Collectors \ {m} : phases'[d] = "in"
    <3> HIDE DEF phases
    <3> QED BY <2>2, <2>3
  <2> HIDE DEF phases
  <2> QED BY <2>4
<1>3. inv /\ [Upgrade!Next]_phases => inv'
  <2>1. ASSUME inv, phases' = phases PROVE inv'
    <3> HIDE DEF phases
    <3> QED BY <2>1
  <2> QED BY <1>2, <2>1
<1>4. inv => AtMostOneAway
  BY DEF AtMostOneAway
<1> QED BY <1>1, <1>3, <1>4, PTL DEF IsRollingUpgrade, Upgrade!Spec

\* So a rollout over one pool has at most one member out of service or upgrading.
THEOREM OneMemberAwayInARollout ==
    ASSUME NEW r, NEW p, OneRollout(r, p) PROVE Spec => []AtMostOneAway
BY RolloutIsRollingUpgrade, OneMemberAwayAtMost, PTL
=============================================================================
