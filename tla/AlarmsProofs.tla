---------------------------- MODULE AlarmsProofs ----------------------------
(* The alarm table keeps its shape under any number of sessions; one           *)
(* transaction at a time, the roll-up is current, alarms are shelved for a     *)
(* standing reason, and what is folded hangs under a root that stands.         *)
EXTENDS Alarms, TLAPS

\* No two transactions overlap; without this all but the shape fails.
OneSession == \A s, t \in Sessions : s = t

-----------------------------------------------------------------------------
(* What may explain what, by the cabling and the alarm types alone.            *)

AllFeeders(devs) == Feeders(devs) \cup Feeders(Feeders(devs))
AllCarriers(devs) ==
    Upstream("management", devs) \cup Upstream("management", Upstream("management", devs))
Causes(k) ==
    Higher[k] \cup Parts[k]
    \cup (IF Kind[k] \in {"silent", "restart", "flap"}
          THEN PowerRoot \cap On(AllFeeders({DeviceOf[k]})) ELSE {})
    \cup (IF Kind[k] \in {"link", "flap"}
          THEN PowerRoot \cap On(AllFeeders(PeerDevices(k))) ELSE {})
    \cup (IF Kind[k] = "silent"
          THEN PowerRoot \cap On(AllCarriers({DeviceOf[k]})) ELSE {})
OtherEnd(k) == IF Kind[k] = "link" /\ Peer[k] # None THEN {Peer[k]} ELSE {}

\* A cable joins two different ports, each facing the other; and power, polling
\* paths and bands together have no cycle, the ends of a cable taken as one.
Cabled ==
    \A k \in Keys : \A p \in OtherEnd(k) : p # k /\ Kind[p] = "link" /\ Peer[p] = k
NoLoop ==
    \A S \in (SUBSET Keys) \ {{}} :
        \E k \in S : \A x \in {k} \cup OtherEnd(k) : S \cap Causes(x) = {}
Layered == Cabled /\ NoLoop

-----------------------------------------------------------------------------
(* Rows and databases.                                                         *)

SameRest(d, e) ==
    /\ e.roll = d.roll /\ e.win = d.win /\ e.approval = d.approval
    /\ e.targets = d.targets /\ e.life = d.life

\* r and q differ at most in what folds them.
SameButFold(r, q) ==
    /\ q.st = r.st /\ q.sev = r.sev /\ q.src = r.src /\ q.by = r.by
    /\ q.win = r.win /\ q.why = r.why

LEMMA BlankIsARow == Blank \in Row
BY DEF Blank, Row, Top

LEMMA RowOf ==
    ASSUME NEW d \in Database, NEW k \in Keys
    PROVE  d.row \in [Keys -> Row] /\ d.row[k] \in Row
BY DEF Database

LEMMA RowsReplaced ==
    ASSUME NEW d \in Database, NEW rows \in [Keys -> Row], NEW e, e = [d EXCEPT !.row = rows]
    PROVE  e \in Database /\ e.row = rows /\ SameRest(d, e)
BY DEF Database, SameRest

LEMMA Marking ==
    ASSUME NEW d \in Database, NEW k \in Keys, NEW r \in Keys, NEW rs,
           rs = "open" \/ rs = "hold", NEW e, e = mark_symptom(d, k, r, rs)
    PROVE  /\ e \in Database /\ SameRest(d, e)
           /\ \A o \in Keys : SameButFold(d.row[o], e.row[o])
           /\ \A o \in Keys \ {k} : e.row[o] = d.row[o]
           /\ e.row[k].root = r /\ e.row[k].rs = rs
<1>1. d.row \in [Keys -> Row] /\ d.row[k] \in Row
  BY RowOf
<1>2. PICK q : q = [d.row[k] EXCEPT !.root = r, !.rs = rs]
  OBVIOUS
<1>3. q \in Row /\ SameButFold(d.row[k], q) /\ q.root = r /\ q.rs = rs
  BY <1>1, <1>2 DEF Row, SameButFold
<1>4. e = [d EXCEPT !.row = [d.row EXCEPT ![k] = q]]
  BY <1>1, <1>2 DEF mark_symptom, Database
<1>5. PICK rows : rows = [d.row EXCEPT ![k] = q]
  OBVIOUS
<1>6. rows \in [Keys -> Row] /\ rows[k] = q /\ \A o \in Keys \ {k} : rows[o] = d.row[o]
  BY <1>1, <1>3, <1>5
<1>7. e = [d EXCEPT !.row = rows]
  BY <1>4, <1>5
<1>8. e \in Database /\ e.row = rows /\ SameRest(d, e)
  BY <1>6, <1>7, RowsReplaced
<1>9. \A o \in Keys : SameButFold(d.row[o], rows[o])
  BY <1>3, <1>6 DEF SameButFold
<1> QED BY <1>3, <1>6, <1>8, <1>9

-----------------------------------------------------------------------------
(* Folding: only root and rs of some rows change, and each new root is one     *)
(* that may explain the row and is open, or a power fault that has cleared.    *)

FoldStep(d, k, r, q) ==
    \/ q.root = r.root /\ q.rs = r.rs
    \/ q.root = None /\ q.rs = "none"
    \/ q.root \in Causes(k) /\ q.rs = "open" /\ Open(d, q.root)
    \/ q.root \in SupplyFaults(k) /\ q.rs = "hold"
Folded(d, e) ==
    /\ e \in Database /\ SameRest(d, e)
    /\ \A k \in Keys : /\ SameButFold(d.row[k], e.row[k])
                       /\ FoldStep(d, k, d.row[k], e.row[k])

LEMMA CausesAreKeys == \A k \in Keys : Causes(k) \subseteq Keys
BY AlarmsAssumption DEF Causes, PowerRoot

LEMMA FaultsAreKeys ==
    \A k \in Keys : SupplyFaults(k) \subseteq Keys /\ SupplyFaults(k) \subseteq PowerRoot
BY DEF SupplyFaults, PowerRoot

LEMMA OpenStays ==
    ASSUME NEW d \in Database, NEW e, Folded(d, e)
    PROVE  \A k \in Keys : Open(e, k) <=> Open(d, k)
BY DEF Folded, SameButFold, Open

LEMMA FoldedNone == ASSUME NEW d \in Database PROVE Folded(d, d)
BY DEF Folded, SameRest, SameButFold, FoldStep

LEMMA FoldedTwice ==
    ASSUME NEW d \in Database, NEW e \in Database, NEW f, Folded(d, e), Folded(e, f)
    PROVE  Folded(d, f)
<1>1. SameRest(d, f) /\ \A k \in Keys : SameButFold(d.row[k], f.row[k])
  BY DEF Folded, SameRest, SameButFold
<1>2. ASSUME NEW k \in Keys PROVE FoldStep(d, k, d.row[k], f.row[k])
  <2>1. FoldStep(d, k, d.row[k], e.row[k]) /\ FoldStep(e, k, e.row[k], f.row[k])
    BY DEF Folded
  <2>2. \A r \in Causes(k) : Open(e, r) => Open(d, r)
    BY OpenStays, CausesAreKeys
  <2> QED BY <2>1, <2>2 DEF FoldStep
<1> QED BY <1>1, <1>2 DEF Folded

LEMMA MarkFolds ==
    ASSUME NEW d \in Database, NEW k \in Keys, NEW r, NEW rs,
           \/ r \in Causes(k) /\ rs = "open" /\ Open(d, r)
           \/ r \in SupplyFaults(k) /\ rs = "hold"
    PROVE  Folded(d, mark_symptom(d, k, r, rs))
<1>1. r \in Keys /\ (rs = "open" \/ rs = "hold")
  BY CausesAreKeys, FaultsAreKeys
<1> DEFINE e == mark_symptom(d, k, r, rs)
<1>2. e = mark_symptom(d, k, r, rs)
  OBVIOUS
<1> HIDE DEF e
<1>3. /\ e \in Database /\ SameRest(d, e)
      /\ \A o \in Keys : SameButFold(d.row[o], e.row[o])
      /\ \A o \in Keys \ {k} : e.row[o] = d.row[o]
      /\ e.row[k].root = r /\ e.row[k].rs = rs
  BY <1>1, <1>2, Marking
<1>4. \A o \in Keys : FoldStep(d, o, d.row[o], e.row[o])
  BY <1>3 DEF FoldStep
<1> QED BY <1>2, <1>3, <1>4 DEF Folded, e

\* The operators that fold a set of rows at once.
LEMMA RowsFold ==
    ASSUME NEW d \in Database, NEW ks \in SUBSET Keys, NEW Root \in [ks -> Keys],
           \A k \in ks : Root[k] \in Causes(k) /\ Open(d, Root[k]),
           NEW e, e = [d EXCEPT !.row = [k \in Keys |-> IF k \in ks
                         THEN [@[k] EXCEPT !.root = Root[k], !.rs = "open"] ELSE @[k]]]
    PROVE  Folded(d, e)
<1> DEFINE q(k) == IF k \in ks THEN [d.row[k] EXCEPT !.root = Root[k], !.rs = "open"]
                   ELSE d.row[k]
           rows == [k \in Keys |-> q(k)]
<1>1. d.row \in [Keys -> Row]
  BY DEF Database
<1>2. ASSUME NEW k \in Keys
      PROVE  q(k) \in Row /\ SameButFold(d.row[k], q(k)) /\ FoldStep(d, k, d.row[k], q(k))
  <2>1. CASE k \in ks
    <3>1. d.row[k] \in Row /\ Root[k] \in Keys
      BY <1>1, <2>1
    <3>2. q(k) = [d.row[k] EXCEPT !.root = Root[k], !.rs = "open"]
      BY <2>1
    <3> HIDE DEF q
    <3>3. /\ q(k) \in Row /\ SameButFold(d.row[k], q(k))
          /\ q(k).root = Root[k] /\ q(k).rs = "open"
      BY <3>1, <3>2 DEF Row, SameButFold
    <3> QED BY <2>1, <3>3 DEF FoldStep
  <2>2. CASE k \notin ks
    <3>1. q(k) = d.row[k] /\ d.row[k] \in Row
      BY <1>1, <2>2
    <3> QED BY <3>1 DEF SameButFold, FoldStep
  <2> QED BY <2>1, <2>2
<1>3. e = [d EXCEPT !.row = rows]
  BY DEF Database
<1> HIDE DEF q
<1>4. rows \in [Keys -> Row]
  BY <1>2
<1>5. \A k \in Keys : rows[k] = q(k)
  OBVIOUS
<1> HIDE DEF rows
<1>6. e \in Database /\ e.row = rows /\ SameRest(d, e)
  BY <1>3, <1>4, RowsReplaced
<1> QED BY <1>2, <1>5, <1>6 DEF Folded

-----------------------------------------------------------------------------
(* correlate() finds only what may explain the alarm.                          *)

Explains(d, k, r, rs) ==
    \/ r \in Causes(k) /\ rs = "open" /\ Open(d, r)
    \/ r \in SupplyFaults(k) /\ rs = "hold"

LEMMA UpstreamOpen ==
    ASSUME NEW d, NEW dev \in Devices
    PROVE  /\ \A r \in UpstreamRoots(d, "power", dev) :
                 r \in PowerRoot \cap On(AllFeeders({dev})) /\ Open(d, r)
           /\ \A r \in UpstreamRoots(d, "management", dev) :
                 r \in PowerRoot \cap On(AllCarriers({dev})) /\ Open(d, r)
BY DEF UpstreamRoots, Upstream, RootsOn, On, AllFeeders, AllCarriers

LEMMA DeadOpen ==
    ASSUME NEW d, NEW dev \in Devices
    PROVE  \A r \in power_dead_root(d, dev) :
               r \in PowerRoot \cap On(AllFeeders({dev})) /\ Open(d, r)
BY UpstreamOpen DEF power_dead_root

LEMMA RecentIsSupply ==
    ASSUME NEW k \in Keys, NEW dev \in {DeviceOf[k]} \cup PeerDevices(k),
           NEW side \in Feeds[dev], NEW when, NEW r \in RecentOn(side, when)
    PROVE  r \in SupplyFaults(k)
<1>1. side \subseteq Feeders({dev}) /\ Feeders(side) \subseteq Feeders(Feeders({dev}))
  BY DEF Feeders
<1> QED BY <1>1 DEF RecentOn, On, SupplyFaults

LEMMA RestoredIsSupply ==
    ASSUME NEW k \in Keys, NEW dev \in {DeviceOf[k]} \cup PeerDevices(k)
    PROVE  restored_root(dev) \subseteq SupplyFaults(k)
<1>1. ASSUME NEW r \in restored_root(dev) PROVE r \in SupplyFaults(k)
  <2>1. PICK side \in Feeds[dev] : r \in RecentOn(side, {"hold"})
    BY <1>1 DEF restored_root
  <2> QED BY <2>1, RecentIsSupply
<1> QED BY <1>1

LEMMA RestartExplains ==
    ASSUME NEW d, NEW k \in Keys, Kind[k] = "restart", NEW e \in RestartRoot(d, DeviceOf[k])
    PROVE  Explains(d, k, e[1], e[2])
<1> DEFINE dev == DeviceOf[k]
           Cleared(side) == RecentOn(side, {"hold", "window"})
           Roots(side) == RootsOn(d, "power", side \cup Feeders(side))
           hits == [side \in Feeds[dev] |-> Cleared(side) \cup Roots(side)]
           cleared == UNION {Cleared(side) : side \in Feeds[dev]}
<1>1. \A r \in cleared : r \in SupplyFaults(k)
  BY RecentIsSupply
<1>2. CASE e \in cleared \X {"hold"}
  BY <1>1, <1>2 DEF Explains
<1>3. CASE cleared = {} /\ e \in (UNION {hits[side] : side \in Feeds[dev]}) \X {"open"}
  <2>1. PICK side \in Feeds[dev] : e[1] \in hits[side]
    BY <1>3
  <2>2. e[1] \in Roots(side)
    BY <1>3, <2>1
  <2>3. side \cup Feeders(side) \subseteq AllFeeders({dev})
    BY DEF AllFeeders, Feeders
  <2>4. e[1] \in PowerRoot \cap On(AllFeeders({dev})) /\ Open(d, e[1])
    BY <2>2, <2>3 DEF RootsOn, On
  <2> QED BY <1>3, <2>4 DEF Explains, Causes
<1> QED BY <1>2, <1>3 DEF RestartRoot

LEMMA OwnExplains ==
    ASSUME NEW d, NEW k \in Keys, NEW dev \in {DeviceOf[k]} \cup PeerDevices(k),
           dev \in Devices, NEW e \in DeadOrRestored(d, dev)
    PROVE  \/ e[1] \in PowerRoot \cap On(AllFeeders({dev})) /\ Open(d, e[1]) /\ e[2] = "open"
           \/ e[1] \in SupplyFaults(k) /\ e[2] = "hold"
BY DeadOpen, RestoredIsSupply DEF DeadOrRestored

LEMMA ExplanationsExplain ==
    ASSUME NEW d, NEW k \in Keys, NEW e \in Explanations(d, k)
    PROVE  Explains(d, k, e[1], e[2])
<1> DEFINE dev == DeviceOf[k]
           far == UNION {DeadOrRestored(d, p) : p \in PeerDevices(k)}
<1>d. dev \in Devices /\ PeerDevices(k) \subseteq Devices
  BY AlarmsAssumption DEF PeerDevices
<1>1. ASSUME Kind[k] = "flap", e \in DeadOrRestored(d, dev) PROVE Explains(d, k, e[1], e[2])
  BY <1>d, <1>1, OwnExplains DEF Explains, Causes
<1>2. ASSUME Kind[k] \in {"link", "flap"}, e \in far PROVE Explains(d, k, e[1], e[2])
  <2>1. PICK p \in PeerDevices(k) : e \in DeadOrRestored(d, p)
    BY <1>2
  <2>2. \/ e[1] \in PowerRoot \cap On(AllFeeders({p})) /\ Open(d, e[1]) /\ e[2] = "open"
        \/ e[1] \in SupplyFaults(k) /\ e[2] = "hold"
    BY <1>d, <2>1, OwnExplains
  <2>3. AllFeeders({p}) \subseteq AllFeeders(PeerDevices(k))
    BY <2>1 DEF AllFeeders, Feeders
  <2>4. On(AllFeeders({p})) \subseteq On(AllFeeders(PeerDevices(k)))
    BY <2>3 DEF On
  <2> QED BY <1>2, <2>2, <2>4 DEF Explains, Causes
<1>3. ASSUME Kind[k] = "silent", e \in restored_root(dev) \X {"hold"}
      PROVE  Explains(d, k, e[1], e[2])
  BY <1>3, RestoredIsSupply DEF Explains
<1>4. ASSUME Kind[k] = "silent", e \in UpstreamRoots(d, "management", dev) \X {"open"}
      PROVE  Explains(d, k, e[1], e[2])
  BY <1>d, <1>4, UpstreamOpen DEF Explains, Causes
<1>5. ASSUME Kind[k] = "silent", e \in power_dead_root(d, dev) \X {"open"}
      PROVE  Explains(d, k, e[1], e[2])
  BY <1>d, <1>5, DeadOpen DEF Explains, Causes
<1>6. ASSUME Kind[k] = "restart", e \in RestartRoot(d, dev)
      PROVE  Explains(d, k, e[1], e[2])
  BY <1>6, RestartExplains
<1>7. \/ Kind[k] = "restart" /\ e \in RestartRoot(d, dev)
      \/ Kind[k] = "flap" /\ (e \in DeadOrRestored(d, dev) \/ e \in far)
      \/ Kind[k] = "link" /\ e \in far
      \/ Kind[k] = "silent" /\ (\/ e \in restored_root(dev) \X {"hold"}
                                \/ e \in UpstreamRoots(d, "management", dev) \X {"open"}
                                \/ e \in power_dead_root(d, dev) \X {"open"})
  <2>1. Explanations(d, k) # {}
    OBVIOUS
  <2> HIDE DEF dev, far
  <2> QED BY <2>1 DEF Explanations, dev, far
<1> QED BY <1>1, <1>2, <1>3, <1>4, <1>5, <1>6, <1>7

LEMMA CorrelateFolds ==
    ASSUME NEW d \in Database, NEW k \in Keys
    PROVE  Folded(d, correlate(d, k))
<1>1. CASE Explanations(d, k) = {}
  BY <1>1, FoldedNone DEF correlate, ExplainedBy
<1>2. CASE Explanations(d, k) # {}
  <2> DEFINE e == CHOOSE e \in Explanations(d, k) : TRUE
  <2>1. e \in Explanations(d, k)
    BY <1>2
  <2>2. correlate(d, k) = mark_symptom(d, k, e[1], e[2])
    BY <1>2 DEF correlate, ExplainedBy
  <2> HIDE DEF e
  <2>3. Explains(d, k, e[1], e[2])
    BY <2>1, ExplanationsExplain
  <2> QED BY <2>2, <2>3, MarkFolds DEF Explains
<1> QED BY <1>1, <1>2

-----------------------------------------------------------------------------
(* Adoption and the collapsing of bands fold.                                  *)

LEMMA OrphanCause ==
    ASSUME NEW d, NEW x \in Devices, NEW o \in Orphans(d, x), NEW r \in power_dead_root(d, x)
    PROVE  r \in Causes(o) /\ Open(d, r)
<1>1. r \in PowerRoot \cap On(AllFeeders({x})) /\ Open(d, r)
  BY DeadOpen
<1>2. o \in Keys /\ \/ Kind[o] = "silent" /\ DeviceOf[o] = x
                    \/ Kind[o] = "link" /\ x \in PeerDevices(o)
  BY DEF Orphans
<1>3. x \in PeerDevices(o) => PeerDevices(o) = {x}
  BY DEF PeerDevices
<1> QED BY <1>1, <1>2, <1>3 DEF Causes

LEMMA AdoptFolds ==
    ASSUME NEW d \in Database, NEW trips
    PROVE  Folded(d, adopt_orphans(d, trips))
<1> DEFINE dark == DarkLoads(d, trips)
           orphans == UNION {Orphans(d, x) : x \in dark}
           Root == [o \in orphans |-> RootFor(d, o, dark)]
           e == adopt_orphans(d, trips)
<1>1. dark \subseteq Devices
  BY DEF DarkLoads, Downstream
<1>2. \A x \in dark : power_dead_root(d, x) # {}
  BY DEF DarkLoads
<1>3. orphans \subseteq Keys
  BY DEF Orphans
<1>4. e = [d EXCEPT !.row = [o \in Keys |-> IF o \in orphans
                    THEN [@[o] EXCEPT !.root = RootFor(d, o, dark), !.rs = "open"] ELSE @[o]]]
  BY DEF adopt_orphans
<1> HIDE DEF dark, e
<1>5. ASSUME NEW o \in orphans
      PROVE  RootFor(d, o, dark) \in Causes(o) /\ Open(d, RootFor(d, o, dark))
  <2> DEFINE xs == {x \in dark : o \in Orphans(d, x)}
             roots == UNION {power_dead_root(d, x) : x \in xs}
  <2>1. RootFor(d, o, dark) = CHOOSE r \in roots : TRUE
    BY DEF RootFor
  <2>2. roots # {}
    BY <1>2
  <2>3. RootFor(d, o, dark) \in roots
    BY <2>1, <2>2
  <2>4. PICK x \in xs : RootFor(d, o, dark) \in power_dead_root(d, x)
    BY <2>3
  <2> QED BY <1>1, <2>4, OrphanCause
<1>6. Root \in [orphans -> Keys] /\ \A o \in orphans : Root[o] = RootFor(d, o, dark)
  BY <1>3, <1>5, CausesAreKeys
<1> HIDE DEF Root, orphans
<1>7. e = [d EXCEPT !.row = [o \in Keys |-> IF o \in orphans
                    THEN [@[o] EXCEPT !.root = Root[o], !.rs = "open"] ELSE @[o]]]
  BY <1>4, <1>6
<1>8. orphans \in SUBSET Keys /\ \A o \in orphans : Root[o] \in Causes(o) /\ Open(d, Root[o])
  BY <1>3, <1>5, <1>6
<1> QED BY <1>6, <1>7, <1>8, RowsFold DEF e

LEMMA FoldFolds ==
    ASSUME NEW d \in Database, NEW ks \in SUBSET Keys, NEW r \in Keys, Open(d, r),
           \A k \in ks : r \in Causes(k)
    PROVE  Folded(d, Fold(d, ks, r))
<1> DEFINE Root == [k \in ks |-> r]
           e == Fold(d, ks, r)
<1>1. Root \in [ks -> Keys] /\ \A k \in ks : Root[k] = r
  OBVIOUS
<1>2. e = [d EXCEPT !.row = [k \in Keys |-> IF k \in ks
                 THEN [@[k] EXCEPT !.root = r, !.rs = "open"] ELSE @[k]]]
  BY DEF Fold
<1> HIDE DEF Root, e
<1>3. e = [d EXCEPT !.row = [k \in Keys |-> IF k \in ks
                 THEN [@[k] EXCEPT !.root = Root[k], !.rs = "open"] ELSE @[k]]]
  BY <1>1, <1>2
<1>4. \A k \in ks : Root[k] \in Causes(k) /\ Open(d, Root[k])
  BY <1>1
<1> QED BY <1>1, <1>3, <1>4, RowsFold DEF e

LEMMA WorstExists ==
    ASSUME NEW d \in Database, NEW ps \in SUBSET Keys, ps # {}
    PROVE  \E p \in ps : \A q \in ps : d.row[p].sev >= d.row[q].sev
<1>1. \A p \in ps : d.row[p].sev \in 0..3
  BY DEF Database, Row, Top
<1>2. CASE \E p \in ps : d.row[p].sev = 3
  BY <1>1, <1>2
<1>3. CASE /\ ~ \E p \in ps : d.row[p].sev = 3
           /\ \E p \in ps : d.row[p].sev = 2
  <2>1. \A p \in ps : d.row[p].sev \in 0..2
    BY <1>1, <1>3
  <2> QED BY <1>3, <2>1
<1>4. CASE /\ ~ \E p \in ps : d.row[p].sev \in 2..3
           /\ \E p \in ps : d.row[p].sev = 1
  <2>1. \A p \in ps : d.row[p].sev \in 0..1
    BY <1>1, <1>4
  <2> QED BY <1>4, <2>1
<1>5. CASE ~ \E p \in ps : d.row[p].sev \in 1..3
  <2>1. \A p \in ps : d.row[p].sev = 0
    BY <1>1, <1>5
  <2> QED BY <2>1
<1> QED BY <1>1, <1>2, <1>3, <1>4, <1>5

LEMMA UnqualifiedFolds ==
    ASSUME NEW d \in Database, NEW k \in Keys, Open(d, k)
    PROVE  Folded(d, CollapseUnqualified(d, k))
<1> DEFINE ps == Standing(d, Parts[k])
           us == Standing(d, {u \in Keys : k \in Parts[u]})
           p == CHOOSE p \in ps : \A q \in ps : d.row[p].sev >= d.row[q].sev
<1>0. ps \in SUBSET Keys /\ ps \subseteq Parts[k] /\ (\A q \in ps : Open(d, q))
      /\ us \in SUBSET Keys /\ (\A u \in us : k \in Parts[u])
  BY AlarmsAssumption DEF Standing
<1>1. CASE Parts[k] = {}
  <2>1. \A u \in us : k \in Causes(u)
    BY <1>0 DEF Causes
  <2>2. CollapseUnqualified(d, k) = Fold(d, us, k)
    BY <1>1 DEF CollapseUnqualified
  <2> HIDE DEF us
  <2> QED BY <1>0, <2>1, <2>2, FoldFolds
<1>2. CASE Parts[k] # {} /\ ps = {}
  BY <1>2, FoldedNone DEF CollapseUnqualified
<1>3. CASE Parts[k] # {} /\ ps # {}
  <2>1. CollapseUnqualified(d, k) = mark_symptom(d, k, p, "open")
    BY <1>3 DEF CollapseUnqualified
  <2> HIDE DEF ps
  <2>2. \E x \in ps : \A q \in ps : d.row[x].sev >= d.row[q].sev
    BY <1>0, <1>3, WorstExists
  <2>3. p \in ps
    BY <2>2
  <2> HIDE DEF p
  <2>4. p \in Causes(k) /\ Open(d, p)
    BY <1>0, <2>3 DEF Causes
  <2> QED BY <2>1, <2>4, MarkFolds
<1> QED BY <1>1, <1>2, <1>3

LEMMA BandsFold ==
    ASSUME NEW d \in Database, NEW k \in Keys, Open(d, k)
    PROVE  Folded(d, CollapseBands(d, k))
<1> DEFINE above == Standing(d, Higher[k])
           below == {l \in Keys : k \in Higher[l] /\ Open(d, l)}
           h == CHOOSE h \in above : above \cap Higher[h] = {}
<1>0. above \in SUBSET Keys /\ above \subseteq Higher[k] /\ \A x \in above : Open(d, x)
  BY AlarmsAssumption DEF Standing
<1>1. CASE above # {}
  <2>1. CollapseBands(d, k) = mark_symptom(d, k, h, "open")
    BY <1>1 DEF CollapseBands
  <2> HIDE DEF above
  <2>2. above \in (SUBSET Keys) \ {{}}
    BY <1>0, <1>1
  <2>3. PICK x \in above : Higher[x] \cap above = {}
    BY <2>2, AlarmsAssumption
  <2>4. above \cap Higher[x] = {}
    BY <2>3
  <2>5. h \in above
    BY <2>4
  <2> HIDE DEF h
  <2>6. h \in Causes(k) /\ Open(d, h)
    BY <1>0, <2>5 DEF Causes
  <2> QED BY <2>1, <2>6, MarkFolds
<1>2. CASE above = {}
  <2> DEFINE f == Fold(d, below, k)
  <2>1. CollapseBands(d, k) = CollapseUnqualified(f, k)
    BY <1>2 DEF CollapseBands
  <2>2. below \in SUBSET Keys /\ \A l \in below : k \in Causes(l)
    BY DEF Causes
  <2> HIDE DEF below
  <2>3. Folded(d, f)
    BY <2>2, FoldFolds
  <2> HIDE DEF f
  <2>4. f \in Database /\ Open(f, k)
    BY <2>3, OpenStays DEF Folded
  <2>5. Folded(f, CollapseUnqualified(f, k))
    BY <2>4, UnqualifiedFolds
  <2> QED BY <2>1, <2>3, <2>4, <2>5, FoldedTwice
<1> QED BY <1>1, <1>2

-----------------------------------------------------------------------------
(* What raising, folding and clearing do to each row.                          *)

\* A raise: the row is new, or only its severity is.
ShelfOK(d, k, row) ==
    /\ row.win # None <=> row.why = "maintenance_window"
    /\ row.win # None => row.win \in Windows /\ d.win[row.win] = "active"
    /\ row.why = "not_commissioned" => d.life[DeviceOf[k]] = "installed"
RaiseStep(d, k, r, q) ==
    /\ q.st # "CLEARED"
    /\ Open(d, k) => /\ q.st = r.st /\ q.win = r.win /\ q.why = r.why
                     /\ q.root = r.root /\ q.rs = r.rs
    /\ ~ Open(d, k) =>
          /\ ShelfOK(d, k, q)
          /\ \/ q.root = None /\ q.rs = "none"
             \/ q.root \in SupplyFaults(k) /\ q.rs = "hold"

LEMMA NewRowOK ==
    ASSUME NEW d \in Database, NEW k \in Keys, NEW rep \in [sev : 0..Top, src : Detectors]
    PROVE  LET q == NewRow(d, k, rep) IN
           /\ q \in Row /\ q.st = "ACTIVE" /\ q.root = None /\ q.rs = "none" /\ ShelfOK(d, k, q)
<1> DEFINE ws == Suppressing(d, DeviceOf[k])
           win == IF ws # {} THEN CHOOSE w \in ws : TRUE ELSE None
           why == CASE ws # {} -> "maintenance_window"
                    [] ws = {} /\ d.life[DeviceOf[k]] = "installed" -> "not_commissioned"
                    [] OTHER -> None
           q == NewRow(d, k, rep)
<1>1. ws \subseteq Windows /\ \A w \in ws : d.win[w] = "active"
  BY DEF Suppressing
<1>2. q = [Blank EXCEPT !.st = "ACTIVE", !.sev = rep.sev, !.src = rep.src, !.by = rep.src,
                        !.win = win, !.why = why]
  BY DEF NewRow
<1> HIDE DEF ws, q
<1>3. ws # {} => win \in ws
  OBVIOUS
<1>4. /\ win # None <=> ws # {}
      /\ win # None => win \in Windows /\ d.win[win] = "active"
  BY <1>1, <1>3, AlarmsAssumption
<1>5. /\ why \in {None, "maintenance_window", "not_commissioned"}
      /\ why = "maintenance_window" <=> ws # {}
      /\ why = "not_commissioned" => d.life[DeviceOf[k]] = "installed"
  BY AlarmsAssumption
<1> HIDE DEF win, why
<1>6. /\ q.st = "ACTIVE" /\ q.root = None /\ q.rs = "none" /\ q.win = win /\ q.why = why
      /\ q.sev = rep.sev /\ q.src = rep.src /\ q.by = rep.src
      /\ q = [st |-> "ACTIVE", sev |-> rep.sev, src |-> rep.src, by |-> rep.src,
              root |-> None, rs |-> "none", win |-> win, why |-> why]
  BY <1>2 DEF Blank
<1>7. rep.sev \in 0..Top /\ rep.src \in Detectors /\ win \in Windows \cup {None}
  BY <1>4
<1>8. q \in Row
  BY <1>5, <1>6, <1>7 DEF Row
<1>9. ShelfOK(d, k, q)
  BY <1>4, <1>5, <1>6 DEF ShelfOK
<1> QED BY <1>6, <1>8, <1>9 DEF q

LEMMA RaisedRow ==
    ASSUME NEW d \in Database, NEW k \in Keys, NEW rep \in [sev : 0..Top, src : Detectors]
    PROVE  LET q == RowRaised(d, k, rep) IN
           /\ q \in Row /\ RaiseStep(d, k, d.row[k], q)
           /\ ~ Open(d, k) => q.root = None
<1>1. d.row[k] \in Row /\ rep.sev \in 0..Top /\ rep.src \in Detectors
  BY RowOf
<1>2. CASE Open(d, k)
  <2> DEFINE r == d.row[k]
  <2>1. \/ RowRaised(d, k, rep) = r
        \/ RowRaised(d, k, rep) = [r EXCEPT !.sev = rep.sev, !.by = rep.src]
    BY <1>2 DEF RowRaised, Touched
  <2>2. r \in Row /\ r.st # "CLEARED"
    BY <1>1, <1>2 DEF Open
  <2> HIDE DEF r
  <2>3. PICK q : q = RowRaised(d, k, rep)
    OBVIOUS
  <2>4. /\ q \in Row /\ q.st = r.st /\ q.win = r.win /\ q.why = r.why
        /\ q.root = r.root /\ q.rs = r.rs
    BY <1>1, <2>1, <2>2, <2>3 DEF Row
  <2> QED BY <1>2, <2>2, <2>3, <2>4 DEF RaiseStep, r
<1>3. CASE ~ Open(d, k)
  <2>1. PICK q : q = NewRow(d, k, rep)
    OBVIOUS
  <2>2. RowRaised(d, k, rep) = q
    BY <1>3, <2>1 DEF RowRaised
  <2>3. q \in Row /\ q.st = "ACTIVE" /\ q.root = None /\ q.rs = "none" /\ ShelfOK(d, k, q)
    BY <2>1, NewRowOK
  <2> QED BY <1>3, <2>2, <2>3 DEF RaiseStep
<1> QED BY <1>2, <1>3

\* d becomes e by raising alarms.
Raised(d, e) ==
    /\ e \in Database /\ SameRest(d, e)
    /\ \A k \in Keys : e.row[k] = d.row[k] \/ RaiseStep(d, k, d.row[k], e.row[k])

LEMMA RaiseRaises ==
    ASSUME NEW d \in Database, NEW k \in Keys, NEW rep \in [sev : 0..Top, src : Detectors],
           NEW e, e = raise_alarm(d, k, rep)
    PROVE  /\ Raised(d, e) /\ Open(e, k) /\ \A o \in Keys \ {k} : e.row[o] = d.row[o]
           /\ e.row[k].root \in {None, d.row[k].root}
<1>1. PICK q : q = RowRaised(d, k, rep)
  OBVIOUS
<1>2. q \in Row /\ RaiseStep(d, k, d.row[k], q) /\ (~ Open(d, k) => q.root = None)
  BY <1>1, RaisedRow
<1>3. PICK rows : rows = [d.row EXCEPT ![k] = q]
  OBVIOUS
<1>4. rows \in [Keys -> Row] /\ rows[k] = q /\ \A o \in Keys \ {k} : rows[o] = d.row[o]
  BY <1>2, <1>3 DEF Database
<1>5. e = [d EXCEPT !.row = rows]
  BY <1>1, <1>3 DEF raise_alarm, Database
<1>6. e \in Database /\ e.row = rows /\ SameRest(d, e)
  BY <1>4, <1>5, RowsReplaced
<1>7. Raised(d, e)
  BY <1>2, <1>4, <1>6 DEF Raised
<1> QED BY <1>2, <1>4, <1>6, <1>7 DEF Open, RaiseStep

LEMMA StaleRaises ==
    ASSUME NEW d \in Database, NEW ks \in SUBSET Keys, NEW e, e = StaleRaised(d, ks)
    PROVE  /\ Raised(d, e) /\ \A o \in Keys \ ks : e.row[o] = d.row[o]
<1> DEFINE rep == [sev |-> 1, src |-> "staleness"]
           q(k) == IF k \in ks THEN StaleRow(d, k) ELSE d.row[k]
           rows == [k \in Keys |-> q(k)]
<1>1. rep \in [sev : 0..Top, src : Detectors]
  BY DEF Top, Detectors
<1>2. ASSUME NEW k \in ks PROVE StaleRow(d, k) \in Row /\ RaiseStep(d, k, d.row[k], StaleRow(d, k))
  <2> DEFINE r == RowRaised(d, k, rep)
             root == CHOOSE o \in restored_root(DeviceOf[k]) : TRUE
  <2>1. r \in Row /\ RaiseStep(d, k, d.row[k], r)
    BY <1>1, RaisedRow
  <2>2. CASE Open(d, k) \/ restored_root(DeviceOf[k]) = {}
    BY <2>1, <2>2 DEF StaleRow
  <2>3. CASE ~ Open(d, k) /\ restored_root(DeviceOf[k]) # {}
    <3>1. StaleRow(d, k) = [r EXCEPT !.root = root, !.rs = "hold"]
      BY <2>3 DEF StaleRow
    <3>2. root \in SupplyFaults(k) /\ root \in Keys
      BY <2>3, RestoredIsSupply, FaultsAreKeys
    <3> HIDE DEF r, root
    <3>3. PICK x : x = StaleRow(d, k)
      OBVIOUS
    <3>4. /\ x \in Row /\ x.st = r.st /\ x.win = r.win /\ x.why = r.why
          /\ x.root = root /\ x.rs = "hold"
      BY <2>1, <3>1, <3>2, <3>3 DEF Row
    <3>5. ShelfOK(d, k, x)
      BY <2>1, <2>3, <3>4 DEF RaiseStep, ShelfOK
    <3> QED BY <2>1, <2>3, <3>2, <3>3, <3>4, <3>5 DEF RaiseStep
  <2> QED BY <2>2, <2>3
<1>3. e = [d EXCEPT !.row = rows]
  BY DEF StaleRaised, Database
<1>4. \A k \in Keys : q(k) \in Row
  BY <1>2 DEF Database
<1> HIDE DEF q
<1>5. rows \in [Keys -> Row] /\ \A k \in Keys : rows[k] = q(k)
  BY <1>4
<1> HIDE DEF rows
<1>6. e \in Database /\ e.row = rows /\ SameRest(d, e)
  BY <1>3, <1>5, RowsReplaced
<1> QED BY <1>2, <1>5, <1>6 DEF Raised, q

-----------------------------------------------------------------------------
(* The invariant of the fold: a symptom's root is open, or is a fault of its    *)
(* supply that has cleared; over layered cabling the root may explain it, and   *)
(* no two ends of a cable explain each other.  In a transaction, a breaker that was open when it began may have    *)
(* been closed: Commit starts the hold of what is under it.                    *)

RootOK(d, were, k, row) ==
    /\ row.rs = "open" =>
          /\ row.root \in Keys
          /\ Open(d, row.root) \/ (Held(row.root) /\ row.root \in were)
          /\ Layered => row.root \in Causes(k) \cup OtherEnd(k)
    /\ row.rs \in {"hold", "past"} => row.root \in SupplyFaults(k)
    /\ row.rs = "none" => row.root = None
    /\ Layered => \A p \in OtherEnd(k) : row.root = p => d.row[p].root # k
FoldOK(d, were) == \A k \in Keys : RootOK(d, were, k, d.row[k])
ShelvedOK(d) == \A k \in Keys : Open(d, k) => ShelfOK(d, k, d.row[k])

LEMMA EndsAreKeys == \A k \in Keys : OtherEnd(k) \subseteq Keys
BY AlarmsAssumption DEF OtherEnd

LEMMA OtherEnds ==
    ASSUME Layered, NEW k \in Keys, NEW p \in OtherEnd(k)
    PROVE  /\ p \in Keys /\ p # k /\ OtherEnd(p) = {k} /\ OtherEnd(k) = {p}
           /\ p \notin Causes(k) /\ k \notin Causes(p)
           /\ p \notin PowerRoot /\ k \notin PowerRoot
<1>1. Kind[k] = "link" /\ p = Peer[k] /\ p # None /\ p \in Keys
  BY AlarmsAssumption DEF OtherEnd
<1>2. p # k /\ Kind[p] = "link" /\ Peer[p] = k
  BY DEF Layered, Cabled
<1>3. k # None
  BY AlarmsAssumption
<1>4. OtherEnd(p) = {k} /\ OtherEnd(k) = {p}
  BY <1>1, <1>2, <1>3 DEF OtherEnd
<1>5. p \notin Causes(k) /\ k \notin Causes(p)
  <2> DEFINE S == {k, p}
  <2>1. S \in (SUBSET Keys) \ {{}}
    BY <1>1
  <2>2. PICK y \in S : \A x \in {y} \cup OtherEnd(y) : S \cap Causes(x) = {}
    BY <2>1 DEF Layered, NoLoop
  <2>3. S \subseteq {y} \cup OtherEnd(y)
    BY <1>4, <2>2
  <2> QED BY <2>2, <2>3
<1> QED BY <1>1, <1>2, <1>4, <1>5 DEF PowerRoot

\* Raising and folding: no row is closed, and roots change as they may.
Refolded(d, e) ==
    /\ \A k \in Keys : Open(d, k) => Open(e, k)
    /\ \A k \in Keys : \/ e.row[k].root = d.row[k].root /\ e.row[k].rs = d.row[k].rs
                       \/ e.row[k].root = None /\ e.row[k].rs = "none"
                       \/ /\ e.row[k].root \in Causes(k) /\ e.row[k].rs = "open"
                          /\ Open(e, e.row[k].root)
                       \/ e.row[k].root \in SupplyFaults(k) /\ e.row[k].rs = "hold"

LEMMA FoldedRefolds == ASSUME NEW d \in Database, NEW e, Folded(d, e) PROVE Refolded(d, e)
BY OpenStays, CausesAreKeys DEF Folded, Refolded, FoldStep

LEMMA RaisedRefolds == ASSUME NEW d \in Database, NEW e, Raised(d, e) PROVE Refolded(d, e)
BY DEF Raised, RaiseStep, Refolded, Open

LEMMA RefoldedKeeps ==
    ASSUME NEW d \in Database, NEW e \in Database, NEW were, FoldOK(d, were), Refolded(d, e)
    PROVE  FoldOK(e, were)
<1> SUFFICES ASSUME NEW k \in Keys PROVE RootOK(e, were, k, e.row[k])
  BY DEF FoldOK
<1> DEFINE r == d.row[k]  q == e.row[k]
<1>1. RootOK(d, were, k, r)
  BY DEF FoldOK
<1>2. Causes(k) \subseteq Keys /\ OtherEnd(k) \subseteq Keys
  BY CausesAreKeys, EndsAreKeys
<1>3. /\ q.rs = "open" => /\ q.root \in Keys
                          /\ Layered => q.root \in Causes(k) \cup OtherEnd(k)
                          /\ Open(e, q.root) \/ (Held(q.root) /\ q.root \in were)
      /\ q.rs \in {"hold", "past"} => q.root \in SupplyFaults(k)
      /\ q.rs = "none" => q.root = None
  BY <1>1, <1>2 DEF RootOK, Refolded
<1>4. ASSUME Layered, NEW p \in OtherEnd(k), q.root = p PROVE e.row[p].root # k
  <2>1. /\ p \in Keys /\ OtherEnd(p) = {k} /\ p \notin Causes(k) /\ k \notin Causes(p)
        /\ p \notin PowerRoot /\ k \notin PowerRoot /\ p # None /\ k # None
    BY <1>4, OtherEnds, AlarmsAssumption
  <2>2. d.row[k].root = p
    BY <1>4, <2>1, FaultsAreKeys DEF Refolded
  <2>3. d.row[p].root # k
    BY <1>1, <1>4, <2>2 DEF RootOK
  <2> QED BY <2>1, <2>3, FaultsAreKeys DEF Refolded
<1> HIDE DEF r, q
<1> QED BY <1>3, <1>4 DEF RootOK, q

\* The end of a cable, and the other end as its root.
LEMMA EndFolded ==
    ASSUME NEW d \in Database, NEW were, FoldOK(d, were), NEW k \in Keys, NEW p \in Keys,
           Open(d, p), Layered => p \in OtherEnd(k) /\ d.row[p].root # k,
           NEW e, e = mark_symptom(d, k, p, "open")
    PROVE  FoldOK(e, were)
<1>1. Layered => p # k /\ OtherEnd(p) = {k} /\ OtherEnd(k) = {p}
  BY OtherEnds
<1>2. /\ e \in Database /\ SameRest(d, e)
      /\ \A o \in Keys : SameButFold(d.row[o], e.row[o])
      /\ \A o \in Keys \ {k} : e.row[o] = d.row[o]
      /\ e.row[k].root = p /\ e.row[k].rs = "open"
  BY Marking
<1>3. \A o \in Keys : Open(e, o) <=> Open(d, o)
  BY <1>2 DEF SameButFold, Open
<1>4. RootOK(e, were, k, e.row[k])
  BY <1>1, <1>2, <1>3 DEF RootOK
<1>5. ASSUME NEW o \in Keys \ {k} PROVE RootOK(e, were, o, e.row[o])
  <2>1. RootOK(d, were, o, d.row[o]) /\ e.row[o] = d.row[o]
    BY <1>2 DEF FoldOK
  <2>2. Causes(o) \subseteq Keys /\ OtherEnd(o) \subseteq Keys
    BY CausesAreKeys, EndsAreKeys
  <2>3. ASSUME Layered, NEW x \in OtherEnd(o), e.row[o].root = x PROVE e.row[x].root # o
    <3>1. x \in Keys /\ d.row[x].root # o
      BY <2>1, <2>2, <2>3 DEF RootOK
    <3>2. CASE x = k
      <4>1. o = p
        BY <1>1, <2>3, <3>2, OtherEnds
      <4> QED BY <1>1, <1>2, <2>1, <2>3, <3>2, <4>1
    <3>3. CASE x # k
      BY <1>2, <3>1, <3>3
    <3> QED BY <3>2, <3>3
  <2> QED BY <1>3, <2>1, <2>2, <2>3 DEF RootOK
<1> QED BY <1>4, <1>5 DEF FoldOK

\* Which end is the root.
LEMMA PairKeeps ==
    ASSUME NEW c \in Database, NEW d \in Database, NEW were,
           FoldOK(c, were), FoldOK(d, were), NEW k \in Keys, NEW p \in OtherEnd(k),
           Open(d, k), Open(d, p), Refolded(c, d),
           NEW peerFirst \in PeerMayBeFirst(c, k)
    PROVE  FoldOK(PairEnds(d, k, peerFirst), were)
<1>0. /\ Peer[k] = p /\ p \in Keys /\ p # None /\ k # None
      /\ SupplyFaults(k) \subseteq PowerRoot /\ SupplyFaults(p) \subseteq PowerRoot
  BY EndsAreKeys, FaultsAreKeys, AlarmsAssumption DEF OtherEnd
<1>1. Layered => /\ p # k /\ OtherEnd(p) = {k} /\ OtherEnd(k) = {p}
                 /\ p \notin Causes(k) /\ k \notin Causes(p)
                 /\ p \notin PowerRoot /\ k \notin PowerRoot
  BY OtherEnds
<1>2. ASSUME peerFirst PROVE FoldOK(PairEnds(d, k, peerFirst), were)
  <2>1. Layered => c.row[p].root # k
    BY <1>0, <1>1, <1>2 DEF PeerMayBeFirst
  <2>2. Layered => d.row[p].root # k
    BY <1>0, <1>1, <2>1 DEF Refolded
  <2>3. PairEnds(d, k, peerFirst) = mark_symptom(d, k, p, "open")
    BY <1>0, <1>2 DEF PairEnds
  <2> QED BY <1>0, <2>2, <2>3, EndFolded
<1>3. ASSUME ~ peerFirst PROVE FoldOK(PairEnds(d, k, peerFirst), were)
  <2>1. RootOK(c, were, p, c.row[p])
    BY <1>0 DEF FoldOK
  <2>2. Layered => c.row[k].root # p
    BY <1>0, <1>1, <1>3, <2>1 DEF PeerMayBeFirst, RootOK
  <2>3. Layered => k \in OtherEnd(p) /\ d.row[k].root # p
    BY <1>0, <1>1, <2>2 DEF Refolded
  <2>4. PairEnds(d, k, peerFirst) = mark_symptom(d, p, k, "open")
    BY <1>0, <1>3 DEF PairEnds
  <2> QED BY <1>0, <2>3, <2>4, EndFolded
<1>4. peerFirst \in BOOLEAN
  BY DEF PeerMayBeFirst
<1> QED BY <1>2, <1>3, <1>4

-----------------------------------------------------------------------------
(* Clearing, and the release after the hold.                                   *)

Cleared(d, e, gone) ==
    /\ e \in Database /\ SameRest(d, e)
    /\ \A k \in gone : e.row[k] = Blank
    /\ \A k \in Keys \ gone :
          /\ SameButFold(d.row[k], e.row[k])
          /\ \/ e.row[k].root = d.row[k].root /\ e.row[k].rs = d.row[k].rs
             \/ e.row[k].root = None /\ e.row[k].rs = "none"
          /\ e.row[k].rs = "open" => \A r \in gone : e.row[k].root = r => Held(r)

LEMMA ClearAllClears ==
    ASSUME NEW d \in Database, NEW ks \in SUBSET Keys, NEW gone, gone = {k \in ks : Open(d, k)},
           NEW e, e = ClearAll(d, ks)
    PROVE  Cleared(d, e, gone)
<1> DEFINE q(k) == IF k \in gone THEN Blank ELSE release_symptoms(d.row[k], gone)
           rows == [k \in Keys |-> q(k)]
<1>1. d.row \in [Keys -> Row] /\ gone \subseteq Keys
  BY DEF Database
<1>2. ASSUME NEW k \in Keys \ gone
      PROVE  /\ q(k) \in Row /\ SameButFold(d.row[k], q(k))
             /\ \/ q(k).root = d.row[k].root /\ q(k).rs = d.row[k].rs
                \/ q(k).root = None /\ q(k).rs = "none"
             /\ q(k).rs = "open" => \A r \in gone : q(k).root = r => Held(r)
  <2> DEFINE row == d.row[k]
  <2>1. row \in Row
    BY <1>1
  <2>2. CASE row.rs = "open" /\ \E r \in gone : row.root = r /\ ~ Held(r)
    <3>1. q(k) = [row EXCEPT !.root = None, !.rs = "none"]
      BY <2>2 DEF release_symptoms
    <3> HIDE DEF q, row
    <3>2. q(k) \in Row /\ SameButFold(row, q(k)) /\ q(k).root = None /\ q(k).rs = "none"
      BY <2>1, <3>1 DEF Row, SameButFold
    <3> QED BY <3>2 DEF row
  <2>3. CASE ~ (row.rs = "open" /\ \E r \in gone : row.root = r /\ ~ Held(r))
    <3>1. q(k) = row
      BY <2>3 DEF release_symptoms
    <3> HIDE DEF q
    <3> QED BY <2>1, <2>3, <3>1 DEF SameButFold
  <2> QED BY <2>2, <2>3
<1>3. e = [d EXCEPT !.row = rows]
  BY DEF ClearAll, Database
<1>4. \A k \in gone : q(k) = Blank
  OBVIOUS
<1> HIDE DEF q
<1>5. rows \in [Keys -> Row] /\ \A k \in Keys : rows[k] = q(k)
  BY <1>2, <1>4, BlankIsARow
<1> HIDE DEF rows
<1>6. e \in Database /\ e.row = rows /\ SameRest(d, e)
  BY <1>3, <1>5, RowsReplaced
<1>7. \A k \in gone : e.row[k] = Blank
  BY <1>1, <1>4, <1>5, <1>6
<1>8. ASSUME NEW k \in Keys \ gone
      PROVE  /\ SameButFold(d.row[k], e.row[k])
             /\ \/ e.row[k].root = d.row[k].root /\ e.row[k].rs = d.row[k].rs
                \/ e.row[k].root = None /\ e.row[k].rs = "none"
             /\ e.row[k].rs = "open" => \A r \in gone : e.row[k].root = r => Held(r)
  BY <1>2, <1>5, <1>6
<1> QED BY <1>6, <1>7, <1>8 DEF Cleared

\* A closed row that explained others was a breaker's, and open before.
LEMMA ClearKeeps ==
    ASSUME NEW d \in Database, NEW e, NEW gone \in SUBSET Keys, Cleared(d, e, gone),
           NEW were, FoldOK(d, were), \A r \in gone : Held(r) => r \in were
    PROVE  FoldOK(e, were)
<1> SUFFICES ASSUME NEW k \in Keys PROVE RootOK(e, were, k, e.row[k])
  BY DEF FoldOK
<1>1. RootOK(d, were, k, d.row[k])
  BY DEF FoldOK
<1>2. OtherEnd(k) \subseteq Keys /\ None \notin Keys
  BY EndsAreKeys, AlarmsAssumption
<1>3. Blank.rs = "none" /\ Blank.root = None
  BY DEF Blank
<1>4. \A o \in Keys \ gone : Open(d, o) => Open(e, o)
  BY DEF Cleared, SameButFold, Open
<1>5. ASSUME Layered, NEW p \in OtherEnd(k), e.row[k].root = p PROVE e.row[p].root # k
  <2>1. p \in Keys /\ k \notin gone
    BY <1>2, <1>3, <1>5 DEF Cleared
  <2>2. d.row[k].root = p
    BY <1>2, <1>5, <2>1 DEF Cleared
  <2>3. d.row[p].root # k
    BY <1>1, <1>5, <2>2 DEF RootOK
  <2>4. e.row[p].root \in {None, d.row[p].root}
    BY <1>3, <2>1 DEF Cleared
  <2> QED BY <1>2, <2>3, <2>4
<1>6. CASE k \in gone
  <2>1. e.row[k] = Blank
    BY <1>6 DEF Cleared
  <2> QED BY <1>3, <1>5, <2>1 DEF RootOK
<1>7. CASE k \notin gone
  <2> DEFINE r == d.row[k]  q == e.row[k]
  <2>1. /\ \/ q.root = r.root /\ q.rs = r.rs
           \/ q.root = None /\ q.rs = "none"
        /\ q.rs = "open" => \A x \in gone : q.root = x => Held(x)
    BY <1>7 DEF Cleared
  <2>2. /\ r.rs = "open" => /\ r.root \in Keys
                            /\ Layered => r.root \in Causes(k) \cup OtherEnd(k)
                            /\ Open(d, r.root) \/ (Held(r.root) /\ r.root \in were)
        /\ r.rs \in {"hold", "past"} => r.root \in SupplyFaults(k)
        /\ r.rs = "none" => r.root = None
    BY <1>1 DEF RootOK
  <2> HIDE DEF r, q
  <2>3. CASE q.rs = "open"
    <3>1. q.root = r.root /\ r.rs = "open" /\ q.root \in Keys
      BY <1>2, <2>1, <2>2, <2>3
    <3>2. Open(e, q.root) \/ (Held(q.root) /\ q.root \in were)
      BY <1>4, <2>1, <2>2, <2>3, <3>1
    <3> QED BY <1>5, <2>2, <2>3, <3>1, <3>2 DEF RootOK, q
  <2>4. CASE q.rs # "open"
    BY <1>5, <2>1, <2>2, <2>4 DEF RootOK, q
  <2> QED BY <2>3, <2>4
<1> QED BY <1>6, <1>7

LEMMA ReleaseFolds ==
    ASSUME NEW d \in Database
    PROVE  Folded(d, release_after_hold(d))
<1> DEFINE freed(k) == /\ d.row[k].root # None /\ d.row[k].rs = "past" /\ Held(d.row[k].root)
                       /\ Kind[k] # "restart"
           q(k) == IF freed(k) THEN [d.row[k] EXCEPT !.root = None, !.rs = "none"] ELSE d.row[k]
           rows == [k \in Keys |-> q(k)]
           e == release_after_hold(d)
<1>1. e = [d EXCEPT !.row = rows]
  BY DEF release_after_hold, Database
<1> HIDE DEF e
<1>2. ASSUME NEW k \in Keys
      PROVE  q(k) \in Row /\ SameButFold(d.row[k], q(k)) /\ FoldStep(d, k, d.row[k], q(k))
  <2> DEFINE r == d.row[k]
  <2>1. r \in Row
    BY DEF Database
  <2>2. q(k) = r \/ q(k) = [r EXCEPT !.root = None, !.rs = "none"]
    OBVIOUS
  <2> HIDE DEF q, r
  <2>3. PICK x : x = q(k)
    OBVIOUS
  <2>4. \/ x = r
        \/ x \in Row /\ SameButFold(r, x) /\ x.root = None /\ x.rs = "none"
    BY <2>1, <2>2, <2>3 DEF Row, SameButFold
  <2> QED BY <2>1, <2>3, <2>4 DEF FoldStep, SameButFold, r
<1> HIDE DEF q
<1>3. rows \in [Keys -> Row] /\ \A k \in Keys : rows[k] = q(k)
  BY <1>2
<1> HIDE DEF rows
<1>4. e \in Database /\ e.row = rows /\ SameRest(d, e)
  BY <1>1, <1>3, RowsReplaced
<1> QED BY <1>2, <1>3, <1>4 DEF Folded, e

-----------------------------------------------------------------------------
(* Shelving and the roll-up depend on part of a row only.                      *)

Visible(r) == r.st # "CLEARED" /\ r.why = None
SameShown(r, q) == (Visible(r) <=> Visible(q)) /\ (Visible(r) => r.sev = q.sev)

LEMMA SameSeverity ==
    ASSUME NEW d, NEW e, NEW x \in Devices,
           \A k \in Keys : DeviceOf[k] = x => SameShown(d.row[k], e.row[k])
    PROVE  MaxSeverity(d, x) = MaxSeverity(e, x)
<1> DEFINE sevs(f) == {f.row[k].sev : k \in Unshelved(f, x)}
<1>1. Unshelved(d, x) = Unshelved(e, x)
  BY DEF Unshelved, On, Open, SameShown, Visible
<1>2. \A k \in Unshelved(d, x) : d.row[k].sev = e.row[k].sev
  BY DEF Unshelved, On, Open, SameShown, Visible
<1>3. sevs(d) = sevs(e)
  BY <1>1, <1>2
<1> QED BY <1>3 DEF MaxSeverity

LEMMA SeverityType ==
    ASSUME NEW d \in Database, NEW x \in Devices
    PROVE  MaxSeverity(d, x) \in 0..Top
<1> DEFINE S == {0} \cup {d.row[k].sev : k \in Unshelved(d, x)}
<1>1. \A k \in Unshelved(d, x) : d.row[k].sev \in 0..3
  BY DEF Unshelved, On, Database, Row, Top
<1>2. S \subseteq 0..3 /\ 0 \in S
  BY <1>1
<1>3. MaxSeverity(d, x) = Max(S)
  BY DEF MaxSeverity
<1> HIDE DEF S
<1>4. \E m \in S : \A y \in S : m >= y
  <2>1. CASE 3 \in S
    BY <1>2, <2>1
  <2>2. CASE 3 \notin S /\ 2 \in S
    BY <1>2, <2>2
  <2>3. CASE 3 \notin S /\ 2 \notin S /\ 1 \in S
    BY <1>2, <2>3
  <2>4. CASE 3 \notin S /\ 2 \notin S /\ 1 \notin S
    BY <1>2, <2>4
  <2> QED BY <2>1, <2>2, <2>3, <2>4
<1>5. Max(S) \in S
  BY <1>4 DEF Max
<1> QED BY <1>2, <1>3, <1>5 DEF Top

\* Only folds changed, or nothing else that shelving and roll-up look at.
Refits(d, e) ==
    e \in Database /\ SameRest(d, e) /\ \A k \in Keys : SameButFold(d.row[k], e.row[k])

LEMMA RefitsShelved ==
    ASSUME NEW d, NEW e, Refits(d, e), ShelvedOK(d) PROVE ShelvedOK(e)
BY DEF Refits, SameRest, SameButFold, ShelvedOK, ShelfOK, Open

LEMMA RefitsShown ==
    ASSUME NEW d, NEW e, Refits(d, e) PROVE \A k \in Keys : SameShown(d.row[k], e.row[k])
BY DEF Refits, SameButFold, SameShown, Visible

LEMMA RaisedShelved ==
    ASSUME NEW d, NEW e, Raised(d, e), ShelvedOK(d) PROVE ShelvedOK(e)
BY DEF Raised, SameRest, RaiseStep, ShelvedOK, ShelfOK, Open

LEMMA ClearedShelved ==
    ASSUME NEW d, NEW e, NEW gone \in SUBSET Keys, Cleared(d, e, gone), ShelvedOK(d)
    PROVE  ShelvedOK(e)
BY DEF Cleared, SameRest, SameButFold, ShelvedOK, ShelfOK, Open, Blank

-----------------------------------------------------------------------------
(* What a handler may leave for the commit, given the devices it refreshes.    *)

Were == {k \in Keys : Open(db, k)}
Result(d, fresh) ==
    /\ d \in Database /\ fresh \subseteq Devices /\ d.roll = db.roll
    /\ \A k \in Keys : DeviceOf[k] \notin fresh => SameShown(db.row[k], d.row[k])
    /\ ShelvedOK(db) => ShelvedOK(d)
    /\ FoldOK(db, {}) => FoldOK(d, Were)

LEMMA WereFold == ASSUME FoldOK(db, {}) PROVE FoldOK(db, Were)
BY DEF FoldOK, RootOK

LEMMA PairRefits ==
    ASSUME NEW d \in Database, NEW k \in Keys, Peer[k] # None, NEW peerFirst
    PROVE  Refits(d, PairEnds(d, k, peerFirst))
<1>1. Peer[k] \in Keys
  BY AlarmsAssumption
<1>2. Refits(d, mark_symptom(d, k, Peer[k], "open"))
  BY <1>1, Marking DEF Refits
<1>3. Refits(d, mark_symptom(d, Peer[k], k, "open"))
  BY <1>1, Marking DEF Refits
<1> QED BY <1>2, <1>3 DEF PairEnds

LEMMA RefoldedTwice ==
    ASSUME NEW d, NEW e, NEW f, Refolded(d, e), Refolded(e, f)
    PROVE  Refolded(d, f)
BY CausesAreKeys DEF Refolded

\* From the raise to the roll-up: c is the table after the raise.
LEMMA CorrelatedOK ==
    ASSUME db \in Database, NEW k \in Keys, NEW c, Raised(db, c), Open(c, k),
           NEW isNew, NEW peerFirst,
           Peer[k] # None => peerFirst \in PeerMayBeFirst(db, k),
           NEW d, d = Correlated(c, k, isNew, peerFirst)
    PROVE  /\ Refits(c, d)
           /\ FoldOK(db, {}) => FoldOK(d, Were)
<1>0. c \in Database /\ (FoldOK(db, {}) => FoldOK(db, Were) /\ FoldOK(c, Were))
  BY RaisedRefolds, RefoldedKeeps, WereFold DEF Raised
<1>f. ASSUME NEW e, Folded(c, e)
      PROVE  Refits(c, e) /\ (FoldOK(db, {}) => FoldOK(e, Were))
  <2>1. Refits(c, e) /\ e \in Database
    BY <1>f DEF Folded, Refits
  <2> QED BY <1>0, <1>f, <2>1, FoldedRefolds, RefoldedKeeps
<1>1. CASE Explanations(c, k) # {}
  BY <1>0, <1>1, <1>f, CorrelateFolds DEF Correlated
<1>2. CASE Explanations(c, k) = {}
  <2> DEFINE b == IF isNew /\ Kind[k] = "trip" THEN adopt_orphans(c, {k}) ELSE c
             a == CollapseBands(b, k)
  <2>1. Folded(c, b)
    BY <1>0, AdoptFolds, FoldedNone
  <2>2. d = Paired(a, k, peerFirst)
    BY <1>2 DEF Correlated, AsRoot
  <2> HIDE DEF b
  <2>3. b \in Database /\ Open(b, k)
    BY <1>0, <2>1, OpenStays DEF Folded
  <2>4. Folded(b, a)
    BY <2>3, BandsFold
  <2> HIDE DEF a
  <2>5. Folded(c, a) /\ a \in Database /\ Open(a, k)
    BY <1>0, <2>1, <2>3, <2>4, FoldedTwice, OpenStays DEF Folded
  <2>6. CASE d = a
    BY <1>f, <2>5, <2>6
  <2>7. CASE /\ Kind[k] = "link" /\ Peer[k] # None /\ Open(a, Peer[k])
             /\ d = PairEnds(a, k, peerFirst)
    <3>1. Refits(a, d)
      BY <2>5, <2>7, PairRefits
    <3>2. Refits(c, d)
      BY <2>5, <3>1 DEF Folded, Refits, SameRest, SameButFold
    <3>3. ASSUME FoldOK(db, {}) PROVE FoldOK(d, Were)
      <4>1. FoldOK(db, Were) /\ FoldOK(a, Were)
        BY <1>0, <1>f, <2>5, <3>3
      <4>2. Peer[k] \in OtherEnd(k)
        BY <2>7 DEF OtherEnd
      <4>3. Refolded(db, c) /\ Refolded(c, a)
        BY <1>0, <2>5, RaisedRefolds, FoldedRefolds
      <4>4. Refolded(db, a)
        BY <1>0, <2>5, <4>3, RefoldedTwice
      <4> QED BY <2>5, <2>7, <3>3, <4>1, <4>2, <4>4, PairKeeps
    <3> QED BY <3>2, <3>3
  <2> QED BY <2>2, <2>6, <2>7 DEF Paired
<1> QED BY <1>1, <1>2

-----------------------------------------------------------------------------
(* The alarm handlers.                                                         *)

LEMMA RaisedResult ==
    ASSUME db \in Database, NEW k \in Keys, NEW c, Raised(db, c), Open(c, k),
           \A o \in Keys \ {k} : c.row[o] = db.row[o],
           NEW d, Refits(c, d), FoldOK(db, {}) => FoldOK(d, Were),
           NEW fresh \in SUBSET Devices, DeviceOf[k] \in fresh
    PROVE  Result(d, fresh)
<1>1. d \in Database /\ d.roll = db.roll
  BY DEF Refits, Raised, SameRest
<1>2. ShelvedOK(db) => ShelvedOK(d)
  BY RaisedShelved, RefitsShelved
<1>3. \A o \in Keys : SameShown(c.row[o], d.row[o])
  BY RefitsShown
<1>4. \A o \in Keys : DeviceOf[o] \notin fresh => SameShown(db.row[o], d.row[o])
  BY <1>3
<1> QED BY <1>1, <1>2, <1>4 DEF Result

LEMMA HandleEventResult ==
    ASSUME db \in Database, NEW s \in Sessions, NEW k \in Keys, HandleEvent(s, k)
    PROVE  \E d, fresh : Run(s, "request", d, fresh) /\ Result(d, fresh)
<1>1. PICK rep \in Reports[k],
           peerFirst \in (IF Peer[k] = None THEN {TRUE} ELSE PeerMayBeFirst(db, k)) :
        LET d == AfterRaise(db, k, rep, peerFirst)
            adopted == IF Kind[k] = "trip" THEN Changed(db, d) ELSE {}
        IN /\ Change(db, k, rep) # "touched"
           /\ Run(s, "request", d, {DeviceOf[o] : o \in {k} \cup adopted})
  BY DEF HandleEvent
<1> DEFINE c == raise_alarm(db, k, rep)
           isNew == Change(db, k, rep) = "created"
           d == AfterRaise(db, k, rep, peerFirst)
           adopted == IF Kind[k] = "trip" THEN Changed(db, d) ELSE {}
           fresh == {DeviceOf[o] : o \in {k} \cup adopted}
<1>2. rep \in [sev : 0..Top, src : Detectors]
  BY AlarmsAssumption
<1>3. Run(s, "request", d, fresh) /\ d = Correlated(c, k, isNew, peerFirst)
  BY <1>1 DEF AfterRaise
<1>4. fresh \in SUBSET Devices /\ DeviceOf[k] \in fresh
  BY AlarmsAssumption DEF Changed
<1>5. Peer[k] # None => peerFirst \in PeerMayBeFirst(db, k)
  OBVIOUS
<1> HIDE DEF c, d, isNew, fresh, adopted
<1>6. /\ Raised(db, c) /\ Open(c, k) /\ \A o \in Keys \ {k} : c.row[o] = db.row[o]
  BY <1>2, RaiseRaises DEF c
<1>7. Refits(c, d) /\ (FoldOK(db, {}) => FoldOK(d, Were))
  BY <1>3, <1>5, <1>6, CorrelatedOK
<1>8. Result(d, fresh)
  BY <1>4, <1>6, <1>7, RaisedResult
<1> QED BY <1>3, <1>8

LEMMA EndpointOfflineResult ==
    ASSUME db \in Database, NEW s \in Sessions, NEW k \in Keys, EndpointOffline(s, k)
    PROVE  \E d, fresh : Run(s, "request", d, fresh) /\ Result(d, fresh)
<1>1. PICK rep \in Reports[k] :
         Run(s, "request", correlate(raise_alarm(db, k, rep), k), {DeviceOf[k]})
  BY DEF EndpointOffline
<1> DEFINE c == raise_alarm(db, k, rep)
           d == correlate(c, k)
<1>2. rep \in [sev : 0..Top, src : Detectors] /\ {DeviceOf[k]} \in SUBSET Devices
  BY AlarmsAssumption
<1> HIDE DEF c
<1>3. /\ Raised(db, c) /\ Open(c, k) /\ \A o \in Keys \ {k} : c.row[o] = db.row[o]
  BY <1>2, RaiseRaises DEF c
<1>4. c \in Database
  BY <1>3 DEF Raised
<1>5. Folded(c, d)
  BY <1>4, CorrelateFolds
<1>6. Run(s, "request", d, {DeviceOf[k]})
  BY <1>1 DEF c
<1> HIDE DEF d
<1>7. Refits(c, d) /\ d \in Database
  BY <1>5 DEF Folded, Refits
<1>8. FoldOK(db, {}) => FoldOK(d, Were)
  BY <1>3, <1>4, <1>5, <1>7, WereFold, RaisedRefolds, FoldedRefolds, RefoldedKeeps
<1>9. Result(d, {DeviceOf[k]})
  BY <1>2, <1>3, <1>7, <1>8, RaisedResult
<1> QED BY <1>6, <1>9

LEMMA ClearAlarmResult ==
    ASSUME db \in Database, NEW s \in Sessions, NEW dev \in Devices, ClearAlarm(s, dev)
    PROVE  \E d, fresh : Run(s, "request", d, fresh) /\ Result(d, fresh)
<1>1. PICK ks \in SUBSET {k \in On({dev}) : Open(db, k)} :
         Run(s, "request", ClearAll(db, ks), {dev})
  BY DEF ClearAlarm
<1> DEFINE d == ClearAll(db, ks)
           gone == {o \in ks : Open(db, o)}
<1>2. /\ ks \in SUBSET Keys /\ gone \in SUBSET Keys
      /\ \A r \in gone : r \in Were /\ DeviceOf[r] = dev
  BY DEF Were, On
<1>3. Cleared(db, d, gone)
  BY <1>2, ClearAllClears
<1> HIDE DEF d, gone
<1>4. ShelvedOK(db) => ShelvedOK(d)
  BY <1>2, <1>3, ClearedShelved
<1>5. FoldOK(db, {}) => FoldOK(d, Were)
  BY <1>2, <1>3, WereFold, ClearKeeps
<1>6. \A o \in Keys : DeviceOf[o] \notin {dev} => SameShown(db.row[o], d.row[o])
  BY <1>2, <1>3 DEF Cleared, SameButFold, SameShown, Visible
<1>7. d \in Database /\ d.roll = db.roll /\ {dev} \subseteq Devices
  BY <1>3 DEF Cleared, SameRest
<1>8. Run(s, "request", d, {dev})
  BY <1>1 DEF d
<1> QED BY <1>4, <1>5, <1>6, <1>7, <1>8 DEF Result

LEMMA SweepResult ==
    ASSUME db \in Database, NEW s \in Sessions, SweepAlarms(s)
    PROVE  \E d, fresh : Run(s, "sweep", d, fresh) /\ Result(d, fresh)
<1> DEFINE stale == {k \in Keys : Kind[k] = "stale"}
<1>1. PICK silent \in SUBSET stale,
           over \in SUBSET {k \in Keys : /\ Kind[k] \in {"trip", "silent", "measure", "restart"}
                                         /\ Open(db, k)} :
        \E d \in Sweep(db, silent, over) :
           d # db /\ Run(s, "sweep", d, {DeviceOf[k] : k \in Changed(db, d)})
  BY DEF SweepAlarms
<1>2. PICK d \in Sweep(db, silent, over) :
           Run(s, "sweep", d, {DeviceOf[k] : k \in Changed(db, d)})
  BY <1>1
<1> DEFINE ks == (stale \ silent) \cup over
           a == StaleRaised(db, silent)
           b == ClearAll(a, ks)
           c == adopt_orphans(b, {k \in Standing(b, Keys) : Held(k)})
           fresh == {DeviceOf[k] : k \in Changed(db, d)}
           gone == {k \in ks : Open(a, k)}
<1>3. d = release_after_hold(c)
  BY DEF Sweep
<1>4. silent \in SUBSET Keys /\ ks \in SUBSET Keys /\ fresh \subseteq Devices
  BY AlarmsAssumption DEF Changed
<1>5. \A k \in Keys : DeviceOf[k] \notin fresh => SameShown(db.row[k], d.row[k])
  BY DEF Changed, SameShown
<1> HIDE DEF ks
<1>6. gone \in SUBSET Keys
  BY <1>4
<1> HIDE DEF c
<1>7. Raised(db, a) /\ \A o \in Keys \ silent : a.row[o] = db.row[o]
  BY <1>4, StaleRaises
<1>8. \A r \in gone : Held(r) => r \in Were
  BY <1>4, <1>6, <1>7 DEF Held, Open, Were
<1> HIDE DEF b
<1>9. a \in Database
  BY <1>7 DEF Raised
<1>10. Cleared(a, b, gone)
  BY <1>4, <1>9, ClearAllClears DEF b
<1> HIDE DEF a, gone
<1>11. b \in Database
  BY <1>10 DEF Cleared
<1>12. Folded(b, c) /\ c \in Database
  BY <1>11, AdoptFolds DEF c, Folded
<1>13. Folded(b, d) /\ d \in Database
  BY <1>3, <1>11, <1>12, ReleaseFolds, FoldedTwice DEF Folded
<1>14. ShelvedOK(db) => ShelvedOK(d)
  <2>1. Refits(b, d)
    BY <1>13 DEF Refits, Folded
  <2> QED BY <1>6, <1>7, <1>10, <2>1, RaisedShelved, ClearedShelved, RefitsShelved
<1>15. ASSUME FoldOK(db, {}) PROVE FoldOK(d, Were)
  <2>1. FoldOK(a, Were)
    BY <1>7, <1>9, <1>15, WereFold, RaisedRefolds, RefoldedKeeps
  <2>2. FoldOK(b, Were)
    BY <1>6, <1>8, <1>9, <1>10, <1>15, <2>1, ClearKeeps
  <2> QED BY <1>11, <1>13, <1>15, <2>2, FoldedRefolds, RefoldedKeeps
<1>16. d.roll = db.roll
  BY <1>7, <1>10, <1>13 DEF Raised, Cleared, Folded, SameRest
<1>17. Result(d, fresh)
  BY <1>4, <1>5, <1>13, <1>14, <1>15, <1>16 DEF Result
<1> QED BY <1>2, <1>17

-----------------------------------------------------------------------------
(* Operators, windows and the lifecycle: the fold is left alone.               *)

Keeps(d, e) ==
    \A k \in Keys : /\ e.row[k].root = d.row[k].root /\ e.row[k].rs = d.row[k].rs
                    /\ e.row[k].sev = d.row[k].sev /\ Open(e, k) = Open(d, k)

LEMMA KeptResult ==
    ASSUME db \in Database, NEW d \in Database, d.roll = db.roll, Keeps(db, d),
           ShelvedOK(db) => ShelvedOK(d), NEW fresh \in SUBSET Devices,
           \A k \in Keys : DeviceOf[k] \notin fresh => d.row[k].why = db.row[k].why
    PROVE  Result(d, fresh)
<1>1. Refolded(db, d)
  BY DEF Keeps, Refolded
<1>2. FoldOK(db, {}) => FoldOK(d, Were)
  BY <1>1, WereFold, RefoldedKeeps
<1>3. \A k \in Keys : DeviceOf[k] \notin fresh => SameShown(db.row[k], d.row[k])
  BY DEF Keeps, SameShown, Visible, Open
<1> QED BY <1>2, <1>3 DEF Result

LEMMA SameRowsResult ==
    ASSUME db \in Database, NEW d \in Database, d.roll = db.roll, d.row = db.row,
           d.life = db.life, \A w \in Windows : db.win[w] = "active" => d.win[w] = "active"
    PROVE  Result(d, {})
<1>1. Keeps(db, d)
  BY DEF Keeps, Open
<1>2. ShelvedOK(db) => ShelvedOK(d)
  BY DEF ShelvedOK, ShelfOK, Open
<1> QED BY <1>1, <1>2, KeptResult

LEMMA AcknowledgeResult ==
    ASSUME db \in Database, NEW s \in Sessions, NEW k \in Keys, Acknowledge(s, k)
    PROVE  \E d, fresh : Run(s, "request", d, fresh) /\ Result(d, fresh)
<1> DEFINE d == [db EXCEPT !.row[k].st = "ACKNOWLEDGED"]
<1>1. Run(s, "request", d, {}) /\ db.row[k].st = "ACTIVE"
  BY DEF Acknowledge
<1>2. PICK q : q = [db.row[k] EXCEPT !.st = "ACKNOWLEDGED"]
  OBVIOUS
<1>3. PICK rows : rows = [db.row EXCEPT ![k] = q]
  OBVIOUS
<1>4. db.row \in [Keys -> Row] /\ db.row[k] \in Row
  BY DEF Database
<1>5. /\ q \in Row /\ q.st = "ACKNOWLEDGED" /\ q.sev = db.row[k].sev /\ q.win = db.row[k].win
      /\ q.why = db.row[k].why /\ q.root = db.row[k].root /\ q.rs = db.row[k].rs
  BY <1>2, <1>4 DEF Row
<1>6. d = [db EXCEPT !.row = rows]
  BY <1>2, <1>3 DEF Database
<1> HIDE DEF d
<1>7. rows \in [Keys -> Row] /\ rows[k] = q /\ \A o \in Keys \ {k} : rows[o] = db.row[o]
  BY <1>3, <1>4, <1>5
<1>8. d \in Database /\ d.row = rows /\ SameRest(db, d)
  BY <1>6, <1>7, RowsReplaced
<1>9. Keeps(db, d) /\ \A o \in Keys : d.row[o].why = db.row[o].why /\ d.row[o].win = db.row[o].win
  BY <1>1, <1>5, <1>7, <1>8 DEF Keeps, Open
<1>10. ShelvedOK(db) => ShelvedOK(d)
  BY <1>8, <1>9 DEF ShelvedOK, ShelfOK, Keeps, SameRest
<1>11. Result(d, {})
  BY <1>8, <1>9, <1>10, KeptResult DEF SameRest
<1> QED BY <1>1, <1>11 DEF d

LEMMA StartWindowResult ==
    ASSUME db \in Database, NEW s \in Sessions, NEW w \in Windows, StartWindow(s, w)
    PROVE  \E d, fresh : Run(s, "request", d, fresh) /\ Result(d, fresh)
<1> DEFINE shelved(k) == Open(db, k) /\ db.row[k].win = None /\ DeviceOf[k] \in db.targets[w]
           q(k) == IF shelved(k)
                   THEN [db.row[k] EXCEPT !.win = w, !.why = "maintenance_window"] ELSE db.row[k]
           rows == [k \in Keys |-> q(k)]
           d == Activated(db, w)
           fresh == db.targets[w]
<1>1. Run(s, "request", d, fresh)
  BY DEF StartWindow
<1>2. d = [db EXCEPT !.win[w] = "active", !.row = rows]
  BY DEF Activated, Database
<1> HIDE DEF d
<1>3. ASSUME NEW k \in Keys
      PROVE  /\ q(k) \in Row /\ q(k).root = db.row[k].root /\ q(k).rs = db.row[k].rs
             /\ q(k).sev = db.row[k].sev /\ q(k).st = db.row[k].st
             /\ shelved(k) => q(k).win = w /\ q(k).why = "maintenance_window"
             /\ ~ shelved(k) => q(k).win = db.row[k].win /\ q(k).why = db.row[k].why
  <2> DEFINE r == db.row[k]
  <2>1. r \in Row
    BY DEF Database
  <2>2. /\ shelved(k) => q(k) = [r EXCEPT !.win = w, !.why = "maintenance_window"]
        /\ ~ shelved(k) => q(k) = r
    OBVIOUS
  <2> HIDE DEF q, r, shelved
  <2>3. CASE shelved(k)
    BY <2>1, <2>2, <2>3 DEF Row, r
  <2>4. CASE ~ shelved(k)
    BY <2>1, <2>2, <2>4 DEF r
  <2> QED BY <2>3, <2>4
<1> HIDE DEF q
<1>4. rows \in [Keys -> Row] /\ \A k \in Keys : rows[k] = q(k)
  BY <1>3
<1> HIDE DEF rows
<1>5. /\ d \in Database /\ d.row = rows /\ d.roll = db.roll /\ d.life = db.life
      /\ d.win[w] = "active" /\ \A x \in Windows \ {w} : d.win[x] = db.win[x]
  <2>1. PICK win : win = [db.win EXCEPT ![w] = "active"]
    OBVIOUS
  <2>2. /\ win \in [Windows -> {"scheduled", "active", "completed", "cancelled"}]
        /\ win[w] = "active" /\ \A x \in Windows \ {w} : win[x] = db.win[x]
    BY <2>1 DEF Database
  <2>3. d = [db EXCEPT !.win = win, !.row = rows]
    BY <1>2, <2>1 DEF Database
  <2> QED BY <1>4, <2>2, <2>3 DEF Database
<1>6. fresh \in SUBSET Devices
  BY DEF Database
<1>7. Keeps(db, d)
  BY <1>3, <1>4, <1>5 DEF Keeps, Open
<1>8. ASSUME ShelvedOK(db), NEW k \in Keys, Open(d, k) PROVE ShelfOK(d, k, d.row[k])
  <2>1. Open(db, k) /\ ShelfOK(db, k, db.row[k]) /\ d.row[k] = q(k)
    BY <1>4, <1>5, <1>7, <1>8 DEF Keeps, ShelvedOK
  <2>2. CASE shelved(k)
    <3>1. d.row[k].win = w /\ d.row[k].why = "maintenance_window"
      BY <1>3, <2>1, <2>2
    <3>2. w # None
      BY AlarmsAssumption
    <3> HIDE DEF shelved
    <3> QED BY <1>5, <3>1, <3>2 DEF ShelfOK
  <2>3. CASE ~ shelved(k)
    <3>1. d.row[k].win = db.row[k].win /\ d.row[k].why = db.row[k].why
      BY <1>3, <2>1, <2>3
    <3> HIDE DEF shelved
    <3> QED BY <1>5, <2>1, <3>1 DEF ShelfOK
  <2> QED BY <2>2, <2>3
<1>9. \A k \in Keys : DeviceOf[k] \notin fresh => d.row[k].why = db.row[k].why
  BY <1>3, <1>4, <1>5
<1>10. Result(d, fresh)
  BY <1>5, <1>6, <1>7, <1>8, <1>9, KeptResult DEF ShelvedOK
<1> QED BY <1>1, <1>10

LEMMA EndWindowResult ==
    ASSUME db \in Database, NEW s \in Sessions, NEW w \in Windows, EndWindow(s, w)
    PROVE  \E d, fresh : Run(s, "request", d, fresh) /\ Result(d, fresh)
<1>1. PICK status \in {"completed", "cancelled"} :
         Run(s, "request", Ended(db, w, status), {DeviceOf[k] : k \in HeldBy(db, w)})
  BY DEF EndWindow
<1> DEFINE why(k) == IF db.life[DeviceOf[k]] = "installed" THEN "not_commissioned" ELSE None
           held == HeldBy(db, w)
           q(k) == IF k \notin held THEN db.row[k]
                   ELSE [db.row[k] EXCEPT !.win = None, !.why = why(k)]
           rows == [k \in Keys |-> q(k)]
           d == Ended(db, w, status)
           fresh == {DeviceOf[k] : k \in held}
<1>2. d = [db EXCEPT !.win[w] = status, !.row = rows]
  BY DEF Ended, Database
<1> HIDE DEF d
<1>3. ASSUME NEW k \in Keys
      PROVE  /\ q(k) \in Row /\ q(k).root = db.row[k].root /\ q(k).rs = db.row[k].rs
             /\ q(k).sev = db.row[k].sev /\ q(k).st = db.row[k].st
             /\ k \in held => q(k).win = None /\ q(k).why = why(k)
             /\ k \notin held => q(k).win = db.row[k].win /\ q(k).why = db.row[k].why
  <2> DEFINE r == db.row[k]
  <2>1. r \in Row /\ why(k) \in {None, "not_commissioned"}
    BY DEF Database
  <2>2. /\ k \in held => q(k) = [r EXCEPT !.win = None, !.why = why(k)]
        /\ k \notin held => q(k) = r
    OBVIOUS
  <2> HIDE DEF q, r, held, why
  <2>3. CASE k \in held
    BY <2>1, <2>2, <2>3 DEF Row, r
  <2>4. CASE k \notin held
    BY <2>1, <2>2, <2>4 DEF r
  <2> QED BY <2>3, <2>4
<1> HIDE DEF q
<1>4. rows \in [Keys -> Row] /\ \A k \in Keys : rows[k] = q(k)
  BY <1>3
<1> HIDE DEF rows
<1>5. /\ d \in Database /\ d.row = rows /\ d.roll = db.roll /\ d.life = db.life
      /\ d.win[w] = status /\ \A x \in Windows \ {w} : d.win[x] = db.win[x]
  <2>1. PICK win : win = [db.win EXCEPT ![w] = status]
    OBVIOUS
  <2>2. /\ win \in [Windows -> {"scheduled", "active", "completed", "cancelled"}]
        /\ win[w] = status /\ \A x \in Windows \ {w} : win[x] = db.win[x]
    BY <2>1 DEF Database
  <2>3. d = [db EXCEPT !.win = win, !.row = rows]
    BY <1>2, <2>1 DEF Database
  <2> QED BY <1>4, <2>2, <2>3 DEF Database
<1>6. fresh \in SUBSET Devices
  BY AlarmsAssumption DEF HeldBy
<1>7. Keeps(db, d)
  BY <1>3, <1>4, <1>5 DEF Keeps, Open
<1>8. ASSUME ShelvedOK(db), NEW k \in Keys, Open(d, k) PROVE ShelfOK(d, k, d.row[k])
  <2>1. Open(db, k) /\ ShelfOK(db, k, db.row[k]) /\ d.row[k] = q(k)
    BY <1>4, <1>5, <1>7, <1>8 DEF Keeps, ShelvedOK
  <2>2. CASE k \in held
    <3>1. d.row[k].win = None /\ d.row[k].why = why(k)
      BY <1>3, <2>1, <2>2
    <3> QED BY <1>5, <3>1, AlarmsAssumption DEF ShelfOK
  <2>3. CASE k \notin held
    <3>1. d.row[k].win = db.row[k].win /\ d.row[k].why = db.row[k].why
      BY <1>3, <2>1, <2>3
    <3>2. db.row[k].win # w
      BY <2>1, <2>3 DEF HeldBy
    <3> HIDE DEF held
    <3> QED BY <1>5, <2>1, <3>1, <3>2 DEF ShelfOK
  <2> QED BY <2>2, <2>3
<1>9. \A k \in Keys : DeviceOf[k] \notin fresh => d.row[k].why = db.row[k].why
  BY <1>3, <1>4, <1>5
<1>10. Result(d, fresh)
  BY <1>5, <1>6, <1>7, <1>8, <1>9, KeptResult DEF ShelvedOK
<1> QED BY <1>1, <1>10 DEF d

LEMMA ApplyApprovalResult ==
    ASSUME db \in Database, NEW s \in Sessions, NEW w \in Windows, ApplyApproval(s, w)
    PROVE  \E d, fresh : Run(s, "request", d, fresh) /\ Result(d, fresh)
<1>1. PICK state \in {"approved", "declined"} :
         Run(s, "request", IF state = "declined" /\ db.win[w] = "scheduled"
                  THEN [[db EXCEPT !.approval[w] = state] EXCEPT !.win[w] = "cancelled"]
                  ELSE [db EXCEPT !.approval[w] = state], {})
  BY DEF ApplyApproval
<1> DEFINE c == [db EXCEPT !.approval[w] = state]
           d == IF state = "declined" /\ db.win[w] = "scheduled"
                THEN [c EXCEPT !.win[w] = "cancelled"] ELSE c
<1>2. c \in Database /\ c.row = db.row /\ c.roll = db.roll /\ c.life = db.life /\ c.win = db.win
  <2>1. PICK approval : approval = [db.approval EXCEPT ![w] = state]
    OBVIOUS
  <2>2. approval \in [Windows -> {"pending", "approved", "declined"}]
    BY <2>1 DEF Database
  <2>3. c = [db EXCEPT !.approval = approval]
    BY <2>1 DEF Database
  <2> HIDE DEF c
  <2> QED BY <2>2, <2>3 DEF Database
<1> HIDE DEF c
<1>3. CASE state = "declined" /\ db.win[w] = "scheduled"
  <2>1. PICK win : win = [c.win EXCEPT ![w] = "cancelled"]
    OBVIOUS
  <2>2. /\ win \in [Windows -> {"scheduled", "active", "completed", "cancelled"}]
        /\ \A x \in Windows \ {w} : win[x] = db.win[x]
    BY <1>2, <2>1 DEF Database
  <2>3. d = [c EXCEPT !.win = win]
    BY <1>2, <1>3, <2>1 DEF Database
  <2> HIDE DEF d
  <2>4. /\ d \in Database /\ d.row = db.row /\ d.roll = db.roll /\ d.life = db.life
        /\ d.win = win
    BY <1>2, <2>2, <2>3 DEF Database
  <2>5. \A x \in Windows : db.win[x] = "active" => d.win[x] = "active"
    BY <1>3, <2>2, <2>4
  <2>6. Result(d, {})
    BY <2>4, <2>5, SameRowsResult
  <2> QED BY <1>1, <2>6 DEF d, c
<1>4. CASE ~ (state = "declined" /\ db.win[w] = "scheduled")
  <2>1. d = c
    BY <1>4
  <2>2. Result(c, {})
    BY <1>2, SameRowsResult
  <2> QED BY <1>1, <2>1, <2>2 DEF c
<1> QED BY <1>3, <1>4

LEMMA RetargetResult ==
    ASSUME db \in Database, NEW s \in Sessions, NEW w \in Windows, Retarget(s, w)
    PROVE  \E d, fresh : Run(s, "request", d, fresh) /\ Result(d, fresh)
<1>1. PICK dev \in Devices :
         Run(s, "request",
             [db EXCEPT !.targets[w] = IF dev \in @ THEN @ \ {dev} ELSE @ \cup {dev}], {})
  BY DEF Retarget
<1> DEFINE d == [db EXCEPT !.targets[w] = IF dev \in @ THEN @ \ {dev} ELSE @ \cup {dev}]
<1>2. PICK targets : targets = [db.targets EXCEPT ![w] =
                                  IF dev \in @ THEN @ \ {dev} ELSE @ \cup {dev}]
  OBVIOUS
<1>3. targets \in [Windows -> SUBSET Devices]
  BY <1>2 DEF Database
<1>4. d = [db EXCEPT !.targets = targets]
  BY <1>2 DEF Database
<1>5. Run(s, "request", d, {})
  BY <1>1
<1> HIDE DEF d
<1>6. /\ d \in Database /\ d.row = db.row /\ d.roll = db.roll /\ d.life = db.life
      /\ d.win = db.win
  BY <1>3, <1>4 DEF Database
<1>7. Result(d, {})
  BY <1>6, SameRowsResult
<1> QED BY <1>5, <1>7

LEMMA ChangeLifecycleResult ==
    ASSUME db \in Database, NEW s \in Sessions, NEW dev \in Devices, ChangeLifecycle(s, dev)
    PROVE  \E d, fresh : Run(s, "request", d, fresh) /\ Result(d, fresh)
<1>1. PICK to \in {"installed", "in_service"} : Run(s, "request", Moved(db, dev, to), {dev})
  BY DEF ChangeLifecycle
<1> DEFINE hides(k) == /\ DeviceOf[k] = dev /\ Open(db, k) /\ to = "installed"
                       /\ db.row[k].why = None
           shows(k) == /\ DeviceOf[k] = dev /\ to # "installed"
                       /\ db.row[k].why = "not_commissioned"
           why(k) == IF hides(k) THEN "not_commissioned" ELSE None
           q(k) == CASE hides(k) -> [db.row[k] EXCEPT !.why = "not_commissioned"]
                     [] shows(k) -> [db.row[k] EXCEPT !.why = None]
                     [] OTHER -> db.row[k]
           rows == [k \in Keys |-> q(k)]
           d == Moved(db, dev, to)
<1>2. d = [db EXCEPT !.life[dev] = to, !.row = rows]
  BY DEF Moved, Database
<1> HIDE DEF d
<1>3. ASSUME NEW k \in Keys
      PROVE  /\ q(k) \in Row /\ q(k).root = db.row[k].root /\ q(k).rs = db.row[k].rs
             /\ q(k).sev = db.row[k].sev /\ q(k).st = db.row[k].st /\ q(k).win = db.row[k].win
             /\ hides(k) => q(k).why = "not_commissioned"
             /\ shows(k) => q(k).why = None
             /\ ~ hides(k) /\ ~ shows(k) => q(k).why = db.row[k].why
  <2> DEFINE r == db.row[k]
  <2>1. r \in Row /\ ~ (hides(k) /\ shows(k))
    BY DEF Database
  <2>2. /\ hides(k) => q(k) = [r EXCEPT !.why = "not_commissioned"]
        /\ ~ hides(k) /\ shows(k) => q(k) = [r EXCEPT !.why = None]
        /\ ~ hides(k) /\ ~ shows(k) => q(k) = r
    <3> HIDE DEF hides, shows
    <3> QED BY <2>1
  <2> HIDE DEF q, r, hides, shows
  <2>3. CASE hides(k)
    BY <2>1, <2>2, <2>3 DEF Row, r
  <2>4. CASE ~ hides(k) /\ shows(k)
    BY <2>1, <2>2, <2>4 DEF Row, r
  <2>5. CASE ~ hides(k) /\ ~ shows(k)
    BY <2>1, <2>2, <2>5 DEF r
  <2> QED BY <2>3, <2>4, <2>5
<1> HIDE DEF q
<1>4. rows \in [Keys -> Row] /\ \A k \in Keys : rows[k] = q(k)
  BY <1>3
<1> HIDE DEF rows
<1>5. /\ d \in Database /\ d.row = rows /\ d.roll = db.roll /\ d.win = db.win
      /\ d.life[dev] = to /\ \A x \in Devices \ {dev} : d.life[x] = db.life[x]
  <2>1. PICK life : life = [db.life EXCEPT ![dev] = to]
    OBVIOUS
  <2>2. /\ life \in [Devices -> {"installed", "in_service"}]
        /\ life[dev] = to /\ \A x \in Devices \ {dev} : life[x] = db.life[x]
    BY <2>1 DEF Database
  <2>3. d = [db EXCEPT !.life = life, !.row = rows]
    BY <1>2, <2>1 DEF Database
  <2> QED BY <1>4, <2>2, <2>3 DEF Database
<1>6. Keeps(db, d)
  BY <1>3, <1>4, <1>5 DEF Keeps, Open
<1>7. ASSUME ShelvedOK(db), NEW k \in Keys, Open(d, k) PROVE ShelfOK(d, k, d.row[k])
  <2>1. Open(db, k) /\ ShelfOK(db, k, db.row[k]) /\ d.row[k] = q(k) /\ q(k).win = db.row[k].win
    BY <1>3, <1>4, <1>5, <1>6, <1>7 DEF Keeps, ShelvedOK
  <2>2. DeviceOf[k] \in Devices
    BY AlarmsAssumption
  <2>3. CASE hides(k)
    <3>1. q(k).why = "not_commissioned"
      BY <1>3, <2>3
    <3>2. db.row[k].win = None /\ d.life[DeviceOf[k]] = "installed"
      BY <1>5, <2>1, <2>3, AlarmsAssumption DEF ShelfOK
    <3> HIDE DEF hides
    <3> QED BY <1>5, <2>1, <3>1, <3>2 DEF ShelfOK
  <2>4. CASE shows(k)
    <3>1. q(k).why = None
      BY <1>3, <2>4
    <3>2. db.row[k].win = None
      BY <2>1, <2>4 DEF ShelfOK
    <3> HIDE DEF shows
    <3> QED BY <1>5, <2>1, <3>1, <3>2, AlarmsAssumption DEF ShelfOK
  <2>5. CASE ~ hides(k) /\ ~ shows(k)
    <3>1. q(k).why = db.row[k].why
      BY <1>3, <2>5
    <3>2. db.row[k].why = "not_commissioned" => d.life[DeviceOf[k]] = "installed"
      BY <1>5, <2>1, <2>2, <2>5 DEF ShelfOK
    <3> HIDE DEF hides, shows
    <3> QED BY <1>5, <2>1, <3>1, <3>2 DEF ShelfOK
  <2> QED BY <2>3, <2>4, <2>5
<1>8. \A k \in Keys : DeviceOf[k] \notin {dev} => d.row[k].why = db.row[k].why
  BY <1>3, <1>4, <1>5
<1>9. Result(d, {dev})
  BY <1>5, <1>6, <1>7, <1>8, KeptResult DEF ShelvedOK
<1> QED BY <1>1, <1>9 DEF d

-----------------------------------------------------------------------------
(* Types, for any number of sessions.                                          *)

LEMMA StepKinds ==
    ASSUME db \in Database, Next
    PROVE  \/ \E s \in Sessions, op \in {"request", "sweep"} : \E d, fresh :
                 Run(s, op, d, fresh) /\ Result(d, fresh)
           \/ \E s \in Sessions : Commit(s) \/ Rollback(s)
           \/ \E k \in Keys : TimePasses(k)
<1>1. ASSUME NEW s \in Sessions, NEW k \in Keys,
             HandleEvent(s, k) \/ EndpointOffline(s, k) \/ Acknowledge(s, k)
      PROVE  \E d, fresh : Run(s, "request", d, fresh) /\ Result(d, fresh)
  BY <1>1, HandleEventResult, EndpointOfflineResult, AcknowledgeResult
<1>2. ASSUME NEW s \in Sessions, NEW w \in Windows,
             StartWindow(s, w) \/ EndWindow(s, w) \/ ApplyApproval(s, w) \/ Retarget(s, w)
      PROVE  \E d, fresh : Run(s, "request", d, fresh) /\ Result(d, fresh)
  BY <1>2, StartWindowResult, EndWindowResult, ApplyApprovalResult, RetargetResult
<1>3. ASSUME NEW s \in Sessions, NEW dev \in Devices,
             ClearAlarm(s, dev) \/ ChangeLifecycle(s, dev)
      PROVE  \E d, fresh : Run(s, "request", d, fresh) /\ Result(d, fresh)
  BY <1>3, ClearAlarmResult, ChangeLifecycleResult
<1>4. ASSUME NEW s \in Sessions, SweepAlarms(s)
      PROVE  \E d, fresh : Run(s, "sweep", d, fresh) /\ Result(d, fresh)
  BY <1>4, SweepResult
<1> QED BY <1>1, <1>2, <1>3, <1>4 DEF Next

LEMMA Refreshing ==
    ASSUME NEW d \in Database, NEW devs, NEW e, e = Refresh(d, devs)
    PROVE  /\ e \in Database /\ e.row = d.row /\ e.win = d.win /\ e.life = d.life
           /\ \A x \in Devices : e.roll[x] = IF x \in devs THEN MaxSeverity(d, x) ELSE d.roll[x]
<1>1. PICK roll : roll = [x \in Devices |-> IF x \in devs THEN MaxSeverity(d, x) ELSE d.roll[x]]
  OBVIOUS
<1>2. roll \in [Devices -> 0..Top]
  BY <1>1, SeverityType DEF Database
<1>3. e = [d EXCEPT !.roll = roll]
  BY <1>1 DEF Refresh, Database
<1> QED BY <1>1, <1>2, <1>3 DEF Database

LEMMA Repointed ==
    ASSUME NEW d \in Database, NEW gone, NEW e, e = Repoint(d, gone)
    PROVE  /\ e \in Database /\ SameRest(d, e)
           /\ \A k \in Keys :
                 /\ SameButFold(d.row[k], e.row[k]) /\ e.row[k].root = d.row[k].root
                 /\ e.row[k].rs = IF d.row[k].rs = "open" /\ d.row[k].root \in gone
                                  THEN "hold" ELSE d.row[k].rs
<1> DEFINE q(k) == IF d.row[k].rs = "open" /\ d.row[k].root \in gone
                   THEN [d.row[k] EXCEPT !.rs = "hold"] ELSE d.row[k]
           rows == [k \in Keys |-> q(k)]
<1>1. e = [d EXCEPT !.row = rows]
  BY DEF Repoint, Database
<1>2. ASSUME NEW k \in Keys
      PROVE  /\ q(k) \in Row /\ SameButFold(d.row[k], q(k)) /\ q(k).root = d.row[k].root
             /\ q(k).rs = IF d.row[k].rs = "open" /\ d.row[k].root \in gone
                          THEN "hold" ELSE d.row[k].rs
  <2> DEFINE r == d.row[k]
             lost == r.rs = "open" /\ r.root \in gone
  <2>1. r \in Row
    BY DEF Database
  <2>2. q(k) = IF lost THEN [r EXCEPT !.rs = "hold"] ELSE r
    OBVIOUS
  <2>3. (d.row[k].rs = "open" /\ d.row[k].root \in gone) <=> lost
    OBVIOUS
  <2> HIDE DEF q, lost
  <2>4. /\ q(k) \in Row /\ SameButFold(r, q(k)) /\ q(k).root = r.root
        /\ q(k).rs = IF lost THEN "hold" ELSE r.rs
    <3> HIDE DEF r
    <3>1. CASE lost
      BY <2>1, <2>2, <3>1 DEF Row, SameButFold
    <3>2. CASE ~ lost
      BY <2>1, <2>2, <3>2 DEF SameButFold
    <3> QED BY <3>1, <3>2
  <2> QED BY <2>3, <2>4
<1> HIDE DEF q
<1>3. rows \in [Keys -> Row] /\ \A k \in Keys : rows[k] = q(k)
  BY <1>2
<1> HIDE DEF rows
<1>4. e \in Database /\ e.row = rows /\ SameRest(d, e)
  BY <1>1, <1>3, RowsReplaced
<1> QED BY <1>2, <1>3, <1>4

LEMMA MergeType ==
    ASSUME db \in Database, NEW t \in Transaction
    PROVE  Merge(t) \in Database
<1> DEFINE Pick(f, from, to) == [x \in DOMAIN f |-> IF from[x] # to[x] THEN to[x] ELSE f[x]]
           row == Pick(db.row, t.from.row, t.to.row)
           roll == [x \in Devices |-> IF x \in t.fresh THEN t.to.roll[x] ELSE db.roll[x]]
           win == Pick(db.win, t.from.win, t.to.win)
           approval == Pick(db.approval, t.from.approval, t.to.approval)
           targets == Pick(db.targets, t.from.targets, t.to.targets)
           life == Pick(db.life, t.from.life, t.to.life)
<1>0. t.from \in Database /\ t.to \in Database
  BY DEF Transaction
<1>1. row \in [Keys -> Row]
  BY <1>0 DEF Database
<1>2. roll \in [Devices -> 0..Top]
  BY <1>0 DEF Database
<1>3. win \in [Windows -> {"scheduled", "active", "completed", "cancelled"}]
  BY <1>0 DEF Database
<1>4. approval \in [Windows -> {"pending", "approved", "declined"}]
  BY <1>0 DEF Database
<1>5. targets \in [Windows -> SUBSET Devices]
  BY <1>0 DEF Database
<1>6. life \in [Devices -> {"installed", "in_service"}]
  BY <1>0 DEF Database
<1>7. Merge(t) = [row |-> row, roll |-> roll, win |-> win, approval |-> approval,
                  targets |-> targets, life |-> life]
  BY DEF Merge
<1> HIDE DEF row, roll, win, approval, targets, life
<1> QED BY <1>1, <1>2, <1>3, <1>4, <1>5, <1>6, <1>7 DEF Database

LEMMA Transactions ==
    ASSUME AlarmsTypeOK, NEW s \in Sessions
    PROVE  /\ txn[s].busy <=> txn[s] \in Transaction
           /\ s \in Pending <=> txn[s].busy
           /\ ~ txn[s].busy <=> txn[s] = Idle
<1>1. txn[s] \in {Idle} \cup Transaction
  BY DEF AlarmsTypeOK
<1>2. Idle.busy = FALSE /\ \A t \in Transaction : t.busy = TRUE
  BY DEF Idle, Transaction
<1> QED BY <1>1, <1>2 DEF Pending

LEMMA FinishType ==
    ASSUME AlarmsTypeOK, NEW s \in Sessions, NEW gone, Finish(s, gone)
    PROVE  txn' \in [Sessions -> {Idle} \cup Transaction]
<1> SUFFICES ASSUME NEW o \in Sessions PROVE txn'[o] \in {Idle} \cup Transaction
  BY DEF Finish
<1>1. CASE o = s \/ ~ txn[o].busy
  BY <1>1 DEF Finish
<1>2. CASE ~ (o = s \/ ~ txn[o].busy)
  <2> DEFINE t == txn[o]
  <2>1. t \in Transaction
    BY <1>2, Transactions
  <2>2. PICK from, to, after : /\ from = Repoint(t.from, gone) /\ to = Repoint(t.to, gone)
                               /\ after = t.after \ {s}
    OBVIOUS
  <2>3. txn'[o] = [t EXCEPT !.from = from, !.to = to, !.after = after]
    BY <1>2, <2>2 DEF Finish
  <2>4. from \in Database /\ to \in Database
    <3>1. t.from \in Database /\ t.to \in Database
      BY <2>1 DEF Transaction
    <3> QED BY <2>2, <3>1, Repointed
  <2>5. after \in SUBSET Sessions
    BY <2>1, <2>2 DEF Transaction
  <2> HIDE DEF t
  <2> QED BY <2>1, <2>3, <2>4, <2>5 DEF Transaction
<1> QED BY <1>1, <1>2

LEMMA RunType ==
    ASSUME AlarmsTypeOK, NEW s \in Sessions, NEW op \in {"request", "sweep"}, NEW d \in Database,
           NEW fresh \in SUBSET Devices, Run(s, op, d, fresh),
           NEW to, to = Refresh(d, fresh)
    PROVE  /\ ~ txn[s].busy /\ UNCHANGED <<db, recent>>
           /\ txn' \in [Sessions -> {Idle} \cup Transaction]
           /\ \A o \in Sessions \ {s} : txn'[o] = txn[o]
           /\ txn'[s].from = db /\ txn'[s].to = to /\ txn'[s].fresh = fresh /\ txn'[s].busy
<1>1. to \in Database /\ db \in Database /\ Pending \in SUBSET Sessions
  BY Refreshing DEF AlarmsTypeOK, Pending
<1>2. PICK t : t = [busy |-> TRUE, op |-> op, from |-> db, to |-> to, fresh |-> fresh,
                    after |-> Pending]
  OBVIOUS
<1>3. txn' = [txn EXCEPT ![s] = t] /\ ~ txn[s].busy /\ UNCHANGED <<db, recent>>
  BY <1>2 DEF Run
<1>4. t \in Transaction /\ t.from = db /\ t.to = to /\ t.fresh = fresh /\ t.busy
  BY <1>1, <1>2 DEF Transaction
<1> HIDE <1>2
<1> QED BY <1>3, <1>4 DEF AlarmsTypeOK

HoldOver(d, k) ==
    [d EXCEPT !.row = [o \in Keys |-> IF @[o].root = k /\ @[o].rs = "hold"
                                      THEN [@[o] EXCEPT !.rs = "past"] ELSE @[o]]]
LEMMA HoldEnds ==
    ASSUME NEW d \in Database, NEW k \in Keys, NEW e, e = HoldOver(d, k)
    PROVE  /\ e \in Database /\ SameRest(d, e)
           /\ \A o \in Keys :
                 /\ SameButFold(d.row[o], e.row[o]) /\ e.row[o].root = d.row[o].root
                 /\ e.row[o].rs = IF d.row[o].root = k /\ d.row[o].rs = "hold"
                                  THEN "past" ELSE d.row[o].rs
<1> DEFINE over(o) == d.row[o].root = k /\ d.row[o].rs = "hold"
           q(o) == IF over(o) THEN [d.row[o] EXCEPT !.rs = "past"] ELSE d.row[o]
           rows == [o \in Keys |-> q(o)]
<1>1. e = [d EXCEPT !.row = rows]
  BY DEF HoldOver, Database
<1>2. ASSUME NEW o \in Keys
      PROVE  /\ q(o) \in Row /\ SameButFold(d.row[o], q(o)) /\ q(o).root = d.row[o].root
             /\ q(o).rs = IF over(o) THEN "past" ELSE d.row[o].rs
  <2> DEFINE r == d.row[o]
  <2>1. r \in Row
    BY DEF Database
  <2>2. q(o) = IF over(o) THEN [r EXCEPT !.rs = "past"] ELSE r
    OBVIOUS
  <2> HIDE DEF q, over
  <2>3. /\ q(o) \in Row /\ SameButFold(r, q(o)) /\ q(o).root = r.root
        /\ q(o).rs = IF over(o) THEN "past" ELSE r.rs
    <3> HIDE DEF r
    <3>1. CASE over(o)
      BY <2>1, <2>2, <3>1 DEF Row, SameButFold
    <3>2. CASE ~ over(o)
      BY <2>1, <2>2, <3>2 DEF SameButFold
    <3> QED BY <3>1, <3>2
  <2> QED BY <2>3
<1> HIDE DEF q
<1>3. rows \in [Keys -> Row] /\ \A o \in Keys : rows[o] = q(o)
  BY <1>2
<1> HIDE DEF rows
<1>4. e \in Database /\ e.row = rows /\ SameRest(d, e)
  BY <1>1, <1>3, RowsReplaced
<1> QED BY <1>2, <1>3, <1>4

LEMMA Started ==
    ASSUME Init
    PROVE  /\ AlarmsTypeOK /\ db.row = [k \in Keys |-> Blank] /\ db.roll = [x \in Devices |-> 0]
           /\ \A s \in Sessions : ~ txn[s].busy
<1>1. /\ [k \in Keys |-> Blank] \in [Keys -> Row]
      /\ [x \in Devices |-> 0] \in [Devices -> 0..Top]
  BY BlankIsARow DEF Top
<1>2. db \in Database /\ db.row = [k \in Keys |-> Blank] /\ db.roll = [x \in Devices |-> 0]
  BY <1>1, AlarmsAssumption DEF Init, Database
<1>3. txn \in [Sessions -> {Idle} \cup Transaction] /\ \A s \in Sessions : ~ txn[s].busy
  BY DEF Init, Idle
<1> QED BY <1>2, <1>3 DEF AlarmsTypeOK, Init

LEMMA CommitType ==
    ASSUME AlarmsTypeOK, NEW s \in Sessions, Commit(s)
    PROVE  AlarmsTypeOK' /\ txn[s] \in Transaction
<1>1. txn[s] \in Transaction
  BY Transactions DEF Commit
<1> DEFINE t == txn[s]
           gone == ClearedBy(t)
<1>2. Merge(t) \in Database
  BY <1>1, MergeType DEF AlarmsTypeOK
<1>3. db' = Repoint(Merge(t), gone) /\ Finish(s, gone)
  BY DEF Commit
<1>4. recent' = [k \in Keys |-> IF k \in gone \cap PowerRoot THEN "hold" ELSE recent[k]]
  BY DEF Commit
<1> HIDE DEF t, gone
<1>5. db' \in Database
  BY <1>2, <1>3, Repointed
<1>6. txn' \in [Sessions -> {Idle} \cup Transaction]
  BY <1>3, FinishType
<1>7. recent' \in [Keys -> {"no", "window", "hold"}]
  BY <1>4 DEF AlarmsTypeOK
<1> QED BY <1>1, <1>5, <1>6, <1>7 DEF AlarmsTypeOK

\* The table, the windows and the open transactions keep their shape, however
\* many sessions interleave and whatever is rolled back.
THEOREM AlarmsTypeCorrect == Spec => []AlarmsTypeOK
<1>1. Init => AlarmsTypeOK
  BY Started
<1>2. AlarmsTypeOK /\ [Next]_vars => AlarmsTypeOK'
  <2> SUFFICES ASSUME AlarmsTypeOK, [Next]_vars PROVE AlarmsTypeOK'
    OBVIOUS
  <2>0. db \in Database
    BY DEF AlarmsTypeOK
  <2>1. ASSUME NEW s \in Sessions, NEW op \in {"request", "sweep"}, NEW d, NEW fresh,
               Run(s, op, d, fresh), Result(d, fresh)
        PROVE  AlarmsTypeOK'
    <3>1. d \in Database /\ fresh \in SUBSET Devices
      BY <2>1 DEF Result
    <3>2. PICK to : to = Refresh(d, fresh)
      OBVIOUS
    <3>3. txn' \in [Sessions -> {Idle} \cup Transaction] /\ UNCHANGED <<db, recent>>
      BY <2>1, <3>1, <3>2, RunType
    <3> QED BY <3>3 DEF AlarmsTypeOK
  <2>2. ASSUME NEW s \in Sessions, Commit(s) PROVE AlarmsTypeOK'
    BY <2>2, CommitType
  <2>3. ASSUME NEW s \in Sessions, Rollback(s) PROVE AlarmsTypeOK'
    <3>1. Finish(s, {}) /\ UNCHANGED <<db, recent>>
      BY <2>3 DEF Rollback
    <3>2. txn' \in [Sessions -> {Idle} \cup Transaction]
      BY <3>1, FinishType
    <3> QED BY <3>1, <3>2 DEF AlarmsTypeOK
  <2>4. ASSUME NEW k \in Keys, TimePasses(k) PROVE AlarmsTypeOK'
    <3>1. /\ recent' = [recent EXCEPT ![k] = IF @ = "hold" THEN "window" ELSE "no"]
          /\ db' = HoldOver(db, k) /\ UNCHANGED txn
      BY <2>4 DEF TimePasses, HoldOver
    <3>2. db' \in Database
      BY <2>0, <3>1, HoldEnds
    <3>3. recent' \in [Keys -> {"no", "window", "hold"}]
      BY <3>1 DEF AlarmsTypeOK
    <3> QED BY <3>1, <3>2, <3>3 DEF AlarmsTypeOK
  <2>5. CASE UNCHANGED vars
    BY <2>5 DEF vars, AlarmsTypeOK
  <2>6. CASE Next
    BY <2>0, <2>1, <2>2, <2>3, <2>4, <2>6, StepKinds
  <2> QED BY <2>5, <2>6
<1> QED BY <1>1, <1>2, PTL DEF Spec

-----------------------------------------------------------------------------
(* One transaction at a time.                                                  *)

RollOK(d) == \A x \in Devices : d.roll[x] = MaxSeverity(d, x)

\* What a commit leaves, and what the open transaction, which began from the
\* database as it is, will.
Good(d) == RollOK(d) /\ ShelvedOK(d) /\ FoldOK(d, {})
Promises(t) ==
    /\ t.from = db /\ RollOK(t.to) /\ ShelvedOK(t.to) /\ FoldOK(t.to, Were)
    /\ \A x \in Devices \ t.fresh : t.to.roll[x] = db.roll[x]
AlarmsInv ==
    /\ AlarmsTypeOK /\ Good(db)
    /\ \A s \in Sessions : txn[s].busy => Promises(txn[s])

LEMMA SameRows ==
    ASSUME NEW d, NEW e, e.row = d.row
    PROVE  \A x \in Devices : MaxSeverity(e, x) = MaxSeverity(d, x)
BY DEF MaxSeverity, Unshelved, Open

LEMMA RunKeeps ==
    ASSUME OneSession, AlarmsInv, NEW s \in Sessions, NEW op \in {"request", "sweep"},
           NEW d, NEW fresh, Run(s, op, d, fresh), Result(d, fresh)
    PROVE  AlarmsInv'
<1>0. db \in Database /\ AlarmsTypeOK /\ Good(db)
  BY DEF AlarmsInv, AlarmsTypeOK
<1>1. d \in Database /\ fresh \in SUBSET Devices
  BY DEF Result
<1>2. PICK to : to = Refresh(d, fresh)
  OBVIOUS
<1>3. /\ UNCHANGED <<db, recent>> /\ txn' \in [Sessions -> {Idle} \cup Transaction]
      /\ txn'[s].from = db /\ txn'[s].to = to /\ txn'[s].fresh = fresh
  BY <1>0, <1>1, <1>2, RunType
<1>4. /\ to.row = d.row /\ to.win = d.win /\ to.life = d.life
      /\ \A x \in Devices : to.roll[x] = IF x \in fresh THEN MaxSeverity(d, x) ELSE d.roll[x]
  BY <1>1, <1>2, Refreshing
<1>5. RollOK(to)
  <2> SUFFICES ASSUME NEW x \in Devices PROVE to.roll[x] = MaxSeverity(to, x)
    BY DEF RollOK
  <2>1. MaxSeverity(to, x) = MaxSeverity(d, x)
    BY <1>4, SameRows
  <2>2. CASE x \in fresh
    BY <1>4, <2>1, <2>2
  <2>3. CASE x \notin fresh
    <3>1. \A k \in Keys : DeviceOf[k] = x => SameShown(db.row[k], d.row[k])
      BY <2>3 DEF Result
    <3>2. MaxSeverity(db, x) = MaxSeverity(d, x)
      BY <3>1, SameSeverity
    <3>3. db.roll[x] = MaxSeverity(db, x)
      BY <1>0 DEF Good, RollOK
    <3> QED BY <1>4, <2>1, <2>3, <3>2, <3>3 DEF Result
  <2> QED BY <2>2, <2>3
<1>6. ShelvedOK(to)
  <2>1. ShelvedOK(d)
    BY <1>0 DEF Good, Result
  <2> QED BY <1>4, <2>1 DEF ShelvedOK, ShelfOK, Open
<1>7. FoldOK(to, Were)
  <2>1. FoldOK(d, Were)
    BY <1>0 DEF Good, Result
  <2> QED BY <1>4, <2>1 DEF FoldOK, RootOK, Open
<1>8. \A x \in Devices \ fresh : to.roll[x] = db.roll[x]
  BY <1>4 DEF Result
<1>9. Promises(txn[s])'
  BY <1>3, <1>5, <1>6, <1>7, <1>8
     DEF Promises, RollOK, ShelvedOK, ShelfOK, FoldOK, RootOK, Were, MaxSeverity, Unshelved, Open
<1>10. \A o \in Sessions : o = s
  BY DEF OneSession
<1>11. AlarmsTypeOK'
  BY <1>0, <1>3 DEF AlarmsTypeOK
<1>12. Good(db)'
  BY <1>0, <1>3 DEF Good, RollOK, ShelvedOK, ShelfOK, FoldOK, RootOK, MaxSeverity, Unshelved, Open
<1> QED BY <1>9, <1>10, <1>11, <1>12 DEF AlarmsInv

\* With nothing else committed since it began, a transaction leaves its result.
LEMMA Merged ==
    ASSUME db \in Database, NEW t \in Transaction, Promises(t), NEW m, m = Merge(t)
    PROVE  /\ m \in Database /\ m.row = t.to.row /\ m.win = t.to.win /\ m.life = t.to.life
           /\ \A x \in Devices : m.roll[x] = t.to.roll[x]
<1> DEFINE Pick(f, from, to) == [x \in DOMAIN f |-> IF from[x] # to[x] THEN to[x] ELSE f[x]]
<1>0. t.from = db /\ t.to \in Database /\ t.fresh \subseteq Devices
  BY DEF Promises, Transaction
<1>1. ASSUME NEW A, NEW B, NEW f \in [A -> B], NEW to \in [A -> B] PROVE Pick(f, f, to) = to
  OBVIOUS
<1>2. m.row = Pick(db.row, db.row, t.to.row)
  BY <1>0 DEF Merge
<1>3. m.win = Pick(db.win, db.win, t.to.win)
  BY <1>0 DEF Merge
<1>4. m.life = Pick(db.life, db.life, t.to.life)
  BY <1>0 DEF Merge
<1>5. m.roll = [x \in Devices |-> IF x \in t.fresh THEN t.to.roll[x] ELSE db.roll[x]]
  BY DEF Merge
<1> HIDE DEF Pick
<1>6. db.row \in [Keys -> Row] /\ t.to.row \in [Keys -> Row]
  BY <1>0 DEF Database
<1>7. /\ db.win \in [Windows -> {"scheduled", "active", "completed", "cancelled"}]
      /\ t.to.win \in [Windows -> {"scheduled", "active", "completed", "cancelled"}]
  BY <1>0 DEF Database
<1>8. /\ db.life \in [Devices -> {"installed", "in_service"}]
      /\ t.to.life \in [Devices -> {"installed", "in_service"}]
  BY <1>0 DEF Database
<1>9. m.row = t.to.row
  BY <1>1, <1>2, <1>6
<1>10. m.win = t.to.win
  BY <1>1, <1>3, <1>7
<1>11. m.life = t.to.life
  BY <1>1, <1>4, <1>8
<1>12. \A x \in Devices : m.roll[x] = t.to.roll[x]
  BY <1>5 DEF Promises
<1>13. m \in Database
  BY MergeType
<1> QED BY <1>9, <1>10, <1>11, <1>12, <1>13

LEMMA CommitKeeps ==
    ASSUME OneSession, AlarmsInv, NEW s \in Sessions, Commit(s)
    PROVE  AlarmsInv'
<1>0. db \in Database /\ AlarmsTypeOK
  BY DEF AlarmsInv, AlarmsTypeOK
<1>1. PICK t : t = txn[s]
  OBVIOUS
<1>2. t \in Transaction /\ Promises(t)
  BY <1>0, <1>1, CommitType DEF AlarmsInv, Commit
<1>3. PICK m, gone : m = Merge(t) /\ gone = ClearedBy(t)
  OBVIOUS
<1>4. db' = Repoint(m, gone) /\ Finish(s, gone)
  BY <1>1, <1>3 DEF Commit
<1>5. /\ m \in Database /\ m.row = t.to.row /\ m.win = t.to.win /\ m.life = t.to.life
      /\ \A x \in Devices : m.roll[x] = t.to.roll[x]
  BY <1>0, <1>2, <1>3, Merged
<1>6. /\ db' \in Database /\ SameRest(m, db')
      /\ \A k \in Keys :
            /\ SameButFold(m.row[k], db'.row[k]) /\ db'.row[k].root = m.row[k].root
            /\ db'.row[k].rs = IF m.row[k].rs = "open" /\ m.row[k].root \in gone
                               THEN "hold" ELSE m.row[k].rs
  BY <1>4, <1>5, Repointed
<1>7. gone = {k \in Keys : Open(db, k) /\ ~ Open(m, k)}
  BY <1>2, <1>3, <1>5 DEF ClearedBy, Promises, Open
<1>8. RollOK(m) /\ ShelvedOK(m) /\ FoldOK(m, Were)
  <2>1. RollOK(m)
    <3> SUFFICES ASSUME NEW x \in Devices PROVE m.roll[x] = MaxSeverity(m, x)
      BY DEF RollOK
    <3>1. MaxSeverity(m, x) = MaxSeverity(t.to, x)
      BY <1>5, SameRows
    <3> QED BY <1>2, <1>5, <3>1 DEF Promises, RollOK
  <2>2. ShelvedOK(m)
    BY <1>2, <1>5 DEF Promises, ShelvedOK, ShelfOK, Open
  <2>3. FoldOK(m, Were)
    BY <1>2, <1>5 DEF Promises, FoldOK, RootOK, Open
  <2> QED BY <2>1, <2>2, <2>3
<1> DEFINE e == db'
<1>9. Refits(m, e)
  BY <1>6 DEF Refits
<1>10. RollOK(e)
  <2> SUFFICES ASSUME NEW x \in Devices PROVE e.roll[x] = MaxSeverity(e, x)
    BY DEF RollOK
  <2> HIDE DEF e
  <2>1. \A k \in Keys : SameShown(m.row[k], e.row[k])
    BY <1>9, RefitsShown
  <2>2. MaxSeverity(m, x) = MaxSeverity(e, x)
    BY <2>1, SameSeverity
  <2> QED BY <1>8, <1>9, <2>2 DEF RollOK, Refits, SameRest
<1>11. ShelvedOK(e)
  <2> HIDE DEF e
  <2> QED BY <1>8, <1>9, RefitsShelved
<1>12. FoldOK(e, {})
  <2> SUFFICES ASSUME NEW k \in Keys PROVE RootOK(e, {}, k, e.row[k])
    BY DEF FoldOK
  <2>1. RootOK(m, Were, k, m.row[k])
    BY <1>8 DEF FoldOK
  <2>2. \A o \in Keys : Open(e, o) <=> Open(m, o)
    BY <1>6 DEF SameButFold, Open
  <2>3. \A o \in Were : ~ Open(m, o) => o \in gone
    BY <1>7 DEF Were
  <2>4. OtherEnd(k) \subseteq Keys
    BY EndsAreKeys
  <2>5. gone \subseteq Keys /\ \A o \in gone : ~ Open(m, o)
    BY <1>7
  <2>6. /\ e.row[k].root = m.row[k].root
        /\ e.row[k].rs = IF m.row[k].rs = "open" /\ m.row[k].root \in gone
                         THEN "hold" ELSE m.row[k].rs
    BY <1>6
  <2>7. \A p \in Keys : e.row[p].root = m.row[p].root
    BY <1>6
  <2> HIDE DEF e
  <2> DEFINE root == m.row[k].root
  <2>8. CASE m.row[k].rs = "open" /\ root \in gone
    <3>1. Held(root) /\ root \in Keys
      BY <2>1, <2>5, <2>8 DEF RootOK
    <3>2. root \in SupplyFaults(k)
      BY <3>1 DEF Held, PowerRoot, SupplyFaults
    <3>3. e.row[k].rs = "hold" /\ e.row[k].root = root
      BY <2>6, <2>8
    <3>4. Layered => \A p \in OtherEnd(k) : e.row[k].root = p => e.row[p].root # k
      BY <2>1, <2>4, <2>6, <2>7 DEF RootOK
    <3> QED BY <3>2, <3>3, <3>4 DEF RootOK
  <2>9. CASE ~ (m.row[k].rs = "open" /\ root \in gone)
    <3>1. e.row[k].rs = m.row[k].rs /\ e.row[k].root = root
      BY <2>6, <2>9
    <3>2. m.row[k].rs = "open" => /\ root \in Keys /\ Open(e, root)
                                  /\ Layered => root \in Causes(k) \cup OtherEnd(k)
      BY <2>1, <2>2, <2>3, <2>9 DEF RootOK
    <3>3. Layered => \A p \in OtherEnd(k) : e.row[k].root = p => e.row[p].root # k
      BY <2>1, <2>4, <2>6, <2>7 DEF RootOK
    <3> QED BY <2>1, <3>1, <3>2, <3>3 DEF RootOK
  <2> QED BY <2>8, <2>9
<1>13. Good(db)'
  <2>1. Good(e)
    BY <1>10, <1>11, <1>12 DEF Good
  <2> QED BY <2>1
          DEF Good, RollOK, ShelvedOK, ShelfOK, FoldOK, RootOK, MaxSeverity, Unshelved, Open
<1>14. \A o \in Sessions : ~ txn'[o].busy
  BY <1>4 DEF OneSession, Finish, Idle
<1>15. AlarmsTypeOK'
  BY <1>0, CommitType
<1> QED BY <1>13, <1>14, <1>15 DEF AlarmsInv

LEMMA RollbackKeeps ==
    ASSUME OneSession, AlarmsInv, NEW s \in Sessions, Rollback(s)
    PROVE  AlarmsInv'
<1>1. Finish(s, {}) /\ UNCHANGED <<db, recent>> /\ AlarmsTypeOK
  BY DEF Rollback, AlarmsInv
<1>2. \A o \in Sessions : ~ txn'[o].busy
  BY <1>1 DEF OneSession, Finish, Idle
<1>3. AlarmsTypeOK'
  BY <1>1, FinishType DEF AlarmsTypeOK
<1>4. Good(db)'
  BY <1>1 DEF AlarmsInv, Good, RollOK, ShelvedOK, ShelfOK, FoldOK, RootOK, MaxSeverity,
              Unshelved, Open
<1> QED BY <1>2, <1>3, <1>4 DEF AlarmsInv

LEMMA TimeKeeps ==
    ASSUME AlarmsInv, NEW k \in Keys, TimePasses(k)
    PROVE  AlarmsInv'
<1>0. db \in Database /\ AlarmsTypeOK /\ Good(db)
  BY DEF AlarmsInv, AlarmsTypeOK
<1>1. /\ db' = HoldOver(db, k)
      /\ recent' = [recent EXCEPT ![k] = IF @ = "hold" THEN "window" ELSE "no"]
      /\ UNCHANGED txn /\ Pending = {}
  BY DEF TimePasses, HoldOver
<1>2. PICK e : e = db'
  OBVIOUS
<1>3. e = HoldOver(db, k)
  BY <1>1, <1>2
<1>4. /\ e \in Database /\ SameRest(db, e)
      /\ \A o \in Keys :
            /\ SameButFold(db.row[o], e.row[o]) /\ e.row[o].root = db.row[o].root
            /\ e.row[o].rs = IF db.row[o].root = k /\ db.row[o].rs = "hold"
                             THEN "past" ELSE db.row[o].rs
  BY <1>0, <1>3, HoldEnds
<1>5. Refits(db, e)
  BY <1>4 DEF Refits
<1>6. RollOK(e)
  <2> SUFFICES ASSUME NEW x \in Devices PROVE e.roll[x] = MaxSeverity(e, x)
    BY DEF RollOK
  <2>1. \A o \in Keys : SameShown(db.row[o], e.row[o])
    BY <1>5, RefitsShown
  <2>2. MaxSeverity(db, x) = MaxSeverity(e, x)
    BY <2>1, SameSeverity
  <2> QED BY <1>0, <1>5, <2>2 DEF Good, RollOK, Refits, SameRest
<1>7. ShelvedOK(e)
  <2> QED BY <1>0, <1>5, RefitsShelved DEF Good
<1>8. FoldOK(e, {})
  <2> SUFFICES ASSUME NEW o \in Keys PROVE RootOK(e, {}, o, e.row[o])
    BY DEF FoldOK
  <2>1. RootOK(db, {}, o, db.row[o])
    BY <1>0 DEF Good, FoldOK
  <2>2. \A p \in Keys : (Open(e, p) <=> Open(db, p)) /\ e.row[p].root = db.row[p].root
    BY <1>4 DEF SameButFold, Open
  <2>3. OtherEnd(o) \subseteq Keys
    BY EndsAreKeys
  <2>4. /\ e.row[o].root = db.row[o].root
        /\ e.row[o].rs = IF db.row[o].root = k /\ db.row[o].rs = "hold"
                         THEN "past" ELSE db.row[o].rs
    BY <1>4
  <2> QED BY <2>1, <2>2, <2>3, <2>4 DEF RootOK
<1>9. Good(db)'
  <2>1. Good(e)
    BY <1>6, <1>7, <1>8 DEF Good
  <2> QED BY <1>2, <2>1
          DEF Good, RollOK, ShelvedOK, ShelfOK, FoldOK, RootOK, MaxSeverity, Unshelved, Open
<1>10. recent' \in [Keys -> {"no", "window", "hold"}]
  BY <1>0, <1>1 DEF AlarmsTypeOK
<1>11. AlarmsTypeOK'
  BY <1>0, <1>1, <1>4, <1>10, <1>2 DEF AlarmsTypeOK
<1>12. \A s \in Sessions : ~ txn'[s].busy
  BY <1>1 DEF Pending
<1> QED BY <1>9, <1>11, <1>12 DEF AlarmsInv

\* Between commits the table is good, and the transaction that is open started
\* from it and promises to leave it so.
THEOREM AlarmsInvariant == ASSUME OneSession PROVE Spec => []AlarmsInv
<1>1. Init => AlarmsInv
  <2> SUFFICES ASSUME Init PROVE AlarmsInv
    OBVIOUS
  <2>1. /\ AlarmsTypeOK /\ db.row = [k \in Keys |-> Blank] /\ db.roll = [x \in Devices |-> 0]
        /\ \A s \in Sessions : ~ txn[s].busy
    BY Started
  <2>2. \A k \in Keys : db.row[k].st = "CLEARED" /\ db.row[k].root = None /\ db.row[k].rs = "none"
    BY <2>1 DEF Blank
  <2>3. RollOK(db)
    <3> SUFFICES ASSUME NEW x \in Devices PROVE MaxSeverity(db, x) = 0
      BY <2>1 DEF RollOK
    <3>1. Unshelved(db, x) = {}
      BY <2>2 DEF Unshelved, On, Open
    <3>2. MaxSeverity(db, x) = Max({0})
      BY <3>1 DEF MaxSeverity
    <3>3. \E y \in {0} : \A z \in {0} : y >= z
      OBVIOUS
    <3> QED BY <3>2, <3>3 DEF Max
  <2>4. ShelvedOK(db)
    BY <2>2 DEF ShelvedOK, Open
  <2>5. FoldOK(db, {})
    <3> SUFFICES ASSUME NEW k \in Keys PROVE RootOK(db, {}, k, db.row[k])
      BY DEF FoldOK
    <3>1. \A p \in OtherEnd(k) : p # None
      BY DEF OtherEnd
    <3> QED BY <2>2, <3>1 DEF RootOK
  <2> QED BY <2>1, <2>3, <2>4, <2>5 DEF AlarmsInv, Good
<1>2. AlarmsInv /\ [Next]_vars => AlarmsInv'
  <2> SUFFICES ASSUME AlarmsInv, [Next]_vars PROVE AlarmsInv'
    OBVIOUS
  <2>0. db \in Database
    BY DEF AlarmsInv, AlarmsTypeOK
  <2>1. CASE UNCHANGED vars
    <3>1. db' = db /\ txn' = txn /\ recent' = recent
      BY <2>1 DEF vars
    <3>2. AlarmsTypeOK'
      BY <3>1 DEF AlarmsInv, AlarmsTypeOK
    <3>3. Good(db)'
      BY <3>1 DEF AlarmsInv, Good, RollOK, ShelvedOK, ShelfOK, FoldOK, RootOK, MaxSeverity,
                  Unshelved, Open
    <3>4. ASSUME NEW s \in Sessions, txn'[s].busy PROVE Promises(txn[s])'
      <4>1. Promises(txn[s])
        BY <3>1, <3>4 DEF AlarmsInv
      <4>2. txn'[s].from = db' /\ \A x \in Devices \ txn'[s].fresh : txn'[s].to.roll[x] = db'.roll[x]
        BY <3>1, <4>1 DEF Promises
      <4>3. RollOK(txn[s].to)'
        BY <3>1, <4>1 DEF Promises, RollOK, MaxSeverity, Unshelved, Open
      <4>4. ShelvedOK(txn[s].to)'
        BY <3>1, <4>1 DEF Promises, ShelvedOK, ShelfOK, Open
      <4>5. FoldOK(txn[s].to, Were)'
        <5>1. Were' = Were
          BY <3>1 DEF Were, Open
        <5> QED BY <3>1, <4>1, <5>1 DEF Promises, FoldOK, RootOK, Open
      <4> QED BY <4>2, <4>3, <4>4, <4>5 DEF Promises
    <3> QED BY <3>2, <3>3, <3>4 DEF AlarmsInv
  <2>2. CASE Next
    BY <2>0, <2>2, StepKinds, RunKeeps, CommitKeeps, RollbackKeeps, TimeKeeps
  <2> QED BY <2>1, <2>2
<1> QED BY <1>1, <1>2, PTL DEF Spec

\* One transaction at a time, the severity a device shows is that of its worst
\* open alarm nobody shelved, after every commit.
THEOREM RollUpStaysCurrent == ASSUME OneSession PROVE Spec => []RollUpIsCurrent
<1>1. AlarmsInv => RollUpIsCurrent
  BY DEF AlarmsInv, Good, RollOK, RollUpIsCurrent
<1> QED BY <1>1, AlarmsInvariant, PTL

\* One transaction at a time, no open alarm stays shelved after its window has
\* ended or its device has gone into service.
THEOREM ShelvedAlwaysForAReason == ASSUME OneSession PROVE Spec => []ShelvedForAReason
<1>1. AlarmsInv => ShelvedForAReason
  <2> SUFFICES ASSUME AlarmsInv, NEW k \in Keys, Open(db, k), db.row[k].why # None
               PROVE  IF db.row[k].win # None THEN db.win[db.row[k].win] = "active"
                      ELSE db.life[DeviceOf[k]] = "installed"
    BY DEF ShelvedForAReason
  <2>1. ShelfOK(db, k, db.row[k])
    BY DEF AlarmsInv, Good, ShelvedOK
  <2>2. db.row[k].why \in {None, "maintenance_window", "not_commissioned"}
    BY DEF AlarmsInv, AlarmsTypeOK, Database, Row
  <2> QED BY <2>1, <2>2 DEF ShelfOK
<1> QED BY <1>1, AlarmsInvariant, PTL

\* One transaction at a time, whatever the cabling: the root of a symptom that is
\* not waiting out a hold is an open alarm, and whoever waits one out does so under
\* a fault of its own supply.  Every other clear releases what it explained.
RootsStand ==
    \A k \in Keys : /\ db.row[k].rs = "open" => Open(db, db.row[k].root)
                    /\ db.row[k].rs \in {"hold", "past"} => db.row[k].root \in SupplyFaults(k)
THEOREM ClearsRelease == ASSUME OneSession PROVE Spec => []RootsStand
<1>1. AlarmsInv => RootsStand
  BY DEF AlarmsInv, Good, FoldOK, RootOK, RootsStand
<1> QED BY <1>1, AlarmsInvariant, PTL

\* One transaction at a time, over cabling without a loop, nothing is folded in
\* a circle, either.
THEOREM ChainAlwaysEndsAtARoot ==
    ASSUME OneSession, Layered PROVE Spec => []ChainEndsAtARoot
<1>1. AlarmsInv => ChainEndsAtARoot
  <2> SUFFICES ASSUME AlarmsInv PROVE ChainEndsAtARoot
    OBVIOUS
  <2>0. \A k \in Keys : RootOK(db, {}, k, db.row[k])
    BY DEF AlarmsInv, Good, FoldOK
  <2>1. ASSUME NEW S \in (SUBSET {k \in Keys : Symptom(db, k)}) \ {{}}
        PROVE  \E k \in S : ~ Open(db, k) \/ db.row[k].rs # "open" \/ db.row[k].root \notin S
    <3> SUFFICES ASSUME \A k \in S : db.row[k].rs = "open" /\ db.row[k].root \in S PROVE FALSE
      OBVIOUS
    <3>1. S \in (SUBSET Keys) \ {{}}
      BY <2>1
    <3>2. PICK k \in S : \A x \in {k} \cup OtherEnd(k) : S \cap Causes(x) = {}
      BY <3>1 DEF Layered, NoLoop
    <3> DEFINE p == db.row[k].root
    <3>3. p \in S /\ p \in OtherEnd(k)
      BY <2>0, <3>1, <3>2 DEF RootOK
    <3>4. OtherEnd(p) = {k}
      BY <3>1, <3>3, OtherEnds
    <3>5. db.row[p].root = k
      BY <2>0, <3>1, <3>2, <3>3, <3>4 DEF RootOK
    <3>6. db.row[p].root # k
      BY <2>0, <3>1, <3>3 DEF RootOK
    <3> QED BY <3>5, <3>6
  <2>2. \A k \in Keys : db.row[k].rs \in {"hold", "past"} => db.row[k].root \in SupplyFaults(k)
    BY <2>0 DEF RootOK
  <2> QED BY <2>1, <2>2 DEF ChainEndsAtARoot
<1> QED BY <1>1, AlarmsInvariant, PTL
=============================================================================
