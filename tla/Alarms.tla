------------------------------- MODULE Alarms -------------------------------
(* The alarm table of the platform and every transaction that changes it:   *)
(* detectors raising and clearing (app/alarms/service.py), the folding of    *)
(* symptoms under their root (app/alarms/correlation.py, link_correlation),  *)
(* the shelving done by maintenance windows and by the device lifecycle, the *)
(* operator's acknowledge and clear, and the roll-up in device_state.        *)
(*                                                                           *)
(* The database is one record.  A handler reads the committed database,      *)
(* leaves its result in txn[s], and commits or rolls back later: between the *)
(* two another session reads the old rows, as under READ COMMITTED.  Alarm   *)
(* rows and windows a transaction has changed are locked; device_state is    *)
(* written from what was read before the lock was free: the later commit wins. *)
(*                                                                           *)
(* A key stands for (device, alarm_type, instance) and has at most one open  *)
(* row.  Heat alarms, which cooling_correlation also folds, are not keys.    *)
EXTENDS Integers, FiniteSetsExt

CONSTANTS
    Devices, Keys, Windows, Sessions, None,
    DeviceOf,    \* [Keys -> Devices]
    Kind,        \* [Keys -> {"trip","silent","stale","link","flap","restart","measure"}]
    Reports,     \* [Keys -> SUBSET [sev, src]]: what its detectors may say
    Feeds,       \* [Devices -> set of sides, each a set of direct feeders]
    Carriers,    \* [Devices -> SUBSET Devices]: what it is polled through
    Peer,        \* [Keys -> Keys \cup {None}]: the port at the other end of the cable
    Higher,      \* [Keys -> SUBSET Keys]: the higher bands of one measurement
    Parts,       \* [Keys -> SUBSET Keys]: the same alarm type with a part named
    Suppresses,  \* [Windows -> BOOLEAN]
    NeedsApproval,   \* [Windows -> BOOLEAN]
    FirstTargets,    \* [Windows -> SUBSET Devices]
    Touchable    \* the alarms, devices and windows an operator's requests are about

Top == 3
Detectors == {"trap", "rule", "comm", "staleness"}

ASSUME AlarmsAssumption ==
    /\ DeviceOf \in [Keys -> Devices]
    /\ Kind \in [Keys -> {"trip", "silent", "stale", "link", "flap", "restart", "measure"}]
    /\ Reports \in [Keys -> SUBSET [sev : 0..Top, src : Detectors]]
    /\ Feeds \in [Devices -> SUBSET SUBSET Devices]
    /\ Carriers \in [Devices -> SUBSET Devices]
    /\ Peer \in [Keys -> Keys \cup {None}]
    /\ Higher \in [Keys -> SUBSET Keys] /\ Parts \in [Keys -> SUBSET Keys]
    /\ FirstTargets \in [Windows -> SUBSET Devices]
    /\ \A S \in (SUBSET Keys) \ {{}} : \E h \in S : Higher[h] \cap S = {}
    /\ None \notin Keys \cup Windows \cup Detectors \cup
                   {"maintenance_window", "not_commissioned"}

VARIABLES db, txn, recent
vars == <<db, txn, recent>>

Blank == [st |-> "CLEARED", sev |-> 0, src |-> None, by |-> None,
          root |-> None, rs |-> "none", win |-> None, why |-> None]
Row == [st : {"CLEARED", "ACTIVE", "ACKNOWLEDGED"}, sev : 0..Top,
        src : {None} \cup Detectors, by : {None} \cup Detectors,
        root : Keys \cup {None}, rs : {"none", "open", "hold", "past"},
        win : Windows \cup {None},
        why : {None, "maintenance_window", "not_commissioned"}]
Database == [row : [Keys -> Row], roll : [Devices -> 0..Top],
             win : [Windows -> {"scheduled", "active", "completed", "cancelled"}],
             approval : [Windows -> {"pending", "approved", "declined"}],
             targets : [Windows -> SUBSET Devices],
             life : [Devices -> {"installed", "in_service"}]]
Idle == [busy |-> FALSE]
Transaction == [busy : {TRUE}, op : {"request", "sweep"}, from : Database, to : Database,
                fresh : SUBSET Devices, after : SUBSET Sessions]

(* root_types("power"), of which a whole-device trip is held when it clears. *)
PowerRoot == {k \in Keys : Kind[k] \in {"trip", "silent"}}
Held(k) == Kind[k] = "trip"

Open(d, k) == d.row[k].st # "CLEARED"
Symptom(d, k) == d.row[k].root # None
On(devs) == {k \in Keys : DeviceOf[k] \in devs}
Unshelved(d, dev) == {k \in On({dev}) : Open(d, k) /\ d.row[k].why = None}
MaxSeverity(d, dev) == Max({0} \cup {d.row[k].sev : k \in Unshelved(d, dev)})

-----------------------------------------------------------------------------
(* repositories/alarms.py: the statements on the alarm table.                *)

(* refresh_device_alarm_state *)
Refresh(d, devs) ==
    [d EXCEPT !.roll = [x \in Devices |-> IF x \in devs THEN MaxSeverity(d, x) ELSE @[x]]]

Suppressing(d, dev) ==
    {w \in Windows : d.win[w] = "active" /\ Suppresses[w] /\ dev \in d.targets[w]}
NewRow(d, k, rep) ==
    LET ws == Suppressing(d, DeviceOf[k]) IN
    [Blank EXCEPT !.st = "ACTIVE", !.sev = rep.sev, !.src = rep.src, !.by = rep.src,
                  !.win = IF ws # {} THEN CHOOSE w \in ws : TRUE ELSE None,
                  !.why = CASE ws # {} -> "maintenance_window"
                            [] ws = {} /\ d.life[DeviceOf[k]] = "installed" -> "not_commissioned"
                            [] OTHER -> None]
(* The ON CONFLICT branch: source keeps the value of the insert; by, which is *)
(* not a column, remembers whose report the severity is.                      *)
SevereEnough(row, rep) == rep.sev > row.sev \/ row.src = rep.src
Touched(row, rep) ==
    IF SevereEnough(row, rep) /\ rep.sev # row.sev
    THEN [row EXCEPT !.sev = rep.sev, !.by = rep.src] ELSE row
RowRaised(d, k, rep) ==
    IF Open(d, k) THEN Touched(d.row[k], rep) ELSE NewRow(d, k, rep)
raise_alarm(d, k, rep) == [d EXCEPT !.row[k] = RowRaised(d, k, rep)]
Change(d, k, rep) ==
    CASE ~Open(d, k) -> "created"
      [] Open(d, k) /\ Touched(d.row[k], rep) # d.row[k] -> "escalated"
      [] OTHER -> "touched"

-----------------------------------------------------------------------------
(* correlation.py: which root explains a new alarm.                          *)

mark_symptom(d, k, r, rs) == [d EXCEPT !.row[k].root = r, !.row[k].rs = rs]

Feeders(devs) == UNION {UNION Feeds[x] : x \in devs}
Upstream(layer, devs) ==
    IF layer = "power" THEN Feeders(devs) ELSE UNION {Carriers[x] : x \in devs}
RootsOn(d, layer, devs) ==
    {k \in On(devs) \cap PowerRoot : Open(d, k) /\ (layer = "power" \/ ~Held(k))}
(* _upstream_root: the nearest of two hops.  Which of several equally near    *)
(* roots is the oldest is left to CHOOSE.                                     *)
UpstreamRoots(d, layer, dev) ==
    LET near == Upstream(layer, {dev})
        hop1 == RootsOn(d, layer, near)
    IN IF hop1 # {} THEN hop1 ELSE RootsOn(d, layer, Upstream(layer, near))
HasSurvivingFeed(d, dev) == \E side \in Feeds[dev] : RootsOn(d, "power", side) = {}
power_dead_root(d, dev) ==
    IF HasSurvivingFeed(d, dev) THEN {} ELSE UpstreamRoots(d, "power", dev)

RecentOn(side, when) ==
    {k \in On(side \cup Feeders(side)) \cap PowerRoot : recent[k] \in when}
EverySide(dev, hits) == Feeds[dev] # {} /\ \A side \in Feeds[dev] : hits[side] # {}
restored_root(dev) ==
    LET hits == [side \in Feeds[dev] |-> RecentOn(side, {"hold"})]
    IN IF EverySide(dev, hits) THEN UNION {hits[side] : side \in Feeds[dev]} ELSE {}
RestartRoot(d, dev) ==
    LET Cleared(side) == RecentOn(side, {"hold", "window"})
        hits == [side \in Feeds[dev] |->
                   Cleared(side) \cup RootsOn(d, "power", side \cup Feeders(side))]
        cleared == UNION {Cleared(side) : side \in Feeds[dev]}
    IN IF ~EverySide(dev, hits) THEN {}
       ELSE IF cleared # {} THEN cleared \X {"hold"}
       ELSE (UNION {hits[side] : side \in Feeds[dev]}) \X {"open"}

PeerDevices(k) == IF Peer[k] = None THEN {} ELSE {DeviceOf[Peer[k]]}
DeadOrRestored(d, dev) ==
    IF power_dead_root(d, dev) # {} THEN power_dead_root(d, dev) \X {"open"}
    ELSE restored_root(dev) \X {"hold"}
(* The explanations correlate() would take, best first: <<root, its state>>. *)
Explanations(d, k) ==
    LET dev == DeviceOf[k]
        own == DeadOrRestored(d, dev)
        far == UNION {DeadOrRestored(d, p) : p \in PeerDevices(k)}
    IN CASE Kind[k] = "restart" -> RestartRoot(d, dev)
         [] Kind[k] = "flap" -> IF own # {} THEN own ELSE far
         [] Kind[k] = "link" -> far
         [] Kind[k] = "silent" ->
              IF restored_root(dev) # {} THEN restored_root(dev) \X {"hold"}
              ELSE IF UpstreamRoots(d, "management", dev) # {}
                   THEN UpstreamRoots(d, "management", dev) \X {"open"}
                   ELSE power_dead_root(d, dev) \X {"open"}
         [] OTHER -> {}
ExplainedBy(d, k, es) ==
    IF es = {} THEN d
    ELSE LET e == CHOOSE e \in es : TRUE IN mark_symptom(d, k, e[1], e[2])
correlate(d, k) == ExplainedBy(d, k, Explanations(d, k))

(* adopt_orphans: loads a trip has taken dark, and what was raised before it. *)
(* It looks for a load's root as for a new alarm's, so that the loads of      *)
(* several trips are taken in any order.                                      *)
Downstream(dev) ==
    {x \in Devices : \E near \in {Feeders({x})} : dev \in near \cup Feeders(near)}
Orphans(d, load) ==
    {k \in Keys : /\ Open(d, k) /\ ~Symptom(d, k)
                  /\ \/ Kind[k] = "silent" /\ DeviceOf[k] = load
                     \/ Kind[k] = "link" /\ load \in PeerDevices(k)}
DarkLoads(d, trips) ==
    {x \in UNION {Downstream(DeviceOf[k]) : k \in trips} : power_dead_root(d, x) # {}}
RootFor(d, o, dark) ==
    CHOOSE r \in UNION {power_dead_root(d, x) : x \in {x \in dark : o \in Orphans(d, x)}} : TRUE
adopt_orphans(d, trips) ==
    LET dark == DarkLoads(d, trips)
        orphans == UNION {Orphans(d, x) : x \in dark}
    IN [d EXCEPT !.row = [o \in Keys |-> IF o \in orphans
                    THEN [@[o] EXCEPT !.root = RootFor(d, o, dark), !.rs = "open"] ELSE @[o]]]

(* collapse_bands, then collapse_unqualified when no higher band was found.   *)
Fold(d, ks, r) == [d EXCEPT !.row = [k \in Keys |-> IF k \in ks
                       THEN [@[k] EXCEPT !.root = r, !.rs = "open"] ELSE @[k]]]
Standing(d, ks) == {k \in ks : Open(d, k) /\ ~Symptom(d, k)}
CollapseUnqualified(d, k) ==
    IF Parts[k] = {} THEN Fold(d, Standing(d, {u \in Keys : k \in Parts[u]}), k)
    ELSE IF Standing(d, Parts[k]) = {} THEN d
         ELSE mark_symptom(d, k, CHOOSE p \in Standing(d, Parts[k]) :
                \A q \in Standing(d, Parts[k]) : d.row[p].sev >= d.row[q].sev, "open")
CollapseBands(d, k) ==
    LET above == Standing(d, Higher[k])
        below == {l \in Keys : k \in Higher[l] /\ Open(d, l)}
    IN IF above # {}
       THEN mark_symptom(d, k, CHOOSE h \in above : above \cap Higher[h] = {}, "open")
       ELSE CollapseUnqualified(Fold(d, below, k), k)

(* pair_ends: the end that saw it first is the root; the two marks of an      *)
(* earlier pairing tell which one that was.                                   *)
PeerMayBeFirst(d, k) ==
    IF d.row[Peer[k]].root = k THEN {FALSE}
    ELSE IF d.row[k].root = Peer[k] THEN {TRUE} ELSE BOOLEAN
PairEndsNewest(d, k, peerFirst) == mark_symptom(d, k, Peer[k], "open")   \* mutant
PairEnds(d, k, peerFirst) ==
    IF peerFirst THEN mark_symptom(d, k, Peer[k], "open")
    ELSE mark_symptom(d, Peer[k], k, "open")

-----------------------------------------------------------------------------
(* service.py: the handlers.  Each returns the database it would commit.      *)

(* An alarm nothing explains: a new trip takes the loads it made dark, bands  *)
(* are collapsed, the two ends of a cable paired.                             *)
Paired(d, k, peerFirst) ==
    IF Kind[k] = "link" /\ Peer[k] # None /\ Open(d, Peer[k])
    THEN PairEnds(d, k, peerFirst) ELSE d
AsRoot(d, k, isNew, peerFirst) ==
    Paired(CollapseBands(IF isNew /\ Kind[k] = "trip" THEN adopt_orphans(d, {k}) ELSE d, k),
           k, peerFirst)
Correlated(d, k, isNew, peerFirst) ==
    IF Explanations(d, k) # {} THEN correlate(d, k) ELSE AsRoot(d, k, isNew, peerFirst)
(* handle_event and _apply_candidate, from the raise to the roll-up. *)
AfterRaise(d, k, rep, peerFirst) ==
    IF Change(d, k, rep) = "touched" THEN d
    ELSE Correlated(raise_alarm(d, k, rep), k, Change(d, k, rep) = "created", peerFirst)

(* The rows are closed, and release_symptoms frees what was folded under them; *)
(* a held root keeps its symptoms until the sweep.                            *)
release_symptoms(row, gone) ==
    IF row.rs = "open" /\ \E r \in gone : row.root = r /\ ~Held(r)
    THEN [row EXCEPT !.root = None, !.rs = "none"] ELSE row
ClearAll(d, ks) ==
    LET gone == {k \in ks : Open(d, k)} IN
    [d EXCEPT !.row = [k \in Keys |-> IF k \in gone THEN Blank
                                      ELSE release_symptoms(@[k], gone)]]

(* sweep_staleness for the silent endpoints, sweep_dead_endpoints and         *)
(* sweep_trap_reconciliation for the keys they close, sweep_late_roots: one   *)
(* transaction in this order.                                                 *)
StaleRow(d, k) ==
    LET row == RowRaised(d, k, [sev |-> 1, src |-> "staleness"]) IN
    IF Open(d, k) \/ restored_root(DeviceOf[k]) = {} THEN row
    ELSE [row EXCEPT !.root = CHOOSE r \in restored_root(DeviceOf[k]) : TRUE, !.rs = "hold"]
StaleRaised(d, ks) ==
    [d EXCEPT !.row = [k \in Keys |-> IF k \in ks THEN StaleRow(d, k) ELSE @[k]]]
(* Mutant: only the loads are looked at, not the ports facing them. *)
ReleaseLoads(d) ==
    [d EXCEPT !.row = [k \in Keys |->
        IF @[k].root # None /\ @[k].rs = "past" /\ Held(@[k].root) /\ Kind[k] = "silent"
        THEN [@[k] EXCEPT !.root = None, !.rs = "none"] ELSE @[k]]]
release_after_hold(d) ==
    [d EXCEPT !.row = [k \in Keys |->
        IF /\ @[k].root # None /\ @[k].rs = "past" /\ Held(@[k].root)
           /\ Kind[k] # "restart"
        THEN [@[k] EXCEPT !.root = None, !.rs = "none"] ELSE @[k]]]
Sweep(d, silent, over) ==
    LET stale == {k \in Keys : Kind[k] = "stale"} IN
    {release_after_hold(adopt_orphans(d2, {k \in Standing(d2, Keys) : Held(k)})) : d2 \in
        {ClearAll(d1, (stale \ silent) \cup over) : d1 \in {StaleRaised(d, silent)}}}

-----------------------------------------------------------------------------
(* Maintenance windows (services/maintenance.py) and the lifecycle.           *)

Activated(d, w) ==
    [d EXCEPT !.win[w] = "active",
              !.row = [k \in Keys |->
                 IF Open(d, k) /\ @[k].win = None /\ DeviceOf[k] \in d.targets[w]
                 THEN [@[k] EXCEPT !.win = w, !.why = "maintenance_window"] ELSE @[k]]]
HeldBy(d, w) == {k \in Keys : Open(d, k) /\ d.row[k].win = w}
(* Mutant: the reason outlives the window. *)
EndedKeepsReason(d, w, status) ==
    [d EXCEPT !.win[w] = status,
              !.row = [k \in Keys |-> IF k \notin HeldBy(d, w) THEN @[k]
                                       ELSE [@[k] EXCEPT !.win = None]]]
Ended(d, w, status) ==
    [d EXCEPT !.win[w] = status,
              !.row = [k \in Keys |-> IF k \notin HeldBy(d, w) THEN @[k]
                 ELSE [@[k] EXCEPT !.win = None,
                        !.why = IF d.life[DeviceOf[k]] = "installed"
                                THEN "not_commissioned" ELSE None]]]
(* repositories/lifecycle.py _resync_shelving *)
Moved(d, dev, to) ==
    [d EXCEPT !.life[dev] = to,
              !.row = [k \in Keys |->
                 CASE DeviceOf[k] = dev /\ Open(d, k) /\ to = "installed" /\ @[k].why = None
                        -> [@[k] EXCEPT !.why = "not_commissioned"]
                   [] DeviceOf[k] = dev /\ to # "installed" /\ @[k].why = "not_commissioned"
                        -> [@[k] EXCEPT !.why = None]
                   [] OTHER -> @[k]]]

-----------------------------------------------------------------------------
Init ==
    /\ db = [row |-> [k \in Keys |-> Blank], roll |-> [x \in Devices |-> 0],
             win |-> [w \in Windows |-> "scheduled"],
             approval |-> [w \in Windows |-> "pending"],
             targets |-> FirstTargets, life |-> [x \in Devices |-> "in_service"]]
    /\ txn = [s \in Sessions |-> Idle]
    /\ recent = [k \in Keys |-> "no"]

Changed(from, to) == {k \in Keys : from.row[k] # to.row[k]}
Pending == {s \in Sessions : txn[s].busy}
Locked == UNION {Changed(txn[s].from, txn[s].to) : s \in Pending}

(* A handler ran its statements up to the commit; refreshed is what its        *)
(* refresh_device_alarm_state calls cover.                                     *)
Run(s, op, result, refreshed) ==
    /\ ~txn[s].busy
    /\ \E to \in {Refresh(result, refreshed)} :
         /\ Changed(db, to) \cap Locked = {}
         /\ refreshed # {} \/ to # db
         /\ txn' = [txn EXCEPT ![s] = [busy |-> TRUE, op |-> op, from |-> db, to |-> to,
                                       fresh |-> refreshed, after |-> Pending]]
    /\ UNCHANGED <<db, recent>>

(* A trap, or a rule whose dwell is over. *)
HandleEvent(s, k) ==
    /\ Kind[k] \notin {"silent", "stale"}
    /\ \E rep \in Reports[k],
          peerFirst \in (IF Peer[k] = None THEN {TRUE} ELSE PeerMayBeFirst(db, k)) :
         LET d == AfterRaise(db, k, rep, peerFirst)
             adopted == IF Kind[k] = "trip" THEN Changed(db, d) ELSE {}
         IN /\ Change(db, k, rep) # "touched"
            /\ Run(s, "request", d, {DeviceOf[o] : o \in {k} \cup adopted})
(* A recovery trap, which may end several alarms of its device; a rule's clear; *)
(* or the clear button and its ticket twin.                                    *)
ClearAlarm(s, dev) ==
    \E ks \in SUBSET {k \in On({dev}) : Open(db, k)} :
        ks # {} /\ Run(s, "request", ClearAll(db, ks), {dev})
EndpointOffline(s, k) ==
    /\ Kind[k] = "silent" /\ ~Open(db, k)
    /\ \E rep \in Reports[k] :
         Run(s, "request", correlate(raise_alarm(db, k, rep), k), {DeviceOf[k]})
SweepAlarms(s) ==
    /\ ~txn[s].busy
    /\ \E silent \in SUBSET {k \in Keys : Kind[k] = "stale"},
          over \in SUBSET {k \in Keys : /\ Kind[k] \in {"trip", "silent", "measure", "restart"}
                                         /\ Open(db, k)} :
        \E d \in Sweep(db, silent, over) :
           d # db /\ Run(s, "sweep", d, {DeviceOf[k] : k \in Changed(db, d)})

Acknowledge(s, k) ==
    /\ k \in Touchable /\ db.row[k].st = "ACTIVE"
    /\ Run(s, "request", [db EXCEPT !.row[k].st = "ACKNOWLEDGED"], {})
(* set_status waits for whoever has changed the window's row. *)
Settled(w) == \A o \in Pending : /\ txn[o].from.win[w] = txn[o].to.win[w]
                                 /\ txn[o].from.approval[w] = txn[o].to.approval[w]
StartWindow(s, w) ==
    /\ Settled(w) /\ db.win[w] = "scheduled"
    /\ ~NeedsApproval[w] \/ db.approval[w] = "approved"
    /\ Run(s, "request", Activated(db, w), db.targets[w])
(* Mutant: what the window no longer hides is not rolled up. *)
EndWindowQuietly(s, w) ==
    /\ Settled(w) /\ db.win[w] = "active"
    /\ Run(s, "request", Ended(db, w, "completed"), {})
EndWindow(s, w) ==
    \E status \in {"completed", "cancelled"} :
        /\ Settled(w)
        /\ db.win[w] \in {"active"} \cup (IF status = "cancelled" THEN {"scheduled"} ELSE {})
        /\ Run(s, "request", Ended(db, w, status), {DeviceOf[k] : k \in HeldBy(db, w)})
ApplyApproval(s, w) ==
    \E state \in {"approved", "declined"} :
        /\ Settled(w) /\ NeedsApproval[w] /\ db.approval[w] # state
        /\ LET d == [db EXCEPT !.approval[w] = state] IN
           Run(s, "request", IF state = "declined" /\ db.win[w] = "scheduled"
                  THEN [d EXCEPT !.win[w] = "cancelled"] ELSE d, {})
Retarget(s, w) ==
    \E dev \in Devices :
        /\ {w, dev} \subseteq Touchable
        /\ Run(s, "request", [db EXCEPT !.targets[w] =
                     IF dev \in @ THEN @ \ {dev} ELSE @ \cup {dev}], {})
ChangeLifecycle(s, dev) ==
    \E to \in {"installed", "in_service"} :
        /\ dev \in Touchable /\ db.life[dev] # to
        /\ Run(s, "request", Moved(db, dev, to), {dev})

-----------------------------------------------------------------------------
(* The end of a transaction.  A pointer to a row that is cleared meanwhile is *)
(* a pointer to a cleared row.                                                *)
ClearedBy(t) == {k \in Keys : Open(t.from, k) /\ ~Open(t.to, k)}
Repoint(d, gone) ==
    [d EXCEPT !.row = [k \in Keys |-> IF @[k].rs = "open" /\ @[k].root \in gone
                                      THEN [@[k] EXCEPT !.rs = "hold"] ELSE @[k]]]
Merge(t) ==
    LET Pick(f, from, to) == [x \in DOMAIN f |-> IF from[x] # to[x] THEN to[x] ELSE f[x]]
    IN [row |-> Pick(db.row, t.from.row, t.to.row),
        roll |-> [x \in Devices |-> IF x \in t.fresh THEN t.to.roll[x] ELSE db.roll[x]],
        win |-> Pick(db.win, t.from.win, t.to.win),
        approval |-> Pick(db.approval, t.from.approval, t.to.approval),
        targets |-> Pick(db.targets, t.from.targets, t.to.targets),
        life |-> Pick(db.life, t.from.life, t.to.life)]
Finish(s, gone) ==
    txn' = [o \in Sessions |->
              IF o = s \/ ~txn[o].busy THEN Idle
              ELSE [txn[o] EXCEPT !.from = Repoint(@, gone), !.to = Repoint(@, gone),
                                  !.after = @ \ {s}]]
(* Whoever wrote a device's row of device_state first commits first. *)
WaitsFor(t, u) == t.fresh \cap u.fresh # {}
Commit(s) ==
    /\ txn[s].busy
    /\ \A o \in txn[s].after : ~WaitsFor(txn[s], txn[o])
    /\ LET gone == ClearedBy(txn[s]) IN
       /\ db' = Repoint(Merge(txn[s]), gone)
       /\ recent' = [k \in Keys |-> IF k \in gone \cap PowerRoot THEN "hold" ELSE recent[k]]
       /\ Finish(s, gone)
Rollback(s) == txn[s].busy /\ Finish(s, {}) /\ UNCHANGED <<db, recent>>

(* RESTORE_HOLD_S, later RESTORE_WINDOW_S, after a row was cleared: far longer *)
(* than a transaction.                                                         *)
TimePasses(k) ==
    /\ Pending = {} /\ (recent[k] # "no" \/ \E o \in Keys : db.row[o].root = k
                                                        /\ db.row[o].rs = "hold")
    /\ recent' = [recent EXCEPT ![k] = IF @ = "hold" THEN "window" ELSE "no"]
    /\ db' = [db EXCEPT !.row = [o \in Keys |-> IF @[o].root = k /\ @[o].rs = "hold"
                                   THEN [@[o] EXCEPT !.rs = "past"] ELSE @[o]]]
    /\ UNCHANGED txn

Next ==
    \/ \E s \in Sessions :
         \/ \E k \in Keys : HandleEvent(s, k) \/ EndpointOffline(s, k) \/ Acknowledge(s, k)
         \/ \E w \in Windows : \/ StartWindow(s, w) \/ EndWindow(s, w)
                               \/ ApplyApproval(s, w) \/ Retarget(s, w)
         \/ \E dev \in Devices : ClearAlarm(s, dev) \/ ChangeLifecycle(s, dev)
         \/ SweepAlarms(s) \/ Commit(s) \/ Rollback(s)
    \/ \E k \in Keys : TimePasses(k)

Spec == Init /\ [][Next]_vars
(* A transaction ends.  Each worker's tick reaches the sweep however busy the *)
(* streams are, and a sweep that keeps being tried is not rolled back for ever. *)
SweepCommits(s) == txn[s].busy /\ txn[s].op = "sweep" /\ Commit(s)
Fairness ==
    \A s \in Sessions : /\ WF_vars(Commit(s) \/ Rollback(s))
                        /\ SF_vars(SweepAlarms(s)) /\ SF_vars(SweepCommits(s))
FairSpec == Spec /\ Fairness

-----------------------------------------------------------------------------
(* The table, the windows and the open transactions keep their shape. *)
AlarmsTypeOK ==
    /\ db \in Database
    /\ recent \in [Keys -> {"no", "window", "hold"}]
    /\ txn \in [Sessions -> {Idle} \cup Transaction]

(* The severity a device shows (device_state.max_severity, which racks, rooms *)
(* and the device list read) is that of its worst open alarm nobody shelved.  *)
RollUpIsCurrent == \A x \in Devices : db.roll[x] = MaxSeverity(db, x)

(* An open alarm is shelved only while the window that holds it is running, or *)
(* while its device is not commissioned.                                       *)
ShelvedForAReason ==
    \A k \in Keys : Open(db, k) /\ db.row[k].why # None =>
        IF db.row[k].win # None THEN db.win[db.row[k].win] = "active"
        ELSE db.life[DeviceOf[k]] = "installed"

(* Following an alarm's root, then the root's root, ends at an alarm that is    *)
(* nobody's symptom, shelved or not, or at a fault of the power supply that     *)
(* cleared: nothing is folded in a circle, and the clear of any other root has  *)
(* released what it explained, the silence of a switch others are polled        *)
(* through included (release_symptoms).                                         *)
SupplyFaults(k) ==
    {r \in PowerRoot :
        \/ Held(r)
        \/ \E x \in {DeviceOf[k]} \cup PeerDevices(k) :
              DeviceOf[r] \in Feeders({x}) \cup Feeders(Feeders({x}))}
ChainEndsAtARoot ==
    /\ \A S \in (SUBSET {k \in Keys : Symptom(db, k)}) \ {{}} :
         \E k \in S : ~Open(db, k) \/ db.row[k].rs # "open" \/ db.row[k].root \notin S
    /\ \A k \in Keys : db.row[k].rs \in {"hold", "past"} => db.row[k].root \in SupplyFaults(k)

(* What a breaker trip explained and is still open when the hold after its     *)
(* clear is over becomes an alarm of its own.                                   *)
StuckUnder(k, roots) ==
    Open(db, k) /\ Kind[k] # "restart" /\ db.row[k].rs = "past" /\ db.row[k].root \in roots
HeldIsReleased == []<>(\A k \in Keys : ~StuckUnder(k, {r \in Keys : Held(r)}))

(* The same for every root: "still open three minutes after the power came     *)
(* back ... become roots of their own", a feeder that was only unreachable      *)
(* included.                                                                    *)
StillOpenBecomesARoot == []<>(\A k \in Keys : ~StuckUnder(k, Keys))

(* Shelving must not leave "a red room and an empty alarm list"                 *)
(* (services/maintenance.py): while a device shows a severity and no symptom     *)
(* waits out a hold, the list has an alarm (list_alarms: neither a symptom nor   *)
(* shelved).                                                                     *)
Listed == {k \in Keys : Open(db, k) /\ ~Symptom(db, k) /\ db.row[k].why = None}
RedIsListed ==
    (\E x \in Devices : db.roll[x] > 0) /\ (\A k \in Keys : db.row[k].rs \in {"none", "open"})
        => Listed # {}

(* An open alarm's severity is lowered only by the detector that set it.       *)
LoweredByItsSetter ==
    [][\A k \in Keys : Open(db, k) /\ Open(db', k) /\ db'.row[k].sev < db.row[k].sev
                          => db'.row[k].by = db.row[k].by]_vars
=============================================================================
