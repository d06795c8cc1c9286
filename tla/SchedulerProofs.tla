-------------------------- MODULE SchedulerProofs ---------------------------
(***************************************************************************)
(* What the poll scheduler and the limiter guarantee for any number of     *)
(* wheels, endpoints, targets and workers, and any limits: the limiter's   *)
(* count is the slots in use, and so a target's limit holds for the polls  *)
(* that are really at it.                                                  *)
(***************************************************************************)
EXTENDS Scheduler, SequenceTheorems, FiniteSetTheorems, TLAPS

---------------------------------------------------------------------------
(* Deferred jobs.                                                          *)

Distinct(s) == \A i, k \in DOMAIN s : s[i] = s[k] => i = k

LEMMA JoinFacts ==
    ASSUME NEW S, NEW a \in Seq(S), NEW b \in Seq(S)
    PROVE  /\ a \o b \in Seq(S) /\ Len(a \o b) = Len(a) + Len(b)
           /\ \A k \in 1 .. Len(a) : (a \o b)[k] = a[k]
           /\ \A k \in 1 .. Len(b) : (a \o b)[k + Len(a)] = b[k]
OBVIOUS

\* Taking a job out of the deferred ones leaves the others, each still once.
LEMMA WithoutFacts ==
    ASSUME NEW S, NEW s \in Seq(S), Distinct(s), NEW j
    PROVE  /\ Without(s, j) \in Seq(S) /\ Distinct(Without(s, j))
           /\ \A k \in DOMAIN Without(s, j) :
                 Without(s, j)[k] # j /\ \E i \in DOMAIN s : Without(s, j)[k] = s[i]
<1> DEFINE i == CHOOSE k \in DOMAIN s : s[k] = j
           a == SubSeq(s, 1, i - 1)
           b == SubSeq(s, i + 1, Len(s))
<1>1. CASE j \notin Range(s)
  <2>1. Without(s, j) = s
    BY <1>1 DEF Without
  <2> QED BY <1>1, <2>1 DEF Range
<1>2. CASE j \in Range(s)
  <2>1. i \in DOMAIN s /\ s[i] = j
    BY <1>2 DEF Range
  <2>2. i \in 1 .. Len(s) /\ Without(s, j) = a \o b
    <3>1. Without(s, j) = a \o b
      BY <1>2 DEF Without
    <3> HIDE DEF i
    <3>2. i \in 1 .. Len(s)
      BY <2>1
    <3> QED BY <3>1, <3>2
  <2> HIDE DEF i
  <2>3. a \in Seq(S) /\ Len(a) = i - 1 /\ \A k \in 1 .. i - 1 : a[k] = s[k]
    BY <2>2
  <2>4. /\ b \in Seq(S) /\ Len(b) = Len(s) - i
        /\ \A k \in 1 .. Len(s) - i : b[k] = s[k + i]
    BY <2>2
  <2> DEFINE c == a \o b
             from(k) == IF k < i THEN k ELSE k + 1
  <2> HIDE DEF a, b
  <2>5. /\ c \in Seq(S) /\ Len(c) = Len(s) - 1 /\ DOMAIN c = 1 .. Len(s) - 1
        /\ \A k \in 1 .. i - 1 : c[k] = a[k]
        /\ \A k \in 1 .. Len(s) - i : c[k + (i - 1)] = b[k]
    <3>1. /\ c \in Seq(S) /\ Len(c) = Len(a) + Len(b)
          /\ \A k \in 1 .. Len(a) : c[k] = a[k]
          /\ \A k \in 1 .. Len(b) : c[k + Len(a)] = b[k]
      <4>1. a \in Seq(S) /\ b \in Seq(S)
        BY <2>3, <2>4
      <4>2. /\ a \o b \in Seq(S) /\ Len(a \o b) = Len(a) + Len(b)
            /\ \A k \in 1 .. Len(a) : (a \o b)[k] = a[k]
            /\ \A k \in 1 .. Len(b) : (a \o b)[k + Len(a)] = b[k]
        BY <4>1, JoinFacts
      <4> QED BY <4>2 DEF c
    <3> HIDE DEF c
    <3>2. Len(c) = Len(s) - 1
      BY <2>2, <2>3, <2>4, <3>1
    <3> QED BY <2>2, <2>3, <2>4, <3>1, <3>2
  <2> HIDE DEF c
  <2>6. \A k \in DOMAIN c : from(k) \in DOMAIN s /\ from(k) # i /\ c[k] = s[from(k)]
    <3> SUFFICES ASSUME NEW k \in DOMAIN c
                 PROVE  from(k) \in DOMAIN s /\ from(k) # i /\ c[k] = s[from(k)]
      OBVIOUS
    <3>1. k \in 1 .. Len(s) - 1
      BY <2>5
    <3>2. CASE k < i
      <4>1. c[k] = a[k] /\ k \in 1 .. i - 1
        <5>1. k \in 1 .. i - 1
          BY <2>2, <3>1, <3>2
        <5> QED BY <2>5, <5>1
      <4> QED BY <2>2, <2>3, <3>1, <3>2, <4>1
    <3>3. CASE ~ (k < i)
      <4>1. c[k] = b[k - (i - 1)] /\ k - (i - 1) \in 1 .. Len(s) - i
        <5>1. k - (i - 1) \in 1 .. Len(s) - i /\ (k - (i - 1)) + (i - 1) = k
          BY <2>2, <3>1, <3>3
        <5> QED BY <2>5, <5>1
      <4> DEFINE n == k - (i - 1)
      <4>2. n + i = k + 1
        BY <2>2, <3>1
      <4>3. b[n] = s[n + i]
        <5> HIDE DEF n
        <5> QED BY <2>4, <4>1 DEF n
      <4> QED BY <2>2, <3>1, <3>3, <4>1, <4>2, <4>3
    <3> QED BY <3>2, <3>3
  <2>7. \A k, l \in DOMAIN c : from(k) = from(l) => k = l
    BY <2>2, <2>5
  <2> HIDE DEF c, from
  <2>8. \A k \in DOMAIN c : c[k] # j /\ \E l \in DOMAIN s : c[k] = s[l]
    BY <2>1, <2>6 DEF Distinct
  <2>9. Distinct(c)
    BY <2>6, <2>7 DEF Distinct
  <2>10. Without(s, j) = c
    BY <2>2 DEF c
  <2> QED BY <2>5, <2>8, <2>9, <2>10
<1> QED BY <1>1, <1>2

\* Deferring a job puts it last.
LEMMA AppendFacts ==
    ASSUME NEW S, NEW s \in Seq(S), Distinct(s), NEW j \in S, j \notin Range(s)
    PROVE  /\ Append(s, j) \in Seq(S) /\ Distinct(Append(s, j))
           /\ \A k \in DOMAIN Append(s, j) :
                 Append(s, j)[k] = j \/ \E i \in DOMAIN s : Append(s, j)[k] = s[i]
<1>1. /\ Append(s, j) \in Seq(S) /\ DOMAIN Append(s, j) = 1 .. Len(s) + 1
      /\ \A k \in 1 .. Len(s) : Append(s, j)[k] = s[k]
      /\ Append(s, j)[Len(s) + 1] = j
  OBVIOUS
<1>2. DOMAIN s = 1 .. Len(s) /\ \A k \in 1 .. Len(s) : s[k] # j
  BY DEF Range
<1> DEFINE z == Append(s, j)
<1> HIDE DEF z
<1>3. Distinct(z)
  BY <1>1, <1>2 DEF Distinct, z
<1> QED BY <1>1, <1>2, <1>3 DEF z

\* A worker takes the queue's head.
LEMMA TailFacts ==
    ASSUME NEW S, NEW s \in Seq(S), Distinct(s), s # <<>>
    PROVE  /\ Tail(s) \in Seq(S) /\ Distinct(Tail(s)) /\ Head(s) \in S
           /\ Len(Tail(s)) <= Len(s) /\ 1 \in DOMAIN s /\ Head(s) = s[1]
           /\ \A k \in DOMAIN Tail(s) :
                 Tail(s)[k] # Head(s) /\ \E i \in DOMAIN s : Tail(s)[k] = s[i]
<1>1. /\ Tail(s) \in Seq(S) /\ DOMAIN Tail(s) = 1 .. Len(s) - 1 /\ Len(Tail(s)) = Len(s) - 1
      /\ \A k \in 1 .. Len(s) - 1 : Tail(s)[k] = s[k + 1]
      /\ Head(s) = s[1] /\ Len(s) \in Nat /\ Len(s) >= 1 /\ DOMAIN s = 1 .. Len(s)
  OBVIOUS
<1>2. \A k \in 1 .. Len(s) - 1 : k + 1 \in DOMAIN s /\ k + 1 # 1
  BY <1>1
<1>3. \A k, l \in 1 .. Len(s) - 1 : k + 1 = l + 1 => k = l
  OBVIOUS
<1> DEFINE z == Tail(s)
<1> HIDE DEF z
<1>4. Distinct(z)
  BY <1>1, <1>2, <1>3 DEF Distinct, z
<1>5. 1 \in DOMAIN s
  BY <1>1
<1>6. \A k \in DOMAIN z : z[k] # Head(s) /\ \E i \in DOMAIN s : z[k] = s[i]
  BY <1>1, <1>2, <1>5 DEF Distinct, z
<1> QED BY <1>1, <1>4, <1>5, <1>6 DEF z

---------------------------------------------------------------------------
(* Jobs.                                                                   *)

Stages == Running \cup {"idle", "unused"}
Jobs == [JobIds -> Job]

\* g is f but for job j, which keeps its wheel and endpoint.
Updated(g, f, j, st, target, addr, at) ==
    /\ g \in Jobs
    /\ \A i \in JobIds \ {j} : g[i] = f[i]
    /\ g[j].wheel = f[j].wheel /\ g[j].ep = f[j].ep
    /\ g[j].stage = st /\ g[j].target = target /\ g[j].addr = addr /\ g[j].at = at

\* A job rewritten as a whole.
LEMMA Rewritten ==
    ASSUME NEW f \in Jobs, NEW j \in JobIds, NEW v \in Job,
           v.wheel = f[j].wheel, v.ep = f[j].ep
    PROVE  Updated([f EXCEPT ![j] = v], f, j, v.stage, v.target, v.addr, v.at)
BY DEF Updated, Jobs

LEMMA StageSet ==
    ASSUME NEW f \in Jobs, NEW j \in JobIds, NEW s \in Stages
    PROVE  Updated([f EXCEPT ![j].stage = s], f, j, s, f[j].target, f[j].addr, f[j].at)
<1> DEFINE v == [f[j] EXCEPT !.stage = s]
<1>1. /\ v \in Job /\ v.wheel = f[j].wheel /\ v.ep = f[j].ep
      /\ v.stage = s /\ v.target = f[j].target /\ v.addr = f[j].addr /\ v.at = f[j].at
  BY DEF Jobs, Job, Stages
<1>2. [f EXCEPT ![j].stage = s] = [f EXCEPT ![j] = v]
  OBVIOUS
<1> HIDE DEF v
<1> QED BY <1>1, <1>2, Rewritten

LEMMA AddrSet ==
    ASSUME NEW f \in Jobs, NEW j \in JobIds, NEW a \in Targets
    PROVE  Updated([f EXCEPT ![j].addr = a], f, j, f[j].stage, f[j].target, a, f[j].at)
<1> DEFINE v == [f[j] EXCEPT !.addr = a]
<1>1. /\ v \in Job /\ v.wheel = f[j].wheel /\ v.ep = f[j].ep
      /\ v.stage = f[j].stage /\ v.target = f[j].target /\ v.addr = a /\ v.at = f[j].at
  BY DEF Jobs, Job
<1>2. [f EXCEPT ![j].addr = a] = [f EXCEPT ![j] = v]
  OBVIOUS
<1> HIDE DEF v
<1> QED BY <1>1, <1>2, Rewritten

LEMMA NextSet ==
    ASSUME NEW f \in Jobs, NEW j \in JobIds, NEW n \in Nat
    PROVE  Updated([f EXCEPT ![j].next = n], f, j,
                   f[j].stage, f[j].target, f[j].addr, f[j].at)
<1> DEFINE v == [f[j] EXCEPT !.next = n]
<1>1. /\ v \in Job /\ v.wheel = f[j].wheel /\ v.ep = f[j].ep
      /\ v.stage = f[j].stage /\ v.target = f[j].target /\ v.addr = f[j].addr
      /\ v.at = f[j].at
  BY DEF Jobs, Job
<1>2. [f EXCEPT ![j].next = n] = [f EXCEPT ![j] = v]
  OBVIOUS
<1> HIDE DEF v
<1> QED BY <1>1, <1>2, Rewritten

LEMMA HostSet ==
    ASSUME NEW f \in Jobs, NEW j \in JobIds, NEW s \in Stages, NEW h \in Targets \cup {None}
    PROVE  Updated([f EXCEPT ![j].stage = s, ![j].host = h], f, j,
                   s, f[j].target, f[j].addr, f[j].at)
<1> DEFINE v == [f[j] EXCEPT !.stage = s, !.host = h]
<1>1. /\ v \in Job /\ v.wheel = f[j].wheel /\ v.ep = f[j].ep
      /\ v.stage = s /\ v.target = f[j].target /\ v.addr = f[j].addr /\ v.at = f[j].at
  BY DEF Jobs, Job, Stages
<1>2. [f EXCEPT ![j].stage = s, ![j].host = h] = [f EXCEPT ![j] = v]
  BY DEF Jobs
<1> HIDE DEF v
<1> QED BY <1>1, <1>2, Rewritten

LEMMA AtSet ==
    ASSUME NEW f \in Jobs, NEW j \in JobIds, NEW s \in Stages, NEW a \in Targets \cup {None}
    PROVE  Updated([f EXCEPT ![j].stage = s, ![j].at = a], f, j,
                   s, f[j].target, f[j].addr, a)
<1> DEFINE v == [f[j] EXCEPT !.stage = s, !.at = a]
<1>1. /\ v \in Job /\ v.wheel = f[j].wheel /\ v.ep = f[j].ep
      /\ v.stage = s /\ v.target = f[j].target /\ v.addr = f[j].addr /\ v.at = a
  BY DEF Jobs, Job, Stages
<1>2. [f EXCEPT ![j].stage = s, ![j].at = a] = [f EXCEPT ![j] = v]
  BY DEF Jobs
<1> HIDE DEF v
<1> QED BY <1>1, <1>2, Rewritten

LEMMA SlotSet ==
    ASSUME NEW f \in Jobs, NEW j \in JobIds, NEW n \in Nat, NEW t \in Targets \cup {None},
           NEW s \in Stages
    PROVE  Updated([f EXCEPT ![j].next = n, ![j].target = t, ![j].stage = s], f, j,
                   s, t, f[j].addr, f[j].at)
<1> DEFINE v == [f[j] EXCEPT !.next = n, !.target = t, !.stage = s]
<1>1. /\ v \in Job /\ v.wheel = f[j].wheel /\ v.ep = f[j].ep
      /\ v.stage = s /\ v.target = t /\ v.addr = f[j].addr /\ v.at = f[j].at
  BY DEF Jobs, Job, Stages
<1>2. [f EXCEPT ![j].next = n, ![j].target = t, ![j].stage = s] = [f EXCEPT ![j] = v]
  BY DEF Jobs
<1> HIDE DEF v
<1> QED BY <1>1, <1>2, Rewritten

LEMMA FreeSet ==
    ASSUME NEW f \in Jobs, NEW j \in JobIds
    PROVE  Updated([f EXCEPT ![j] = [@ EXCEPT !.stage = "idle", !.target = None,
                                              !.host = None, !.at = None]], f, j,
                   "idle", None, f[j].addr, None)
<1> DEFINE v == [f[j] EXCEPT !.stage = "idle", !.target = None, !.host = None, !.at = None]
<1>1. /\ v \in Job /\ v.wheel = f[j].wheel /\ v.ep = f[j].ep
      /\ v.stage = "idle" /\ v.target = None /\ v.addr = f[j].addr /\ v.at = None
  BY DEF Jobs, Job, Stages
<1> HIDE DEF v
<1> QED BY <1>1, Rewritten DEF v

LEMMA UnusedFacts ==
    /\ Unused \in Job /\ Unused.stage = "unused" /\ Unused.target = None
    /\ "unused" \notin Running /\ "idle" \notin Running
BY DEF Unused, Job, Running

---------------------------------------------------------------------------
(* The inductive invariant.                                                *)

\* An endpoint's job on a wheel is that wheel's job for that endpoint.
Rostered ==
    \A w \in Wheels, e \in Endpoints :
        jobs[w][e] # None => LET j == jobs[w][e]
                             IN  job[j].wheel = w /\ job[j].ep = e /\ stage(j) # "unused"

\* Only a running job holds a slot.
Untargeted == \A j \in JobIds : stage(j) \notin Running => job[j].target = None

\* A job in use has an address.
Addressed == \A j \in JobIds : stage(j) # "unused" => job[j].addr \in Targets

\* A queue holds its wheel's queued jobs, each once.
QueuedOnce ==
    \A w \in Wheels :
        /\ Distinct(queue[w])
        /\ \A i \in DOMAIN queue[w] : LET j == queue[w][i]
                                      IN  job[j].wheel = w /\ stage(j) = "queued"

\* What a limit holds back is idle, and held back once.
DeferredOnce ==
    \A w \in Wheels :
        /\ Distinct(deferred[w])
        /\ \A i \in DOMAIN deferred[w] : LET j == deferred[w][i]
                                         IN  job[j].wheel = w /\ stage(j) = "idle"

\* What dispatch has still to decide is idle, and dispatch holds the mutex.
CandidatesIdle ==
    \A w \in Wheels : \A j \in late[w] \cup fresh[w] :
        phase[w] = "admitting" /\ job[j].wheel = w /\ stage(j) = "idle"

SlotsInv == TypeOK /\ Rostered /\ Untargeted /\ Addressed /\ QueuedOnce /\ DeferredOnce
            /\ CandidatesIdle /\ SlotsBalanced

Slots(f, t) == {j \in JobIds : f[j].target = t}

LEMMA SlotsFinite ==
    ASSUME NEW f, NEW t
    PROVE  IsFiniteSet(Slots(f, t)) /\ Cardinality(Slots(f, t)) \in Nat
<1>1. IsFiniteSet(Slots(f, t))
  BY SchedulerAssumption, FS_Subset DEF Slots
<1> QED BY <1>1, FS_CardinalityType

\* A job that takes or gives up a slot.
LEMMA SlotTaken ==
    ASSUME NEW f, NEW g, NEW j \in JobIds, NEW st, NEW addr, NEW at,
           NEW u \in Targets, NEW t \in Targets,
           f[j].target = None, Updated(g, f, j, st, u, addr, at)
    PROVE  Cardinality(Slots(g, t)) = Cardinality(Slots(f, t)) + IF t = u THEN 1 ELSE 0
<1>0. None \notin Targets
  BY SchedulerAssumption
<1>1. CASE t = u
  <2>1. Slots(g, t) = Slots(f, t) \cup {j} /\ j \notin Slots(f, t)
    BY <1>0, <1>1 DEF Slots, Updated
  <2> QED BY <1>1, <2>1, SlotsFinite, FS_AddElement
<1>2. CASE t # u
  <2>1. Slots(g, t) = Slots(f, t)
    BY <1>0, <1>2 DEF Slots, Updated
  <2> QED BY <1>2, <2>1, SlotsFinite
<1> QED BY <1>1, <1>2

LEMMA SlotFreed ==
    ASSUME NEW f, NEW g, NEW j \in JobIds, NEW t \in Targets,
           \A i \in JobIds \ {j} : g[i] = f[i], g[j].target = None
    PROVE  Cardinality(Slots(g, t)) = Cardinality(Slots(f, t))
                                        - IF t = f[j].target THEN 1 ELSE 0
<1>0. None \notin Targets
  BY SchedulerAssumption
<1>1. CASE t = f[j].target
  <2>1. Slots(g, t) = Slots(f, t) \ {j} /\ j \in Slots(f, t)
    BY <1>0, <1>1 DEF Slots
  <2>2. Cardinality(Slots(f, t) \ {j}) = Cardinality(Slots(f, t)) - 1
    BY <2>1, SlotsFinite, FS_RemoveElement
  <2> QED BY <1>1, <2>1, <2>2
<1>2. CASE t # f[j].target
  <2>1. Slots(g, t) = Slots(f, t)
    BY <1>0, <1>2 DEF Slots
  <2> QED BY <1>2, <2>1, SlotsFinite
<1> QED BY <1>1, <1>2

\* The count is right again when slots, count and releases move together.
LEMMA Balanced ==
    ASSUME SlotsInv,
           \A t \in Targets : inflight'[t] - inflight[t] =
               (Cardinality(Slots(job', t)) - Cardinality(Slots(job, t)))
                 + (releasing'[t] - releasing[t]),
           inflight' \in [Targets -> Nat], releasing' \in [Targets -> Nat]
    PROVE  SlotsBalanced'
<1> SUFFICES ASSUME NEW t \in Targets
             PROVE  inflight'[t] = Cardinality(Slots(job', t)) + releasing'[t]
  BY DEF SlotsBalanced, Slots
<1>1. inflight[t] = Cardinality(Slots(job, t)) + releasing[t]
  BY DEF SlotsInv, SlotsBalanced, Slots
<1>2. Cardinality(Slots(job, t)) \in Nat /\ Cardinality(Slots(job', t)) \in Nat
  BY SlotsFinite
<1>3. inflight[t] \in Nat /\ releasing[t] \in Nat /\ inflight'[t] \in Nat /\ releasing'[t] \in Nat
  BY DEF SlotsInv, TypeOK
<1> QED BY <1>1, <1>2, <1>3

---------------------------------------------------------------------------
(* One job moves.                                                          *)

LEMMA JobMoves ==
    ASSUME SlotsInv, NEW j \in JobIds, NEW st, NEW tg, NEW addr, NEW at,
           Updated(job', job, j, st, tg, addr, at)
    PROVE  /\ UNCHANGED jobs /\ (stage(j) = "unused" \/ st # "unused") => Rostered'
           /\ (st \in Running \/ tg = None) => Untargeted'
           /\ (st = "unused" \/ addr \in Targets) => Addressed'
           /\ UNCHANGED queue /\ (stage(j) # "queued" \/ st = "queued") => QueuedOnce'
           /\ UNCHANGED deferred /\ (stage(j) # "idle" \/ st = "idle") => DeferredOnce'
           /\ UNCHANGED <<late, fresh, phase>> /\ (stage(j) # "idle" \/ st = "idle")
                => CandidatesIdle'
           /\ UNCHANGED <<inflight, releasing>> /\ tg = job[j].target => SlotsBalanced'
<1>0. /\ Rostered /\ Untargeted /\ Addressed /\ QueuedOnce /\ DeferredOnce /\ CandidatesIdle
      /\ jobs \in [Wheels -> [Endpoints -> JobIds \cup {None}]]
      /\ \A w \in Wheels : deferred[w] \in Seq(JobIds) /\ queue[w] \in Seq(JobIds)
                           /\ late[w] \subseteq JobIds /\ fresh[w] \subseteq JobIds
  BY DEF SlotsInv, TypeOK
<1>j. \A i \in JobIds : /\ job'[i].wheel = job[i].wheel /\ job'[i].ep = job[i].ep
                        /\ i # j => job'[i] = job[i]
      /\ job'[j].stage = st /\ job'[j].target = tg /\ job'[j].addr = addr
  BY DEF Updated
<1>1. ASSUME UNCHANGED jobs, stage(j) = "unused" \/ st # "unused" PROVE Rostered'
  BY <1>0, <1>j, <1>1 DEF Rostered, stage
<1>2. ASSUME st \in Running \/ tg = None PROVE Untargeted'
  BY <1>0, <1>j, <1>2 DEF Untargeted, stage
<1>7. ASSUME st = "unused" \/ addr \in Targets PROVE Addressed'
  BY <1>0, <1>j, <1>7 DEF Addressed, stage
<1>3. ASSUME UNCHANGED queue, stage(j) # "queued" \/ st = "queued" PROVE QueuedOnce'
  BY <1>0, <1>j, <1>3 DEF QueuedOnce, stage
<1>4. ASSUME UNCHANGED deferred, stage(j) # "idle" \/ st = "idle" PROVE DeferredOnce'
  BY <1>0, <1>j, <1>4 DEF DeferredOnce, stage
<1>5. ASSUME UNCHANGED <<late, fresh, phase>>, stage(j) # "idle" \/ st = "idle"
      PROVE  CandidatesIdle'
  <2> SUFFICES ASSUME NEW w \in Wheels, NEW i \in late[w] \cup fresh[w]
               PROVE  phase[w] = "admitting" /\ job'[i].wheel = w /\ job'[i].stage = "idle"
    BY <1>5 DEF CandidatesIdle, stage
  <2>1. i \in JobIds
    BY <1>0
  <2>2. phase[w] = "admitting" /\ job[i].wheel = w /\ job[i].stage = "idle"
    BY <1>0 DEF CandidatesIdle, stage
  <2> QED BY <2>1, <2>2, <1>j, <1>5 DEF stage
<1>6. ASSUME UNCHANGED <<inflight, releasing>>, tg = job[j].target PROVE SlotsBalanced'
  <2>1. \A t : Slots(job', t) = Slots(job, t)
    BY <1>j, <1>6 DEF Slots
  <2> QED BY <1>6, <2>1 DEF SlotsInv, SlotsBalanced, Slots
<1> QED BY <1>1, <1>2, <1>3, <1>4, <1>5, <1>6, <1>7

\* Jobs whose slots, stages and places are left alone.
LEMMA JobsRest ==
    ASSUME SlotsInv,
           \A i \in JobIds :
              /\ job'[i].wheel = job[i].wheel /\ job'[i].ep = job[i].ep
              /\ job'[i].stage = job[i].stage /\ job'[i].target = job[i].target
              /\ job'[i].addr = job[i].addr
    PROVE  /\ UNCHANGED jobs => Rostered'
           /\ Untargeted' /\ Addressed'
           /\ UNCHANGED queue => QueuedOnce'
           /\ UNCHANGED deferred => DeferredOnce'
           /\ UNCHANGED <<inflight, releasing>> => SlotsBalanced'
<1>0. /\ Rostered /\ Untargeted /\ Addressed /\ QueuedOnce /\ DeferredOnce
      /\ jobs \in [Wheels -> [Endpoints -> JobIds \cup {None}]]
      /\ \A w \in Wheels : deferred[w] \in Seq(JobIds) /\ queue[w] \in Seq(JobIds)
  BY DEF SlotsInv, TypeOK
<1>1. ASSUME UNCHANGED jobs PROVE Rostered'
  BY <1>0, <1>1 DEF Rostered, stage
<1>2. Untargeted' /\ Addressed'
  BY <1>0 DEF Untargeted, Addressed, stage
<1>3. ASSUME UNCHANGED queue PROVE QueuedOnce'
  BY <1>0, <1>3 DEF QueuedOnce, stage
<1>4. ASSUME UNCHANGED deferred PROVE DeferredOnce'
  BY <1>0, <1>4 DEF DeferredOnce, stage
<1>5. ASSUME UNCHANGED <<inflight, releasing>> PROVE SlotsBalanced'
  <2>1. \A t : Slots(job', t) = Slots(job, t)
    BY DEF Slots
  <2> QED BY <1>5, <2>1 DEF SlotsInv, SlotsBalanced, Slots
<1> QED BY <1>1, <1>2, <1>3, <1>4, <1>5

---------------------------------------------------------------------------
(* The assignment's steps.                                                 *)

LEMMA RefreshKeeps ==
    ASSUME SlotsInv, NEW e \in Endpoints, NEW a \in Targets \cup {None}, Refresh(e, a)
    PROVE  SlotsInv'
<1>1. UNCHANGED <<jobs, job, deferred, phase, late, fresh, queue, inflight, nextStart, releasing>>
  BY DEF Refresh, dispatchVars, limiterVars
<1>2. CandidatesIdle'
  BY <1>1 DEF SlotsInv, CandidatesIdle, stage
<1>3. TypeOK'
  BY <1>1, SchedulerAssumption DEF SlotsInv, TypeOK, Refresh
<1> QED BY <1>1, <1>2, <1>3, JobsRest DEF SlotsInv

LEMMA AddKeeps ==
    ASSUME SlotsInv, NEW w \in Wheels, NEW e \in Endpoints, Add(w, e)
    PROVE  SlotsInv'
<1>1. PICK j \in JobIds, seconds \in 0 .. Interval - 1 :
          /\ stage(j) = "unused"
          /\ job' = [job EXCEPT ![j] =
                        [Unused EXCEPT !.stage = "idle", !.wheel = w, !.ep = e,
                                       !.addr = assigned[e], !.next = seconds * Units]]
          /\ jobs' = [jobs EXCEPT ![w][e] = j]
  BY DEF Add
<1> DEFINE v == [Unused EXCEPT !.stage = "idle", !.wheel = w, !.ep = e,
                               !.addr = assigned[e], !.next = seconds * Units]
<1>2. UNCHANGED <<assigned, changes, deferred, phase, late, fresh, queue,
                  inflight, nextStart, releasing>>
  BY DEF Add, dispatchVars, limiterVars
<1>3. job \in Jobs /\ assigned[e] \in Targets /\ TypeOK
  BY DEF SlotsInv, TypeOK, Jobs, Add
<1>4. /\ v \in Job /\ v.stage = "idle" /\ v.wheel = w /\ v.ep = e /\ v.target = None
      /\ v.addr \in Targets
  <2>1. seconds * Units \in Nat
    BY SchedulerAssumption
  <2> DEFINE n == seconds * Units
  <2> HIDE DEF n
  <2> QED BY <1>3, <2>1 DEF Unused, Job, n
<1> HIDE DEF v
<1>5. /\ job' \in Jobs /\ \A i \in JobIds \ {j} : job'[i] = job[i]
      /\ job'[j] = v
  BY <1>1, <1>3, <1>4 DEF Jobs, v
<1>6. /\ jobs' \in [Wheels -> [Endpoints -> JobIds \cup {None}]]
      /\ \A x \in Wheels, y \in Endpoints :
            jobs'[x][y] = IF x = w /\ y = e THEN j ELSE jobs[x][y]
  BY <1>1, <1>3 DEF TypeOK
<1>7. Rostered'
  BY <1>1, <1>3, <1>4, <1>5, <1>6 DEF SlotsInv, Rostered, TypeOK, stage
<1>8. Untargeted' /\ Addressed'
  BY <1>4, <1>5 DEF SlotsInv, Untargeted, Addressed, stage
<1>9. QueuedOnce'
  BY <1>1, <1>2, <1>3, <1>5 DEF SlotsInv, QueuedOnce, TypeOK, stage
<1>10. DeferredOnce'
  BY <1>1, <1>2, <1>3, <1>5 DEF SlotsInv, DeferredOnce, TypeOK, stage
<1>11. CandidatesIdle'
  <2> SUFFICES ASSUME NEW x \in Wheels, NEW i \in late[x] \cup fresh[x]
               PROVE  phase[x] = "admitting" /\ job'[i].wheel = x /\ job'[i].stage = "idle"
    BY <1>2 DEF CandidatesIdle, stage
  <2>1. i \in JobIds
    BY <1>3 DEF TypeOK
  <2>2. phase[x] = "admitting" /\ job[i].wheel = x /\ job[i].stage = "idle"
    BY DEF SlotsInv, CandidatesIdle, stage
  <2>3. i # j
    BY <2>2, <1>1 DEF stage
  <2> QED BY <2>1, <2>2, <2>3, <1>5
<1>12. SlotsBalanced'
  <2>1. job[j].target = None
    BY <1>1 DEF SlotsInv, Untargeted, Running
  <2>2. \A t \in Targets : Slots(job', t) = Slots(job, t)
    BY <2>1, <1>4, <1>5 DEF Slots
  <2> QED BY <1>2, <2>2 DEF SlotsInv, SlotsBalanced, Slots
<1>13. TypeOK'
  BY <1>2, <1>3, <1>5, <1>6 DEF TypeOK, Jobs
<1> QED BY <1>7, <1>8, <1>9, <1>10, <1>11, <1>12, <1>13 DEF SlotsInv

LEMMA ChangeKeeps ==
    ASSUME SlotsInv, NEW w \in Wheels, NEW e \in Endpoints, Change(w, e)
    PROVE  SlotsInv'
<1> DEFINE j == jobs[w][e]
<1>1. /\ j # None /\ job' = [job EXCEPT ![j].addr = assigned[e]]
      /\ assigned[e] # None
      /\ UNCHANGED <<assigned, changes, jobs, deferred, phase, late, fresh, queue,
                     inflight, nextStart, releasing>>
  BY DEF Change, dispatchVars, limiterVars
<1>2. j \in JobIds /\ job \in Jobs /\ assigned[e] \in Targets /\ TypeOK
  BY <1>1 DEF SlotsInv, TypeOK, Jobs
<1>3. stage(j) # "unused"
  BY <1>1 DEF SlotsInv, Rostered
<1> HIDE DEF j
<1>4. Updated(job', job, j, job[j].stage, job[j].target, assigned[e], job[j].at)
  BY <1>1, <1>2, AddrSet
<1>5. TypeOK'
  BY <1>1, <1>2, <1>4 DEF TypeOK, Updated, Jobs
<1>6. job[j].stage \in Running \/ job[j].target = None
  BY <1>2 DEF SlotsInv, Untargeted, stage
<1> QED BY <1>1, <1>2, <1>3, <1>4, <1>5, <1>6, JobMoves DEF SlotsInv, stage

LEMMA RemoveKeeps ==
    ASSUME SlotsInv, NEW w \in Wheels, NEW e \in Endpoints, Remove(w, e)
    PROVE  SlotsInv'
<1> DEFINE j == jobs[w][e]
<1>1. /\ j # None /\ phase[w] # "admitting"
      /\ jobs' = [jobs EXCEPT ![w][e] = None]
      /\ job' = IF stage(j) = "idle" THEN [job EXCEPT ![j] = Unused] ELSE job
      /\ deferred' = [deferred EXCEPT ![w] = Without(deferred[w], j)]
      /\ UNCHANGED <<assigned, changes, phase, late, fresh, queue,
                     inflight, nextStart, releasing>>
  BY DEF Remove, Unlocked, limiterVars
<1>2. j \in JobIds /\ job \in Jobs /\ TypeOK
  BY <1>1 DEF SlotsInv, TypeOK, Jobs
<1>3. job[j].wheel = w /\ job[j].ep = e
  BY <1>1 DEF SlotsInv, Rostered
<1>s. /\ jobs' \in [Wheels -> [Endpoints -> JobIds \cup {None}]]
      /\ \A x \in Wheels, y \in Endpoints :
            jobs'[x][y] = IF x = w /\ y = e THEN None ELSE jobs[x][y]
  BY <1>1, <1>2 DEF TypeOK
<1>r. \A x \in Wheels, y \in Endpoints : jobs'[x][y] # j
  <2> SUFFICES ASSUME NEW x \in Wheels, NEW y \in Endpoints, jobs'[x][y] = j PROVE FALSE
    OBVIOUS
  <2>1. (x # w \/ y # e) /\ jobs[x][y] = j
    BY <1>s, <1>1
  <2>2. job[j].wheel = x /\ job[j].ep = y
    BY <2>1, <1>1 DEF SlotsInv, Rostered
  <2> QED BY <2>1, <2>2, <1>3
<1> HIDE DEF j
<1>4. /\ job' \in Jobs /\ \A i \in JobIds \ {j} : job'[i] = job[i]
      /\ job'[j] = IF stage(j) = "idle" THEN Unused ELSE job[j]
  BY <1>1, <1>2, UnusedFacts DEF Jobs
<1>7. Rostered'
  BY <1>1, <1>2, <1>s, <1>r, <1>4 DEF SlotsInv, Rostered, TypeOK, stage
<1>8. Untargeted' /\ Addressed'
  BY <1>4, UnusedFacts DEF SlotsInv, Untargeted, Addressed, stage
<1>9. QueuedOnce'
  BY <1>1, <1>2, <1>4, UnusedFacts DEF SlotsInv, QueuedOnce, TypeOK, stage
<1>10. DeferredOnce' /\ deferred' \in [Wheels -> Seq(JobIds)]
  <2> DEFINE z == Without(deferred[w], j)
  <2>1. deferred[w] \in Seq(JobIds) /\ Distinct(deferred[w])
    BY <1>2 DEF SlotsInv, DeferredOnce, TypeOK
  <2>2. /\ z \in Seq(JobIds) /\ Distinct(z)
        /\ \A k \in DOMAIN z : z[k] # j /\ \E i \in DOMAIN deferred[w] : z[k] = deferred[w][i]
    BY <2>1, WithoutFacts
  <2> HIDE DEF z
  <2>3. /\ deferred' \in [Wheels -> Seq(JobIds)] /\ deferred'[w] = z
        /\ \A x \in Wheels \ {w} : deferred'[x] = deferred[x]
    BY <1>1, <1>2, <2>2 DEF TypeOK, z
  <2>4. \A x \in Wheels : \A k \in DOMAIN deferred'[x] :
           /\ deferred'[x][k] # j /\ deferred'[x][k] \in JobIds
           /\ \E i \in DOMAIN deferred[x] : deferred'[x][k] = deferred[x][i]
    <3> SUFFICES ASSUME NEW x \in Wheels, NEW k \in DOMAIN deferred'[x]
                 PROVE  /\ deferred'[x][k] # j /\ deferred'[x][k] \in JobIds
                        /\ \E i \in DOMAIN deferred[x] : deferred'[x][k] = deferred[x][i]
      OBVIOUS
    <3>0. deferred'[x] \in Seq(JobIds)
      BY <2>3
    <3>1. CASE x = w
      BY <2>2, <2>3, <3>0, <3>1
    <3>2. CASE x # w
      <4>1. job[deferred[x][k]].wheel = x
        BY <2>3, <3>2 DEF SlotsInv, DeferredOnce
      <4> QED BY <1>3, <2>3, <3>0, <3>2, <4>1
    <3> QED BY <3>1, <3>2
  <2>5. \A x \in Wheels : Distinct(deferred'[x])
    BY <2>2, <2>3 DEF SlotsInv, DeferredOnce
  <2>6. \A x \in Wheels : \A k \in DOMAIN deferred'[x] :
           job'[deferred'[x][k]].wheel = x /\ job'[deferred'[x][k]].stage = "idle"
    <3> SUFFICES ASSUME NEW x \in Wheels, NEW k \in DOMAIN deferred'[x]
                 PROVE  /\ job'[deferred'[x][k]].wheel = x
                        /\ job'[deferred'[x][k]].stage = "idle"
      OBVIOUS
    <3>1. PICK i \in DOMAIN deferred[x] : deferred'[x][k] = deferred[x][i]
      BY <2>4
    <3>2. job[deferred[x][i]].wheel = x /\ job[deferred[x][i]].stage = "idle"
      BY DEF SlotsInv, DeferredOnce, stage
    <3> QED BY <1>4, <2>4, <3>1, <3>2
  <2> QED BY <2>3, <2>5, <2>6 DEF DeferredOnce, stage
<1>11. CandidatesIdle'
  <2> SUFFICES ASSUME NEW x \in Wheels, NEW i \in late[x] \cup fresh[x]
               PROVE  phase[x] = "admitting" /\ job'[i].wheel = x /\ job'[i].stage = "idle"
    BY <1>1 DEF CandidatesIdle, stage
  <2>1. i \in JobIds
    BY <1>2 DEF TypeOK
  <2>2. phase[x] = "admitting" /\ job[i].wheel = x /\ job[i].stage = "idle"
    BY DEF SlotsInv, CandidatesIdle, stage
  <2>3. i # j
    BY <2>2, <1>1, <1>3
  <2> QED BY <2>1, <2>2, <2>3, <1>4
<1>12. SlotsBalanced'
  <2>1. stage(j) = "idle" => job[j].target = None
    BY <1>2, UnusedFacts DEF SlotsInv, Untargeted
  <2>2. \A t \in Targets : Slots(job', t) = Slots(job, t)
    BY <2>1, <1>4, UnusedFacts DEF Slots
  <2> QED BY <1>1, <2>2 DEF SlotsInv, SlotsBalanced, Slots
<1>13. TypeOK'
  BY <1>1, <1>2, <1>s, <1>4, <1>10 DEF TypeOK, Jobs
<1> QED BY <1>7, <1>8, <1>9, <1>10, <1>11, <1>12, <1>13 DEF SlotsInv

---------------------------------------------------------------------------
(* The wheel's steps.                                                      *)

LEMMA LaterIsLater == \A n \in Nat : Later(n) \in Nat
BY SchedulerAssumption DEF Later

LEMMA SecondKeeps == ASSUME SlotsInv, Second PROVE SlotsInv'
<1>1. /\ \A w \in Wheels : phase[w] = "idle"
      /\ phase' = [w \in Wheels |-> "ticked"]
      /\ job' = [j \in JobIds |-> [job[j] EXCEPT !.next = Later(job[j].next)]]
      /\ nextStart' = [t \in Targets |-> Later(nextStart[t])]
      /\ UNCHANGED <<assigned, changes, jobs, deferred, late, fresh, queue,
                     inflight, releasing>>
  BY DEF Second
<1>2. TypeOK
  BY DEF SlotsInv
<1>3. \A i \in JobIds :
         /\ job'[i] \in Job
         /\ job'[i].wheel = job[i].wheel /\ job'[i].ep = job[i].ep
         /\ job'[i].stage = job[i].stage /\ job'[i].target = job[i].target
         /\ job'[i].addr = job[i].addr
  <2> SUFFICES ASSUME NEW i \in JobIds
               PROVE  /\ job'[i] \in Job
                      /\ job'[i].wheel = job[i].wheel /\ job'[i].ep = job[i].ep
                      /\ job'[i].stage = job[i].stage /\ job'[i].target = job[i].target
                      /\ job'[i].addr = job[i].addr
    OBVIOUS
  <2> DEFINE n == Later(job[i].next)
  <2>1. job[i] \in Job
    BY <1>2 DEF TypeOK
  <2>2. n \in Nat
    BY <2>1, LaterIsLater DEF Job
  <2>3. job'[i] = [job[i] EXCEPT !.next = n]
    BY <1>1
  <2> HIDE DEF n
  <2> QED BY <2>1, <2>2, <2>3 DEF Job
<1>4. CandidatesIdle'
  <2>1. \A w \in Wheels : late[w] = {} /\ fresh[w] = {}
    BY <1>1 DEF SlotsInv, CandidatesIdle
  <2> QED BY <1>1, <2>1 DEF CandidatesIdle
<1>5. TypeOK'
  <2>1. nextStart' \in [Targets -> Nat]
    BY <1>1, <1>2, LaterIsLater DEF TypeOK
  <2>2. job' \in [JobIds -> Job]
    BY <1>1, <1>3
  <2> QED BY <1>1, <1>2, <2>1, <2>2 DEF TypeOK
<1> QED BY <1>1, <1>3, <1>4, <1>5, JobsRest DEF SlotsInv

LEMMA DispatchKeeps ==
    ASSUME SlotsInv, NEW w \in Wheels, Dispatch(w)
    PROVE  SlotsInv'
<1>1. /\ phase[w] = "ticked" /\ phase' = [phase EXCEPT ![w] = "admitting"]
      /\ late' = [late EXCEPT ![w] = Range(deferred[w]) \cap Due(w)]
      /\ fresh' = [fresh EXCEPT ![w] = {j \in Due(w) : stage(j) = "idle"} \ Range(deferred[w])]
      /\ UNCHANGED <<assigned, changes, jobs, deferred, queue, inflight, nextStart, releasing>>
  BY DEF Dispatch, limiterVars
<1>2. TypeOK
  BY DEF SlotsInv
<1>d. \A j \in Due(w) : j \in JobIds /\ job[j].wheel = w
  BY <1>2 DEF Due, Registered, SlotsInv, Rostered, TypeOK
<1>3. \A i \in JobIds :
         /\ job'[i] \in Job
         /\ job'[i].wheel = job[i].wheel /\ job'[i].ep = job[i].ep
         /\ job'[i].stage = job[i].stage /\ job'[i].target = job[i].target
         /\ job'[i].addr = job[i].addr
  <2> SUFFICES ASSUME NEW i \in JobIds
               PROVE  /\ job'[i] \in Job
                      /\ job'[i].wheel = job[i].wheel /\ job'[i].ep = job[i].ep
                      /\ job'[i].stage = job[i].stage /\ job'[i].target = job[i].target
                      /\ job'[i].addr = job[i].addr
    OBVIOUS
  <2> DEFINE n == Interval * Units
  <2>1. job[i] \in Job /\ n \in Nat
    BY <1>2, SchedulerAssumption DEF TypeOK
  <2>2. job'[i] = [job[i] EXCEPT !.next = n] \/ job'[i] = job[i]
    BY DEF Dispatch
  <2> HIDE DEF n
  <2> QED BY <2>1, <2>2 DEF Job
<1>4. /\ late' \in [Wheels -> SUBSET JobIds] /\ fresh' \in [Wheels -> SUBSET JobIds]
      /\ phase' \in [Wheels -> {"idle", "ticked", "admitting", "queueing"}]
  BY <1>1, <1>2, <1>d DEF TypeOK
<1>5. CandidatesIdle'
  <2> SUFFICES ASSUME NEW x \in Wheels, NEW i \in late'[x] \cup fresh'[x]
               PROVE  phase'[x] = "admitting" /\ job'[i].wheel = x /\ job'[i].stage = "idle"
    BY DEF CandidatesIdle, stage
  <2>1. CASE x = w
    <3>1. i \in Due(w) /\ (i \in Range(deferred[w]) \/ job[i].stage = "idle")
      BY <1>1, <1>2, <2>1 DEF TypeOK, stage
    <3>2. i \in Range(deferred[w]) => job[i].stage = "idle"
      BY DEF Range, SlotsInv, DeferredOnce, stage
    <3>3. phase'[w] = "admitting"
      BY <1>1, <1>2 DEF TypeOK
    <3> QED BY <1>3, <1>d, <2>1, <3>1, <3>2, <3>3
  <2>2. CASE x # w
    <3>1. i \in late[x] \cup fresh[x] /\ phase'[x] = phase[x]
      BY <1>1, <1>2, <2>2 DEF TypeOK
    <3>2. i \in JobIds
      BY <1>2, <3>1 DEF TypeOK
    <3>3. phase[x] = "admitting" /\ job[i].wheel = x /\ job[i].stage = "idle"
      BY <3>1 DEF SlotsInv, CandidatesIdle, stage
    <3> QED BY <1>3, <3>1, <3>2, <3>3
  <2> QED BY <2>1, <2>2
<1>6. TypeOK'
  <2>1. job' \in [JobIds -> Job]
    BY <1>3 DEF Dispatch
  <2> QED BY <1>1, <1>2, <1>4, <2>1 DEF TypeOK
<1> QED BY <1>1, <1>3, <1>5, <1>6, JobsRest DEF SlotsInv

LEMMA WidestGap ==
    ASSUME NEW S \in SUBSET Endpoints, S # {}
    PROVE  \E e \in S : \A d \in S : Gap[d] <= Gap[e]
<1> DEFINE widest(T) == \E e \in T : \A d \in T : Gap[d] <= Gap[e]
           size(T) == Cardinality(T)
           bad == {T \in SUBSET Endpoints : T # {} /\ ~ widest(T)}
           sizes == {size(T) : T \in bad}
<1>1. \A T \in SUBSET Endpoints : IsFiniteSet(T) /\ size(T) \in Nat
  BY SchedulerAssumption, FS_Subset, FS_CardinalityType
<1>2. bad = {}
  <2> SUFFICES ASSUME bad # {} PROVE FALSE
    OBVIOUS
  <2>1. sizes \in SUBSET Nat /\ sizes # {}
    BY <1>1
  <2>2. PICK n \in sizes : \A m \in sizes : ~ (<<m, n>> \in OpToRel(<, Nat))
    <3> HIDE DEF sizes
    <3> QED BY <2>1, NatLessThanWellFounded, WFMin
  <2>3. PICK T \in bad : n = size(T)
    OBVIOUS
  <2>4. PICK x \in T : TRUE
    OBVIOUS
  <2> DEFINE U == T \ {x}
  <2>5. size(U) = size(T) - 1 /\ size(U) \in Nat /\ size(T) \in Nat
    BY <1>1, <2>4, FS_RemoveElement
  <2>6. U \notin bad
    <3> SUFFICES ASSUME U \in bad PROVE FALSE
      OBVIOUS
    <3>1. size(U) \in sizes
      OBVIOUS
    <3> HIDE DEF sizes, U
    <3>2. size(U) < n
      BY <2>3, <2>5
    <3> QED BY <2>1, <2>2, <3>1, <3>2 DEF OpToRel
  <2>7. \A e \in T : Gap[e] \in Nat
    BY SchedulerAssumption
  <2>8. CASE U = {}
    <3>1. \A d \in T : d = x
      BY <2>8
    <3> QED BY <2>3, <2>4, <2>7, <3>1
  <2>9. CASE U # {}
    <3>1. PICK e \in U : \A d \in U : Gap[d] <= Gap[e]
      BY <2>6, <2>9
    <3>2. CASE Gap[x] <= Gap[e]
      <4>1. \A d \in T : Gap[d] <= Gap[e]
        BY <3>1, <3>2
      <4> QED BY <2>3, <3>1, <4>1
    <3>3. CASE ~ (Gap[x] <= Gap[e])
      <4>1. \A d \in T : Gap[d] <= Gap[x]
        <5> SUFFICES ASSUME NEW d \in T PROVE Gap[d] <= Gap[x]
          OBVIOUS
        <5>1. CASE d = x
          BY <2>7, <5>1
        <5>2. CASE d # x
          <6>1. Gap[d] <= Gap[e]
            BY <3>1, <5>2
          <6> QED BY <2>7, <3>1, <3>3, <6>1, <2>4
        <5> QED BY <5>1, <5>2
      <4> QED BY <2>3, <2>4, <4>1
    <3> QED BY <3>2, <3>3
  <2> QED BY <2>8, <2>9
<1> QED BY <1>2

\* A target's gap is one of its endpoints' gaps, or none.
LEMMA GapType == ASSUME NEW t PROVE GapOf(t) \in Nat
<1> DEFINE gaps == {Gap[e] : e \in At(t)} \cup {0}
<1>1. At(t) \subseteq Endpoints /\ gaps \subseteq Nat
  BY SchedulerAssumption DEF At
<1>2. \E g \in gaps : \A h \in gaps : h <= g
  <2>1. CASE At(t) = {}
    BY <2>1
  <2>2. CASE At(t) # {}
    <3>1. PICK e \in At(t) : \A d \in At(t) : Gap[d] <= Gap[e]
      BY <1>1, <2>2, WidestGap
    <3>2. Gap[e] \in gaps /\ \A h \in gaps : h <= Gap[e]
      BY <1>1, <3>1
    <3> QED BY <3>2
  <2> QED BY <2>1, <2>2
<1>3. GapOf(t) \in gaps
  <2>1. GapOf(t) = CHOOSE g \in gaps : \A h \in gaps : h <= g
    BY DEF GapOf
  <2> HIDE DEF gaps
  <2> QED BY <1>2, <2>1
<1> QED BY <1>1, <1>3

\* What a candidate is.
LEMMA CandidateFacts ==
    ASSUME SlotsInv, NEW w \in Wheels, NEW j \in JobIds, Candidate(w, j)
    PROVE  /\ job[j].wheel = w /\ stage(j) = "idle" /\ job[j].target = None
           /\ job[j].addr \in Targets
<1>1. j \in late[w] \cup fresh[w]
  BY DEF Candidate
<1>2. job[j].wheel = w /\ stage(j) = "idle"
  BY <1>1 DEF SlotsInv, CandidatesIdle
<1> QED BY <1>2, UnusedFacts DEF SlotsInv, Untargeted, Addressed

\* A decided candidate stays on its wheel's deferred list, or is put on it, or
\* is taken off it.
LEMMA Decided ==
    ASSUME SlotsInv, NEW w \in Wheels, NEW j \in JobIds, Candidate(w, j),
           \A i \in JobIds \ {j} : job'[i] = job[i], job'[j].wheel = job[j].wheel,
           Taken(w, j), NEW z \in Seq(JobIds), Distinct(z),
           UNCHANGED phase,
           deferred' = [deferred EXCEPT ![w] = z],
           \A k \in DOMAIN z : z[k] = j => job'[j].stage = "idle",
           \A k \in DOMAIN z : z[k] # j => \E i \in DOMAIN deferred[w] : z[k] = deferred[w][i]
    PROVE  DeferredOnce' /\ CandidatesIdle'
<1>0. /\ TypeOK /\ DeferredOnce /\ CandidatesIdle
      /\ job[j].wheel = w
  BY CandidateFacts DEF SlotsInv
<1>j. \A i \in JobIds : /\ job'[i].wheel = job[i].wheel
                        /\ i # j => job'[i] = job[i]
  OBVIOUS
<1>1. deferred'[w] = z /\ \A x \in Wheels \ {w} : deferred'[x] = deferred[x]
  BY <1>0 DEF TypeOK
<1>2. \A x \in Wheels : Distinct(deferred'[x])
  BY <1>0, <1>1 DEF DeferredOnce
<1>3. ASSUME NEW x \in Wheels, NEW k \in DOMAIN deferred'[x]
      PROVE  job'[deferred'[x][k]].wheel = x /\ job'[deferred'[x][k]].stage = "idle"
  <2>1. ASSUME NEW i \in DOMAIN deferred[x], deferred[x][i] # j
        PROVE  job'[deferred[x][i]].wheel = x /\ job'[deferred[x][i]].stage = "idle"
    <3>1. deferred[x][i] \in JobIds
      BY <1>0 DEF TypeOK
    <3>2. job[deferred[x][i]].wheel = x /\ job[deferred[x][i]].stage = "idle"
      BY <1>0 DEF DeferredOnce, stage
    <3> QED BY <1>j, <2>1, <3>1, <3>2
  <2>2. CASE x # w
    <3>1. deferred'[x] = deferred[x] /\ job[deferred[x][k]].wheel = x
      BY <1>0, <1>1, <2>2 DEF DeferredOnce
    <3> QED BY <1>0, <2>1, <2>2, <3>1
  <2>3. CASE x = w /\ deferred'[x][k] = j
    <3>1. job'[j].stage = "idle"
      BY <1>1, <2>3
    <3> QED BY <1>0, <1>j, <2>3, <3>1
  <2>4. CASE x = w /\ deferred'[x][k] # j
    <3>1. PICK i \in DOMAIN deferred[w] : deferred'[x][k] = deferred[w][i]
      BY <1>1, <2>4
    <3> QED BY <2>1, <2>4, <3>1
  <2> QED BY <2>2, <2>3, <2>4
<1>4. DeferredOnce'
  BY <1>2, <1>3 DEF DeferredOnce, stage
<1>5. CandidatesIdle'
  <2> SUFFICES ASSUME NEW x \in Wheels, NEW i \in late'[x] \cup fresh'[x]
               PROVE  phase[x] = "admitting" /\ job'[i].wheel = x /\ job'[i].stage = "idle"
    BY DEF CandidatesIdle, stage
  <2>1. /\ late' = [late EXCEPT ![w] = late[w] \ {j}]
        /\ fresh' = [fresh EXCEPT ![w] = fresh[w] \ {j}]
    BY DEF Taken
  <2>2. i \in late[x] \cup fresh[x] /\ (x = w => i # j)
    BY <1>0, <2>1 DEF TypeOK
  <2>3. phase[x] = "admitting" /\ job[i].wheel = x /\ job[i].stage = "idle" /\ i \in JobIds
    BY <1>0, <2>2 DEF CandidatesIdle, stage, TypeOK
  <2>4. i # j
    BY <1>0, <2>2, <2>3
  <2> QED BY <1>j, <2>3, <2>4
<1> QED BY <1>4, <1>5

\* Types of what a decision writes.
LEMMA DecidedTypes ==
    ASSUME SlotsInv, NEW w \in Wheels, NEW j \in JobIds, Taken(w, j),
           NEW z \in Seq(JobIds), deferred' = [deferred EXCEPT ![w] = z],
           job' \in Jobs, inflight' \in [Targets -> Nat], nextStart' \in [Targets -> Nat],
           UNCHANGED <<assigned, changes, jobs, phase, queue, releasing>>
    PROVE  TypeOK'
<1>1. TypeOK
  BY DEF SlotsInv
<1>2. late' \in [Wheels -> SUBSET JobIds] /\ fresh' \in [Wheels -> SUBSET JobIds]
  BY <1>1 DEF Taken, TypeOK
<1>3. deferred' \in [Wheels -> Seq(JobIds)]
  BY <1>1 DEF TypeOK
<1> QED BY <1>1, <1>2, <1>3 DEF TypeOK, Jobs

LEMMA DeferKeeps ==
    ASSUME SlotsInv, NEW w \in Wheels, NEW j \in JobIds, Candidate(w, j), Taken(w, j),
           NEW retry \in Nat, Defer(w, j, retry),
           UNCHANGED <<assigned, changes, jobs, phase, queue, releasing>>
    PROVE  SlotsInv'
<1> DEFINE d == deferred[w]
           z == IF j \in Range(d) THEN d ELSE Append(d, j)
<1>1. /\ job' = [job EXCEPT ![j].next = retry]
      /\ deferred' = [deferred EXCEPT ![w] = z]
      /\ UNCHANGED <<inflight, nextStart>>
  BY DEF Defer
<1>2. /\ job \in Jobs /\ d \in Seq(JobIds) /\ Distinct(d)
      /\ inflight \in [Targets -> Nat] /\ nextStart \in [Targets -> Nat]
  BY DEF SlotsInv, TypeOK, DeferredOnce, Jobs
<1>3. /\ stage(j) = "idle" /\ job[j].target = None /\ job[j].addr \in Targets
  BY CandidateFacts
<1>4. Updated(job', job, j, job[j].stage, job[j].target, job[j].addr, job[j].at)
  BY <1>1, <1>2, NextSet
<1>5. /\ z \in Seq(JobIds) /\ Distinct(z)
      /\ \A k \in DOMAIN z : z[k] # j => \E i \in DOMAIN d : z[k] = d[i]
  <2>1. CASE j \in Range(d)
    BY <1>2, <2>1
  <2>2. CASE j \notin Range(d)
    <3>1. z = Append(d, j)
      BY <2>2
    <3> HIDE DEF d, z
    <3> QED BY <1>2, <2>2, <3>1, AppendFacts
  <2> QED BY <2>1, <2>2
<1> HIDE DEF z
<1>6. DeferredOnce' /\ CandidatesIdle'
  <2>1. /\ \A i \in JobIds \ {j} : job'[i] = job[i]
        /\ job'[j].wheel = job[j].wheel /\ job'[j].stage = "idle"
    BY <1>3, <1>4 DEF Updated, stage
  <2>2. /\ \A k \in DOMAIN z : z[k] = j => job'[j].stage = "idle"
        /\ \A k \in DOMAIN z : z[k] # j => \E i \in DOMAIN deferred[w] : z[k] = deferred[w][i]
    BY <1>5, <2>1
  <2>3. deferred' = [deferred EXCEPT ![w] = z] /\ z \in Seq(JobIds) /\ Distinct(z)
    BY <1>1, <1>5
  <2>4. UNCHANGED phase
    OBVIOUS
  <2> QED BY <2>1, <2>2, <2>3, <2>4, Decided
<1>7. TypeOK'
  BY <1>1, <1>2, <1>4, <1>5, DecidedTypes DEF Updated
<1> QED BY <1>1, <1>3, <1>4, <1>6, <1>7, JobMoves DEF SlotsInv, stage

LEMMA AcceptKeeps ==
    ASSUME SlotsInv, NEW w \in Wheels, NEW j \in JobIds, Candidate(w, j), Taken(w, j),
           NEW start, NEW t \in Targets \cup {None}, Accept(w, j, t, start),
           t = None => UNCHANGED <<inflight, nextStart>>,
           t # None => TakeSlot(t),
           UNCHANGED <<assigned, changes, jobs, phase, queue, releasing>>
    PROVE  SlotsInv'
<1> DEFINE d == deferred[w]
           z == Without(d, j)
           st == IF start > 0 THEN "timer" ELSE "ready"
           n == Interval * Units
<1>1. /\ job' = [job EXCEPT ![j].next = n, ![j].target = t, ![j].stage = st]
      /\ deferred' = [deferred EXCEPT ![w] = z]
  BY DEF Accept
<1>2. /\ job \in Jobs /\ d \in Seq(JobIds) /\ Distinct(d)
      /\ inflight \in [Targets -> Nat] /\ nextStart \in [Targets -> Nat]
      /\ releasing \in [Targets -> Nat]
  BY DEF SlotsInv, TypeOK, DeferredOnce, Jobs
<1>3. /\ stage(j) = "idle" /\ job[j].target = None /\ job[j].addr \in Targets
  BY CandidateFacts
<1>n. n \in Nat /\ st \in Stages /\ st \in Running \ {"queued"} /\ st # "unused"
  BY SchedulerAssumption DEF Stages, Running
<1> HIDE DEF n, st
<1>4. Updated(job', job, j, st, t, job[j].addr, job[j].at)
  BY <1>1, <1>2, <1>n, SlotSet
<1>5. /\ z \in Seq(JobIds) /\ Distinct(z)
      /\ \A k \in DOMAIN z : z[k] # j /\ \E i \in DOMAIN d : z[k] = d[i]
  <2> HIDE DEF d
  <2> QED BY <1>2, WithoutFacts
<1> HIDE DEF z
<1>6. DeferredOnce' /\ CandidatesIdle'
  <2>1. /\ \A i \in JobIds \ {j} : job'[i] = job[i]
        /\ job'[j].wheel = job[j].wheel
    BY <1>4 DEF Updated
  <2>2. /\ \A k \in DOMAIN z : z[k] = j => job'[j].stage = "idle"
        /\ \A k \in DOMAIN z : z[k] # j => \E i \in DOMAIN deferred[w] : z[k] = deferred[w][i]
    BY <1>5, <2>1
  <2>3. deferred' = [deferred EXCEPT ![w] = z] /\ z \in Seq(JobIds) /\ Distinct(z)
    BY <1>1, <1>5
  <2>4. UNCHANGED phase
    OBVIOUS
  <2> QED BY <2>1, <2>2, <2>3, <2>4, Decided
<1>7. inflight' \in [Targets -> Nat] /\ nextStart' \in [Targets -> Nat]
  <2>1. CASE t = None
    BY <1>2, <2>1
  <2>2. CASE t \in Targets
    <3>1. /\ TakeSlot(t) /\ GapOf(t) \in Nat
          /\ inflight[t] + 1 \in Nat /\ nextStart[t] + GapOf(t) \in Nat
      BY <1>2, <2>2, GapType, SchedulerAssumption
    <3> QED BY <1>2, <3>1 DEF TakeSlot
  <2> QED BY <2>1, <2>2
<1>8. TypeOK'
  BY <1>1, <1>4, <1>5, <1>7, DecidedTypes DEF Updated
<1>9. SlotsBalanced'
  <2>1. CASE t = None
    BY <1>3, <1>4, <2>1, JobMoves
  <2>2. CASE t # None
    <3>1. \A u \in Targets : inflight'[u] = inflight[u] + IF u = t THEN 1 ELSE 0
      BY <1>2, <2>2 DEF TakeSlot
    <3>2. \A u \in Targets : Cardinality(Slots(job', u)) =
                               Cardinality(Slots(job, u)) + IF u = t THEN 1 ELSE 0
      BY <1>3, <1>4, <2>2, SlotTaken
    <3>3. \A u \in Targets : /\ Cardinality(Slots(job, u)) \in Nat
                             /\ inflight[u] \in Nat /\ releasing[u] \in Nat
      BY <1>2, SlotsFinite
    <3>4. \A u \in Targets : inflight'[u] - inflight[u] =
               (Cardinality(Slots(job', u)) - Cardinality(Slots(job, u)))
                 + (releasing'[u] - releasing[u])
      BY <3>1, <3>2, <3>3
    <3> QED BY <1>2, <1>7, <3>4, Balanced
  <2> QED BY <2>1, <2>2
<1> QED BY <1>3, <1>4, <1>6, <1>8, <1>9, <1>n, JobMoves DEF SlotsInv

LEMMA AdmitKeeps ==
    ASSUME SlotsInv, NEW w \in Wheels, NEW j \in JobIds, Admit(w, j)
    PROVE  SlotsInv'
<1> DEFINE t == job[j].addr
<1>1. /\ Candidate(w, j) /\ Taken(w, j)
      /\ UNCHANGED <<assigned, changes, jobs, phase, queue, releasing>>
  BY DEF Admit
<1>2. t \in Targets /\ t # None /\ nextStart[t] \in Nat /\ Units \in Nat
  BY <1>1, CandidateFacts, SchedulerAssumption DEF SlotsInv, TypeOK
<1>3. \/ Accept(w, j, None, 0) /\ UNCHANGED <<inflight, nextStart>>
      \/ Defer(w, j, Units) \/ Defer(w, j, nextStart[t])
      \/ TakeSlot(t) /\ Accept(w, j, t, nextStart[t])
  BY DEF Admit
<1>4. CASE Accept(w, j, None, 0) /\ UNCHANGED <<inflight, nextStart>>
  BY <1>1, <1>4, AcceptKeeps
<1>5. CASE Defer(w, j, Units)
  BY <1>1, <1>2, <1>5, DeferKeeps
<1>6. CASE Defer(w, j, nextStart[t])
  BY <1>1, <1>2, <1>6, DeferKeeps
<1>7. CASE TakeSlot(t) /\ Accept(w, j, t, nextStart[t])
  BY <1>1, <1>2, <1>7, AcceptKeeps
<1> QED BY <1>3, <1>4, <1>5, <1>6, <1>7

LEMMA PhaseKeeps ==
    ASSUME SlotsInv, NEW w \in Wheels, Unlock(w) \/ DispatchEnd(w)
    PROVE  SlotsInv'
<1>1. UNCHANGED <<assigned, changes, jobs, job, deferred, late, fresh, queue,
                  inflight, nextStart, releasing>>
  BY DEF Unlock, DispatchEnd, limiterVars
<1>2. TypeOK
  BY DEF SlotsInv
<1>3. phase' \in [Wheels -> {"idle", "ticked", "admitting", "queueing"}]
  BY <1>2 DEF Unlock, DispatchEnd, TypeOK
<1>4. late[w] = {} /\ fresh[w] = {} /\ \A x \in Wheels \ {w} : phase'[x] = phase[x]
  BY <1>2 DEF Unlock, DispatchEnd, TypeOK, SlotsInv, CandidatesIdle
<1>5. CandidatesIdle'
  BY <1>1, <1>4 DEF SlotsInv, CandidatesIdle, stage
<1>6. TypeOK'
  BY <1>1, <1>2, <1>3 DEF TypeOK
<1> QED BY <1>1, <1>5, <1>6, JobsRest DEF SlotsInv

---------------------------------------------------------------------------
(* The queue, the workers and the end of a poll.                           *)

\* markDone gives the job's slot up, whatever has become of its endpoint.
LEMMA MarkDoneKeeps ==
    ASSUME SlotsInv, NEW j \in JobIds, stage(j) \in Running \ {"queued"}, MarkDone(j),
           UNCHANGED <<assigned, changes, jobs, deferred, phase, late, fresh, queue>>
    PROVE  SlotsInv'
<1> DEFINE v == [job[j] EXCEPT !.stage = "idle", !.target = None, !.host = None, !.at = None]
           kept == j \in Registered(job[j].wheel)
           t == job[j].target
<1>0. TypeOK /\ job \in Jobs /\ job[j] \in Job
  BY DEF SlotsInv, TypeOK, Jobs
<1>1. /\ v \in Job /\ v.wheel = job[j].wheel /\ v.ep = job[j].ep
      /\ v.stage = "idle" /\ v.target = None /\ v.addr = job[j].addr
  BY <1>0 DEF Job
<1>2. /\ job' = [job EXCEPT ![j] = IF kept THEN v ELSE Unused]
      /\ releasing' = IF t = None THEN releasing
                      ELSE [releasing EXCEPT ![t] = releasing[t] + 1]
      /\ UNCHANGED <<inflight, nextStart>>
  BY DEF MarkDone
<1> HIDE DEF v, kept
<1>3. /\ job' \in Jobs /\ \A i \in JobIds \ {j} : job'[i] = job[i]
      /\ job'[j] = IF kept THEN v ELSE Unused
  BY <1>0, <1>1, <1>2, UnusedFacts DEF Jobs
<1>4. job[j].addr \in Targets /\ stage(j) # "idle" /\ stage(j) # "queued" /\ stage(j) # "unused"
  BY UnusedFacts DEF SlotsInv, Addressed
<1>5. Rostered'
  <2> SUFFICES ASSUME NEW w \in Wheels, NEW e \in Endpoints, jobs[w][e] # None
               PROVE  /\ job'[jobs[w][e]].wheel = w /\ job'[jobs[w][e]].ep = e
                      /\ job'[jobs[w][e]].stage # "unused"
    BY DEF Rostered, stage
  <2>1. /\ jobs[w][e] \in JobIds /\ job[jobs[w][e]].wheel = w /\ job[jobs[w][e]].ep = e
        /\ job[jobs[w][e]].stage # "unused"
    BY <1>0 DEF SlotsInv, Rostered, TypeOK, stage
  <2>2. jobs[w][e] = j => kept
    BY <2>1 DEF kept, Registered
  <2> QED BY <1>1, <1>3, <2>1, <2>2
<1>6. Untargeted' /\ Addressed'
  BY <1>1, <1>3, <1>4, UnusedFacts DEF SlotsInv, Untargeted, Addressed, stage
<1>7. QueuedOnce'
  <2> SUFFICES ASSUME NEW x \in Wheels
               PROVE  /\ Distinct(queue[x])
                      /\ \A k \in DOMAIN queue[x] : /\ job'[queue[x][k]].wheel = x
                                                    /\ job'[queue[x][k]].stage = "queued"
    BY DEF QueuedOnce, stage
  <2>1. Distinct(queue[x])
    BY DEF SlotsInv, QueuedOnce
  <2>2. ASSUME NEW k \in DOMAIN queue[x]
        PROVE  job'[queue[x][k]].wheel = x /\ job'[queue[x][k]].stage = "queued"
    <3>1. queue[x][k] \in JobIds
      BY <1>0 DEF TypeOK
    <3>2. job[queue[x][k]].wheel = x /\ stage(queue[x][k]) = "queued"
      BY DEF SlotsInv, QueuedOnce
    <3>3. queue[x][k] # j
      BY <1>4, <3>2
    <3> QED BY <1>3, <3>1, <3>2, <3>3 DEF stage
  <2> QED BY <2>1, <2>2
<1>8. DeferredOnce'
  <2> SUFFICES ASSUME NEW x \in Wheels
               PROVE  /\ Distinct(deferred[x])
                      /\ \A k \in DOMAIN deferred[x] :
                            /\ job'[deferred[x][k]].wheel = x
                            /\ job'[deferred[x][k]].stage = "idle"
    BY DEF DeferredOnce, stage
  <2>1. Distinct(deferred[x])
    BY DEF SlotsInv, DeferredOnce
  <2>2. ASSUME NEW k \in DOMAIN deferred[x]
        PROVE  job'[deferred[x][k]].wheel = x /\ job'[deferred[x][k]].stage = "idle"
    <3>1. deferred[x][k] \in JobIds
      BY <1>0 DEF TypeOK
    <3>2. job[deferred[x][k]].wheel = x /\ stage(deferred[x][k]) = "idle"
      BY DEF SlotsInv, DeferredOnce
    <3>3. deferred[x][k] # j
      BY <1>4, <3>2
    <3> QED BY <1>3, <3>1, <3>2, <3>3 DEF stage
  <2> QED BY <2>1, <2>2
<1>9. CandidatesIdle'
  <2> SUFFICES ASSUME NEW x \in Wheels, NEW i \in late[x] \cup fresh[x]
               PROVE  phase[x] = "admitting" /\ job'[i].wheel = x /\ job'[i].stage = "idle"
    BY DEF CandidatesIdle, stage
  <2>1. i \in JobIds
    BY <1>0 DEF TypeOK
  <2>2. phase[x] = "admitting" /\ job[i].wheel = x /\ job[i].stage = "idle"
    BY DEF SlotsInv, CandidatesIdle, stage
  <2>3. i # j
    BY <1>4, <2>2 DEF stage
  <2> QED BY <1>3, <2>1, <2>2, <2>3
<1>10. releasing' \in [Targets -> Nat]
  BY <1>0, <1>2 DEF TypeOK, Job
<1>11. SlotsBalanced'
  <2>1. job'[j].target = None
    BY <1>1, <1>3, UnusedFacts
  <2>2. \A u \in Targets : Cardinality(Slots(job', u)) =
                             Cardinality(Slots(job, u)) - IF u = t THEN 1 ELSE 0
    BY <1>3, <2>1, SlotFreed
  <2>3. \A u \in Targets : releasing'[u] = releasing[u] + IF u = t THEN 1 ELSE 0
    BY <1>0, <1>2, SchedulerAssumption DEF TypeOK
  <2>4. \A u \in Targets : /\ Cardinality(Slots(job, u)) \in Nat
                           /\ inflight[u] \in Nat /\ releasing[u] \in Nat
    BY <1>0, SlotsFinite DEF TypeOK
  <2>5. \A u \in Targets : inflight'[u] - inflight[u] =
             (Cardinality(Slots(job', u)) - Cardinality(Slots(job, u)))
                 + (releasing'[u] - releasing[u])
    <3> SUFFICES ASSUME NEW u \in Targets
                 PROVE  inflight'[u] - inflight[u] =
                            (Cardinality(Slots(job', u)) - Cardinality(Slots(job, u)))
                              + (releasing'[u] - releasing[u])
      OBVIOUS
    <3> DEFINE c == Cardinality(Slots(job, u))
               d == Cardinality(Slots(job', u))
    <3>1. /\ d = c - IF u = t THEN 1 ELSE 0
          /\ releasing'[u] = releasing[u] + IF u = t THEN 1 ELSE 0
          /\ inflight'[u] = inflight[u]
          /\ c \in Nat /\ inflight[u] \in Nat /\ releasing[u] \in Nat
      BY <1>2, <2>2, <2>3, <2>4
    <3> HIDE DEF c, d, t
    <3>2. inflight'[u] - inflight[u] = (d - c) + (releasing'[u] - releasing[u])
      BY <3>1
    <3> QED BY <3>2 DEF c, d
  <2> QED BY <1>0, <1>2, <1>10, <2>5, Balanced DEF TypeOK
<1>12. TypeOK'
  BY <1>0, <1>2, <1>3, <1>10 DEF TypeOK, Jobs
<1> QED BY <1>5, <1>6, <1>7, <1>8, <1>9, <1>11, <1>12 DEF SlotsInv

\* A running job moves on: it is not queued, and goes nowhere idle.
LEMMA RunnerMoves ==
    ASSUME SlotsInv, NEW j \in JobIds, stage(j) \in Running \ {"queued"},
           NEW st \in Running, NEW at,
           Updated(job', job, j, st, job[j].target, job[j].addr, at),
           UNCHANGED <<assigned, changes, jobs, deferred, phase, late, fresh, queue,
                       inflight, nextStart, releasing>>
    PROVE  SlotsInv'
<1>1. /\ stage(j) # "queued" /\ stage(j) # "idle" /\ stage(j) # "unused" /\ st # "unused"
      /\ job[j].addr \in Targets
  BY UnusedFacts DEF SlotsInv, Addressed
<1>2. TypeOK'
  BY DEF SlotsInv, TypeOK, Updated, Jobs
<1> QED BY <1>1, <1>2, JobMoves DEF SlotsInv

LEMMA EnqueueKeeps ==
    ASSUME SlotsInv, NEW w \in Wheels, NEW j \in JobIds, Enqueue(w, j)
    PROVE  SlotsInv'
<1>0. TypeOK /\ job \in Jobs
  BY DEF SlotsInv, TypeOK, Jobs
<1>1. /\ job[j].wheel = w /\ stage(j) \in Running \ {"queued"}
      /\ UNCHANGED <<assigned, changes, jobs, deferred, phase, late, fresh>>
  BY DEF Enqueue, Running, dispatchVars
<1>2. CASE MarkDone(j) /\ UNCHANGED queue
  BY <1>1, <1>2, MarkDoneKeeps
<1>3. ASSUME Len(queue[w]) < QueueSize,
             queue' = [queue EXCEPT ![w] = Append(queue[w], j)],
             job' = [job EXCEPT ![j].stage = "queued"],
             UNCHANGED limiterVars
      PROVE  SlotsInv'
  <2>1. /\ stage(j) # "queued" /\ stage(j) # "idle" /\ stage(j) # "unused"
        /\ job[j].addr \in Targets
    BY <1>1, UnusedFacts DEF SlotsInv, Addressed
  <2>2. Updated(job', job, j, "queued", job[j].target, job[j].addr, job[j].at)
    BY <1>0, <1>3, StageSet DEF Stages, Running
  <2> DEFINE d == queue[w]
             z == Append(d, j)
  <2>3. d \in Seq(JobIds) /\ Distinct(d) /\ j \notin Range(d)
    BY <1>0, <2>1 DEF SlotsInv, QueuedOnce, TypeOK, Range
  <2>4. /\ z \in Seq(JobIds) /\ Distinct(z) /\ Len(z) = Len(d) + 1
        /\ \A k \in DOMAIN z : z[k] = j \/ \E i \in DOMAIN d : z[k] = d[i]
    <3> HIDE DEF d
    <3> QED BY <2>3, AppendFacts
  <2>5. /\ queue' \in [Wheels -> Seq(JobIds)] /\ queue'[w] = z
        /\ \A x \in Wheels \ {w} : queue'[x] = queue[x]
    BY <1>0, <1>3, <2>4 DEF TypeOK
  <2>6. \A x \in Wheels : Len(queue'[x]) <= QueueSize
    BY <1>0, <1>3, <2>4, <2>5, SchedulerAssumption DEF TypeOK
  <2> HIDE DEF z
  <2>7. QueuedOnce'
    <3>1. \A x \in Wheels : Distinct(queue'[x])
      BY <2>4, <2>5 DEF SlotsInv, QueuedOnce
    <3>2. ASSUME NEW x \in Wheels, NEW k \in DOMAIN queue'[x]
          PROVE  job'[queue'[x][k]].wheel = x /\ job'[queue'[x][k]].stage = "queued"
      <4>1. job'[j].wheel = w /\ job'[j].stage = "queued"
        BY <1>1, <2>2 DEF Updated
      <4>2. ASSUME NEW i \in DOMAIN queue[x]
            PROVE  job'[queue[x][i]].wheel = x /\ job'[queue[x][i]].stage = "queued"
        <5>1. queue[x][i] \in JobIds
          BY <1>0 DEF TypeOK
        <5>2. job[queue[x][i]].wheel = x /\ job[queue[x][i]].stage = "queued"
          BY DEF SlotsInv, QueuedOnce, stage
        <5>3. queue[x][i] # j
          BY <2>1, <5>2 DEF stage
        <5> QED BY <2>2, <5>1, <5>2, <5>3 DEF Updated
      <4>3. CASE x = w
        BY <2>4, <2>5, <4>1, <4>2, <4>3
      <4>4. CASE x # w
        BY <2>5, <4>2, <4>4
      <4> QED BY <4>3, <4>4
    <3> QED BY <3>1, <3>2 DEF QueuedOnce, stage
  <2>8. UNCHANGED <<inflight, nextStart, releasing>>
    BY <1>3 DEF limiterVars
  <2>9. TypeOK'
    BY <1>0, <1>1, <2>2, <2>5, <2>6, <2>8 DEF TypeOK, Updated, Jobs
  <2> QED BY <1>1, <2>1, <2>2, <2>7, <2>8, <2>9, JobMoves DEF SlotsInv, Running
<1> QED BY <1>1, <1>2, <1>3 DEF Enqueue

LEMMA DequeueKeeps ==
    ASSUME SlotsInv, NEW w \in Wheels, Dequeue(w)
    PROVE  SlotsInv'
<1> DEFINE d == queue[w]
           j == Head(d)
           z == Tail(d)
<1>0. TypeOK /\ job \in Jobs /\ d # <<>>
  BY DEF SlotsInv, TypeOK, Jobs, Dequeue
<1>1. /\ job' = [job EXCEPT ![j].stage = "dequeued", ![j].host = job[j].addr]
      /\ queue' = [queue EXCEPT ![w] = z]
      /\ UNCHANGED <<assigned, changes, jobs, deferred, phase, late, fresh,
                     inflight, nextStart, releasing>>
  BY DEF Dequeue, dispatchVars, limiterVars
<1>2. /\ z \in Seq(JobIds) /\ Distinct(z) /\ j \in JobIds
      /\ Len(z) <= Len(d) /\ 1 \in DOMAIN d /\ j = d[1]
      /\ \A k \in DOMAIN z : z[k] # j /\ \E i \in DOMAIN d : z[k] = d[i]
  <2>1. d \in Seq(JobIds) /\ Distinct(d)
    BY <1>0 DEF SlotsInv, QueuedOnce, TypeOK
  <2> HIDE DEF d
  <2> QED BY <1>0, <2>1, TailFacts
<1>3. job[j].wheel = w /\ job[j].stage = "queued"
  BY <1>2 DEF SlotsInv, QueuedOnce, stage
<1> HIDE DEF j
<1>4. job[j].addr \in Targets
  BY <1>2, <1>3 DEF SlotsInv, Addressed, stage
<1>5. Updated(job', job, j, "dequeued", job[j].target, job[j].addr, job[j].at)
  BY <1>0, <1>1, <1>2, <1>4, HostSet DEF Stages, Running
<1>6. /\ queue' \in [Wheels -> Seq(JobIds)] /\ queue'[w] = z
      /\ \A x \in Wheels \ {w} : queue'[x] = queue[x]
  BY <1>0, <1>1, <1>2 DEF TypeOK
<1>7. \A x \in Wheels : Len(queue'[x]) <= QueueSize
  <2>1. Len(z) \in Nat /\ Len(d) \in Nat /\ Len(d) <= QueueSize
    BY <1>0, <1>2 DEF TypeOK
  <2>2. Len(z) <= QueueSize
    BY <1>2, <2>1, SchedulerAssumption
  <2> QED BY <1>0, <1>6, <2>2 DEF TypeOK
<1> HIDE DEF z
<1>8. QueuedOnce'
  <2>1. \A x \in Wheels : Distinct(queue'[x])
    BY <1>2, <1>6 DEF SlotsInv, QueuedOnce
  <2>2. ASSUME NEW x \in Wheels, NEW k \in DOMAIN queue'[x]
        PROVE  job'[queue'[x][k]].wheel = x /\ job'[queue'[x][k]].stage = "queued"
    <3>1. PICK i \in DOMAIN queue[x] : queue'[x][k] = queue[x][i]
      BY <1>2, <1>6
    <3>2. /\ queue[x][i] \in JobIds
          /\ job[queue[x][i]].wheel = x /\ job[queue[x][i]].stage = "queued"
      BY <1>0 DEF SlotsInv, QueuedOnce, TypeOK, stage
    <3>3. queue[x][i] # j
      <4>1. CASE x = w
        BY <1>2, <1>6, <3>1, <4>1
      <4>2. CASE x # w
        BY <1>3, <3>2, <4>2
      <4> QED BY <4>1, <4>2
    <3> QED BY <1>5, <3>1, <3>2, <3>3 DEF Updated
  <2> QED BY <2>1, <2>2 DEF QueuedOnce, stage
<1>9. TypeOK'
  BY <1>0, <1>1, <1>5, <1>6, <1>7 DEF TypeOK, Updated, Jobs
<1>10. "dequeued" \in Running /\ stage(j) # "idle" /\ "dequeued" # "unused"
  BY <1>3 DEF Running, stage
<1> QED BY <1>1, <1>2, <1>4, <1>5, <1>8, <1>9, <1>10, JobMoves DEF SlotsInv

LEMMA WorkKeeps ==
    ASSUME SlotsInv, NEW w \in Wheels, NEW j \in JobIds, Work(w, j)
    PROVE  SlotsInv'
<1>0. job \in Jobs /\ job[j].addr \in Targets \cup {None}
  BY DEF SlotsInv, TypeOK, Jobs, Job
<1>1. CASE Enqueue(w, j)
  BY <1>1, EnqueueKeeps
<1>2. CASE AcquireHost(w, j)
  <2>1. Updated(job', job, j, "holding", job[j].target, job[j].addr, job[j].at)
    BY <1>0, <1>2, StageSet DEF AcquireHost, Stages, Running
  <2>2. stage(j) \in Running \ {"queued"} /\ "holding" \in Running
    BY <1>2 DEF AcquireHost, Running
  <2> QED BY <1>2, <2>1, <2>2, RunnerMoves DEF AcquireHost, dispatchVars, limiterVars
<1>3. CASE Poll(w, j)
  <2>1. Updated(job', job, j, "polling", job[j].target, job[j].addr, job[j].addr)
    BY <1>0, <1>3, AtSet DEF Poll, Stages, Running
  <2>2. stage(j) \in Running \ {"queued"} /\ "polling" \in Running
    BY <1>3 DEF Poll, Running
  <2> QED BY <1>3, <2>1, <2>2, RunnerMoves DEF Poll, dispatchVars, limiterVars
<1>4. CASE Finish(w, j)
  <2>1. Updated(job', job, j, "ended", job[j].target, job[j].addr, job[j].at)
    BY <1>0, <1>4, StageSet DEF Finish, Stages, Running
  <2>2. stage(j) \in Running \ {"queued"} /\ "ended" \in Running
    BY <1>4 DEF Finish, Running
  <2> QED BY <1>4, <2>1, <2>2, RunnerMoves DEF Finish, dispatchVars, limiterVars
<1>5. CASE Return(w, j)
  <2>1. stage(j) \in Running \ {"queued"}
    BY <1>5 DEF Return, Running
  <2> QED BY <1>5, <2>1, MarkDoneKeeps DEF Return, dispatchVars
<1> QED BY <1>1, <1>2, <1>3, <1>4, <1>5 DEF Work

\* Limiter.Done takes one off the count, and it is one that was given up.
LEMMA DoneKeeps ==
    ASSUME SlotsInv, NEW t \in Targets, Done(t)
    PROVE  SlotsInv'
<1>0. TypeOK
  BY DEF SlotsInv
<1>1. /\ releasing[t] > 0
      /\ releasing' = [releasing EXCEPT ![t] = releasing[t] - 1]
      /\ inflight' = [inflight EXCEPT ![t] = IF inflight[t] > 0 THEN inflight[t] - 1 ELSE 0]
      /\ UNCHANGED <<assigned, changes, jobs, job, deferred, phase, late, fresh, queue,
                     nextStart>>
  BY DEF Done, dispatchVars
<1>2. /\ inflight[t] \in Nat /\ releasing[t] \in Nat
      /\ inflight[t] = Cardinality(Slots(job, t)) + releasing[t]
      /\ Cardinality(Slots(job, t)) \in Nat
  <2>1. inflight[t] \in Nat /\ releasing[t] \in Nat
    BY <1>0 DEF TypeOK
  <2>2. inflight[t] = Cardinality(Slots(job, t)) + releasing[t]
    BY DEF SlotsInv, SlotsBalanced, Slots
  <2>3. Cardinality(Slots(job, t)) \in Nat
    BY SlotsFinite
  <2> QED BY <2>1, <2>2, <2>3
<1>3. /\ inflight[t] - 1 \in Nat /\ releasing[t] - 1 \in Nat /\ inflight[t] > 0
  BY <1>1, <1>2
<1>4. inflight' \in [Targets -> Nat] /\ releasing' \in [Targets -> Nat]
  BY <1>0, <1>1, <1>3 DEF TypeOK
<1>5. SlotsBalanced'
  <2>1. \A u \in Targets : /\ inflight'[u] = inflight[u] - IF u = t THEN 1 ELSE 0
                           /\ releasing'[u] = releasing[u] - IF u = t THEN 1 ELSE 0
    BY <1>0, <1>1, <1>3 DEF TypeOK
  <2>2. \A u \in Targets : /\ Cardinality(Slots(job, u)) \in Nat
                           /\ inflight[u] \in Nat /\ releasing[u] \in Nat
    BY <1>0, SlotsFinite DEF TypeOK
  <2>3. \A u \in Targets : inflight'[u] - inflight[u] =
             (Cardinality(Slots(job', u)) - Cardinality(Slots(job, u)))
               + (releasing'[u] - releasing[u])
    BY <1>1, <2>1, <2>2
  <2> QED BY <1>4, <2>3, Balanced
<1>6. TypeOK'
  BY <1>0, <1>1, <1>4 DEF TypeOK
<1>7. CandidatesIdle'
  BY <1>1 DEF SlotsInv, CandidatesIdle, stage
<1> QED BY <1>1, <1>5, <1>6, <1>7, JobsRest DEF SlotsInv

---------------------------------------------------------------------------
(* The slots.                                                              *)

LEMMA SlotsInitially == Init => SlotsInv
<1> SUFFICES ASSUME Init PROVE SlotsInv
  OBVIOUS
<1>1. TypeOK
  <2>1. \A j \in JobIds : job[j] \in Job
    BY UnusedFacts DEF Init
  <2> QED BY <2>1, SchedulerAssumption DEF Init, TypeOK
<1>2. Rostered /\ CandidatesIdle
  BY DEF Init, Rostered, CandidatesIdle
<1>3. Untargeted /\ Addressed
  BY UnusedFacts DEF Init, Untargeted, Addressed, stage
<1>4. QueuedOnce /\ DeferredOnce
  BY DEF Init, QueuedOnce, DeferredOnce, Distinct
<1>5. SlotsBalanced
  <2>1. \A t \in Targets : Slots(job, t) = {}
    BY UnusedFacts, SchedulerAssumption DEF Init, Slots
  <2>2. \A t \in Targets : Cardinality(Slots(job, t)) = 0
    BY <2>1, FS_EmptySet
  <2> QED BY <2>2 DEF Init, SlotsBalanced, Slots
<1> QED BY <1>1, <1>2, <1>3, <1>4, <1>5 DEF SlotsInv

LEMMA SlotsKept == SlotsInv /\ [Next]_vars => SlotsInv'
<1> SUFFICES ASSUME SlotsInv, [Next]_vars PROVE SlotsInv'
  OBVIOUS
<1>1. ASSUME NEW e \in Endpoints, NEW a \in Targets \cup {None}, Refresh(e, a)
      PROVE  SlotsInv'
  BY <1>1, RefreshKeeps
<1>2. ASSUME NEW w \in Wheels, NEW e \in Endpoints, Apply(w, e) PROVE SlotsInv'
  BY <1>2, AddKeeps, ChangeKeeps, RemoveKeeps DEF Apply
<1>3. CASE Second
  BY <1>3, SecondKeeps
<1>4. ASSUME NEW w \in Wheels, Wheel(w) PROVE SlotsInv'
  BY <1>4, DispatchKeeps, AdmitKeeps, PhaseKeeps DEF Wheel
<1>5. ASSUME NEW w \in Wheels, Dequeue(w) PROVE SlotsInv'
  BY <1>5, DequeueKeeps
<1>6. ASSUME NEW w \in Wheels, NEW j \in JobIds, Work(w, j) PROVE SlotsInv'
  BY <1>6, WorkKeeps
<1>7. ASSUME NEW t \in Targets, Done(t) PROVE SlotsInv'
  BY <1>7, DoneKeeps
<1>8. CASE UNCHANGED vars
  <2>1. UNCHANGED <<assigned, changes, jobs, job, deferred, phase, late, fresh, queue,
                    inflight, nextStart, releasing>>
    BY <1>8 DEF vars, dispatchVars, limiterVars
  <2>2. TypeOK' /\ CandidatesIdle'
    BY <2>1 DEF SlotsInv, TypeOK, CandidatesIdle, stage
  <2> QED BY <2>1, <2>2, JobsRest DEF SlotsInv
<1> QED BY <1>1, <1>2, <1>3, <1>4, <1>5, <1>6, <1>7, <1>8 DEF Next

LEMMA SlotsInvariance == Spec => []SlotsInv
<1>1. SlotsInv /\ [Next]_vars => SlotsInv'
  BY SlotsKept
<1> QED BY SlotsInitially, <1>1, PTL DEF Spec

\* The limiter counts exactly the slots that jobs hold or are giving back,
\* however many endpoints move, leave and return under queued and running polls
\* of however many wheels, and whatever a full queue sheds.
THEOREM SlotsAreBalanced == Spec => []SlotsBalanced
<1>1. SlotsInv => SlotsBalanced
  BY DEF SlotsInv
<1> QED BY <1>1, SlotsInvariance, PTL

---------------------------------------------------------------------------
(* The limits.                                                             *)

\* A target's limit is one of its endpoints' limits, the least, or none.
LEMMA CapType == ASSUME NEW t PROVE CapOf(t) \in Nat
<1> DEFINE caps == {Cap[e] : e \in At(t)} \ {0}
<1>1. caps \subseteq Nat
  BY SchedulerAssumption DEF At
<1>2. CASE caps = {}
  BY <1>2 DEF CapOf
<1>3. CASE caps # {}
  <2>1. CapOf(t) = CHOOSE c \in caps : \A d \in caps : c <= d
    BY <1>3 DEF CapOf
  <2> HIDE DEF caps
  <2>2. PICK c \in caps : \A d \in caps : ~ (<<d, c>> \in OpToRel(<, Nat))
    BY <1>1, <1>3, NatLessThanWellFounded, WFMin
  <2>3. \A d \in caps : c <= d
    <3> SUFFICES ASSUME NEW d \in caps PROVE c <= d
      OBVIOUS
    <3>1. c \in Nat /\ d \in Nat
      BY <1>1
    <3>2. ~ (d < c)
      BY <2>2, <3>1 DEF OpToRel
    <3> QED BY <3>1, <3>2
  <2> QED BY <1>1, <2>1, <2>3
<1> QED BY <1>2, <1>3

\* Before the assignment changes, a job is at its endpoint's address; if that
\* address has a cap, a running job holds a slot of it, and polls there.
Stands(i) ==
    /\ stage(i) # "unused" => job[i].ep \in Endpoints /\ job[i].addr = assigned[job[i].ep]
    /\ stage(i) \in Running /\ CapOf(job[i].addr) > 0 => job[i].target = job[i].addr
    /\ stage(i) = "polling" => job[i].at = job[i].addr

WithinCap(t) == CapOf(t) > 0 => inflight[t] <= CapOf(t)

Standing ==
    /\ \A e \in Endpoints : assigned[e] \in Targets
    /\ \A i \in JobIds : Stands(i)
    /\ \A t \in Targets : WithinCap(t)

LimitInv == SlotsInv /\ (changes = 0 => Standing)

LEMMA CapsStay ==
    ASSUME NEW t, UNCHANGED assigned
    PROVE  CapOf(t)' = CapOf(t) /\ GapOf(t)' = GapOf(t) /\ Limited(t)' = Limited(t)
BY DEF CapOf, GapOf, Limited, At

\* What a step that moves one job has to show.
LEMMA StandsMoved ==
    ASSUME Standing, UNCHANGED assigned, NEW j \in JobIds, NEW st, NEW tg, NEW ad, NEW at,
           Updated(job', job, j, st, tg, ad, at),
           st # "unused" => job[j].ep \in Endpoints /\ ad = assigned[job[j].ep],
           st \in Running /\ CapOf(ad) > 0 => tg = ad,
           st = "polling" => at = ad
    PROVE  \A i \in JobIds : Stands(i)'
<1> SUFFICES ASSUME NEW i \in JobIds PROVE Stands(i)'
  OBVIOUS
<1>1. \A t : CapOf(t)' = CapOf(t)
  BY CapsStay
<1>2. CASE i # j
  <2>1. Stands(i) /\ job'[i] = job[i]
    BY <1>2 DEF Standing, Updated
  <2> QED BY <1>1, <2>1 DEF Stands, stage, CapOf, At
<1>3. CASE i = j
  BY <1>1, <1>3 DEF Stands, stage, CapOf, At, Updated
<1> QED BY <1>2, <1>3

\* What a step has to show that leaves the limiter's counts alone or lowers them.
LEMMA CapsKept ==
    ASSUME SlotsInv, Standing, UNCHANGED assigned,
           \A t \in Targets : inflight'[t] \in Nat /\ inflight'[t] <= inflight[t]
    PROVE  \A t \in Targets : WithinCap(t)'
<1> SUFFICES ASSUME NEW t \in Targets PROVE WithinCap(t)'
  OBVIOUS
<1>1. CapOf(t)' = CapOf(t) /\ CapOf(t) \in Nat
  BY CapsStay, CapType
<1>2. inflight[t] \in Nat /\ WithinCap(t)
  BY DEF SlotsInv, TypeOK, Standing
<1> QED BY <1>1, <1>2 DEF WithinCap

\* Steps of the assignment, and time.
LEMMA ApplyStands ==
    ASSUME SlotsInv, Standing, NEW w \in Wheels, NEW e \in Endpoints, Apply(w, e)
    PROVE  Standing'
<1>0. TypeOK /\ assigned[e] \in Targets /\ None \notin Targets /\ job \in Jobs
  BY SchedulerAssumption DEF SlotsInv, Standing, TypeOK, Jobs
<1>1. CASE Change(w, e)
  <2> DEFINE j == jobs[w][e]
  <2>1. j \in JobIds /\ job[j].ep = e /\ stage(j) # "unused"
    BY <1>0, <1>1 DEF Change, SlotsInv, Rostered, TypeOK
  <2>2. job[j].addr = assigned[e]
    BY <2>1 DEF Standing, Stands
  <2> QED BY <1>1, <2>2 DEF Change
<1>2. CASE Remove(w, e)
  BY <1>0, <1>2 DEF Remove
<1>3. CASE Add(w, e)
  <2>1. PICK j \in JobIds, seconds \in 0 .. Interval - 1 :
           /\ stage(j) = "unused"
           /\ job' = [job EXCEPT ![j] =
                         [Unused EXCEPT !.stage = "idle", !.wheel = w, !.ep = e,
                                        !.addr = assigned[e], !.next = seconds * Units]]
    BY <1>3 DEF Add
  <2> DEFINE v == [Unused EXCEPT !.stage = "idle", !.wheel = w, !.ep = e,
                                 !.addr = assigned[e], !.next = seconds * Units]
  <2>2. v.stage = "idle" /\ v.ep = e /\ v.addr = assigned[e]
    BY DEF Unused
  <2>3. job' = [job EXCEPT ![j] = v] /\ UNCHANGED <<assigned, inflight>>
    BY <1>3, <2>1 DEF Add, limiterVars
  <2> HIDE DEF v
  <2>4. \A i \in JobIds : Stands(i)'
    <3> SUFFICES ASSUME NEW i \in JobIds PROVE Stands(i)'
      OBVIOUS
    <3>1. CASE i # j
      <4>1. Stands(i) /\ job'[i] = job[i]
        BY <1>0, <2>3, <3>1 DEF Standing, Jobs
      <4> QED BY <2>3, <4>1 DEF Stands, stage, CapOf, At
    <3>2. CASE i = j
      <4>1. job'[i] = v
        BY <1>0, <2>3, <3>2 DEF Jobs
      <4> QED BY <2>2, <2>3, <4>1 DEF Stands, stage, Running
    <3> QED BY <3>1, <3>2
  <2>5. \A t \in Targets : inflight'[t] \in Nat /\ inflight'[t] <= inflight[t]
    BY <1>0, <2>3 DEF TypeOK
  <2> QED BY <2>3, <2>4, <2>5, CapsKept DEF Standing
<1> QED BY <1>1, <1>2, <1>3 DEF Apply

\* Steps that change nothing of a job but the time of its next poll.
LEMMA TimeStands ==
    ASSUME SlotsInv, Standing, UNCHANGED <<assigned, inflight>>,
           \A i \in JobIds : /\ job'[i].stage = job[i].stage /\ job'[i].ep = job[i].ep
                             /\ job'[i].addr = job[i].addr /\ job'[i].target = job[i].target
                             /\ job'[i].at = job[i].at
    PROVE  Standing'
<1>1. \A i \in JobIds : Stands(i)'
  BY DEF Standing, Stands, stage, CapOf, At
<1>2. \A t \in Targets : inflight'[t] \in Nat /\ inflight'[t] <= inflight[t]
  BY DEF SlotsInv, TypeOK
<1> QED BY <1>1, <1>2, CapsKept DEF Standing

\* A slot is taken only below the cap, at the address the poll goes to.
LEMMA AdmitStands ==
    ASSUME SlotsInv, Standing, NEW w \in Wheels, NEW j \in JobIds, Admit(w, j)
    PROVE  Standing'
<1> DEFINE t == job[j].addr
           start == nextStart[t]
           n == Interval * Units
<1>1. Candidate(w, j) /\ UNCHANGED assigned
  BY DEF Admit
<1>2. /\ t \in Targets /\ t # None /\ stage(j) = "idle" /\ job[j].ep \in Endpoints
      /\ t = assigned[job[j].ep] /\ job \in Jobs /\ inflight \in [Targets -> Nat]
      /\ nextStart[t] \in Nat /\ Units \in Nat /\ n \in Nat
  BY <1>1, CandidateFacts, SchedulerAssumption
     DEF SlotsInv, TypeOK, Standing, Stands, Jobs
<1>3. CapOf(t) \in Nat
  BY CapType
<1> HIDE DEF n
<1>4. ASSUME ~ Limited(t), Accept(w, j, None, 0), UNCHANGED inflight PROVE Standing'
  <2>0. /\ job' = [job EXCEPT ![j].next = n, ![j].target = None, ![j].stage = "ready"]
        /\ "ready" \in Stages
    BY <1>4 DEF Accept, n, Stages, Running
  <2>1. Updated(job', job, j, "ready", None, job[j].addr, job[j].at)
    BY <1>2, <2>0, SlotSet
  <2>2. ~ (CapOf(t) > 0)
    BY <1>4 DEF Limited
  <2>3. \A i \in JobIds : Stands(i)'
    BY <1>1, <1>2, <2>1, <2>2, StandsMoved
  <2>4. \A u \in Targets : inflight'[u] \in Nat /\ inflight'[u] <= inflight[u]
    BY <1>2, <1>4
  <2> QED BY <1>1, <2>3, <2>4, CapsKept DEF Standing
<1>5. ASSUME NEW retry \in Nat, Defer(w, j, retry) PROVE Standing'
  <2>1. Updated(job', job, j, job[j].stage, job[j].target, job[j].addr, job[j].at)
    BY <1>2, <1>5, NextSet DEF Defer
  <2>2. \A i \in JobIds : /\ job'[i].stage = job[i].stage /\ job'[i].ep = job[i].ep
                          /\ job'[i].addr = job[i].addr /\ job'[i].target = job[i].target
                          /\ job'[i].at = job[i].at
    BY <2>1 DEF Updated
  <2> QED BY <1>1, <1>5, <2>2, TimeStands DEF Defer
<1>6. ASSUME ~ Busy(t), TakeSlot(t), Accept(w, j, t, start) PROVE Standing'
  <2> DEFINE st == IF start > 0 THEN "timer" ELSE "ready"
  <2>1. st \in Stages /\ st # "polling"
    BY DEF Stages, Running
  <2>2. job' = [job EXCEPT ![j].next = n, ![j].target = t, ![j].stage = st]
    BY <1>6 DEF Accept, n
  <2> HIDE DEF st
  <2>3. Updated(job', job, j, st, t, job[j].addr, job[j].at)
    <3> HIDE DEF t
    <3>1. job \in Jobs /\ t \in Targets \cup {None} /\ n \in Nat
      BY <1>2
    <3>2. st \in Stages
      BY <2>1
    <3>3. Updated([job EXCEPT ![j].next = n, ![j].target = t, ![j].stage = st], job, j,
                  st, t, job[j].addr, job[j].at)
      BY <3>1, <3>2, SlotSet
    <3> QED BY <2>2, <3>3
  <2> HIDE DEF t
  <2>4. \A i \in JobIds : Stands(i)'
    BY <1>1, <1>2, <2>1, <2>3, StandsMoved DEF t
  <2>5. \A u \in Targets : WithinCap(u)'
    <3> SUFFICES ASSUME NEW u \in Targets PROVE WithinCap(u)'
      OBVIOUS
    <3>1. CapOf(u)' = CapOf(u) /\ WithinCap(u)
      BY <1>1, CapsStay DEF Standing
    <3>2. CASE u = t
      <4>1. inflight'[u] = inflight[u] + 1 /\ inflight[u] \in Nat
        BY <1>2, <1>6, <3>2 DEF TakeSlot
      <4>2. CapOf(u) > 0 => inflight[u] < CapOf(u)
        BY <1>2, <1>3, <1>6, <3>2 DEF Busy
      <4> QED BY <1>3, <3>1, <3>2, <4>1, <4>2 DEF WithinCap
    <3>3. CASE u # t
      <4>1. inflight'[u] = inflight[u]
        BY <1>2, <1>6, <3>3 DEF TakeSlot
      <4> QED BY <3>1, <4>1 DEF WithinCap
    <3> QED BY <3>2, <3>3
  <2> QED BY <1>1, <2>4, <2>5 DEF Standing
<1> QED BY <1>2, <1>4, <1>5, <1>6 DEF Admit

\* A running job moves on at the address it has.
LEMMA RunnerStands ==
    ASSUME SlotsInv, Standing, NEW j \in JobIds, stage(j) \in Running, NEW st \in Running,
           NEW at, st = "polling" => at = job[j].addr,
           Updated(job', job, j, st, job[j].target, job[j].addr, at),
           UNCHANGED <<assigned, inflight>>
    PROVE  Standing'
<1>1. Stands(j) /\ stage(j) # "unused"
  BY UnusedFacts DEF Standing
<1>2. /\ job[j].ep \in Endpoints /\ job[j].addr = assigned[job[j].ep]
      /\ CapOf(job[j].addr) > 0 => job[j].target = job[j].addr
  BY <1>1 DEF Stands
<1>3. \A i \in JobIds : Stands(i)'
  BY <1>2, StandsMoved
<1>4. \A t \in Targets : inflight'[t] \in Nat /\ inflight'[t] <= inflight[t]
  BY DEF SlotsInv, TypeOK
<1> QED BY <1>3, <1>4, CapsKept DEF Standing

\* markDone: the job waits for its next slot, or is gone.
LEMMA MarkDoneStands ==
    ASSUME SlotsInv, Standing, NEW j \in JobIds, stage(j) \in Running, MarkDone(j),
           UNCHANGED assigned
    PROVE  Standing'
<1> DEFINE v == [job[j] EXCEPT !.stage = "idle", !.target = None, !.host = None, !.at = None]
           kept == j \in Registered(job[j].wheel)
<1>1. job \in Jobs /\ job[j] \in Job
  BY DEF SlotsInv, TypeOK, Jobs
<1>2. v.stage = "idle" /\ v.ep = job[j].ep /\ v.addr = job[j].addr
  BY <1>1 DEF Job
<1>3. job' = [job EXCEPT ![j] = IF kept THEN v ELSE Unused] /\ UNCHANGED inflight
  BY DEF MarkDone
<1> HIDE DEF v, kept
<1>4. \A i \in JobIds : Stands(i)'
  <2> SUFFICES ASSUME NEW i \in JobIds PROVE Stands(i)'
    OBVIOUS
  <2>1. CASE i # j
    <3>1. Stands(i) /\ job'[i] = job[i]
      BY <1>1, <1>3, <2>1 DEF Standing, Jobs
    <3> QED BY <3>1 DEF Stands, stage, CapOf, At
  <2>2. CASE i = j
    <3>1. job[j].ep \in Endpoints /\ job[j].addr = assigned[job[j].ep]
      BY UnusedFacts DEF Standing, Stands
    <3>2. job'[i] = IF kept THEN v ELSE Unused
      BY <1>1, <1>3, <2>2 DEF Jobs
    <3> QED BY <1>2, <3>1, <3>2, UnusedFacts DEF Stands, stage
  <2> QED BY <2>1, <2>2
<1>5. \A t \in Targets : inflight'[t] \in Nat /\ inflight'[t] <= inflight[t]
  BY <1>3 DEF SlotsInv, TypeOK
<1> QED BY <1>4, <1>5, CapsKept DEF Standing

LEMMA WorkStands ==
    ASSUME SlotsInv, Standing, NEW w \in Wheels, NEW j \in JobIds, Work(w, j)
    PROVE  Standing'
<1>0. job \in Jobs /\ job[j].addr \in Targets \cup {None}
  BY DEF SlotsInv, TypeOK, Jobs, Job
<1>1. CASE Enqueue(w, j)
  <2>1. stage(j) \in Running /\ UNCHANGED assigned
    BY <1>1 DEF Enqueue, Running
  <2>2. CASE MarkDone(j)
    BY <2>1, <2>2, MarkDoneStands
  <2>3. CASE job' = [job EXCEPT ![j].stage = "queued"] /\ UNCHANGED limiterVars
    <3>1. Updated(job', job, j, "queued", job[j].target, job[j].addr, job[j].at)
      BY <1>0, <2>3, StageSet DEF Stages, Running
    <3> QED BY <2>1, <2>3, <3>1, RunnerStands DEF Running, limiterVars
  <2> QED BY <1>1, <2>2, <2>3 DEF Enqueue
<1>2. CASE AcquireHost(w, j)
  <2>1. Updated(job', job, j, "holding", job[j].target, job[j].addr, job[j].at)
    BY <1>0, <1>2, StageSet DEF AcquireHost, Stages, Running
  <2> QED BY <1>2, <2>1, RunnerStands DEF AcquireHost, Running, limiterVars
<1>3. CASE Poll(w, j)
  <2>1. Updated(job', job, j, "polling", job[j].target, job[j].addr, job[j].addr)
    BY <1>0, <1>3, AtSet DEF Poll, Stages, Running
  <2> QED BY <1>3, <2>1, RunnerStands DEF Poll, Running, limiterVars
<1>4. CASE Finish(w, j)
  <2>1. Updated(job', job, j, "ended", job[j].target, job[j].addr, job[j].at)
    BY <1>0, <1>4, StageSet DEF Finish, Stages, Running
  <2> QED BY <1>4, <2>1, RunnerStands DEF Finish, Running, limiterVars
<1>5. CASE Return(w, j)
  <2>1. stage(j) \in Running /\ MarkDone(j) /\ UNCHANGED assigned
    BY <1>5 DEF Return, Running
  <2> QED BY <2>1, MarkDoneStands
<1> QED BY <1>1, <1>2, <1>3, <1>4, <1>5 DEF Work

LEMMA DequeueStands ==
    ASSUME SlotsInv, Standing, NEW w \in Wheels, Dequeue(w)
    PROVE  Standing'
<1> DEFINE d == queue[w]
           j == Head(d)
<1>1. /\ job' = [job EXCEPT ![j].stage = "dequeued", ![j].host = job[j].addr]
      /\ UNCHANGED <<assigned, inflight>> /\ d # <<>>
      /\ job \in Jobs /\ d \in Seq(JobIds) /\ Distinct(d)
  BY DEF Dequeue, limiterVars, SlotsInv, TypeOK, Jobs, QueuedOnce
<1>2. j \in JobIds /\ 1 \in DOMAIN d /\ j = d[1]
  <2> HIDE DEF d
  <2> QED BY <1>1, TailFacts
<1>3. job[j].stage = "queued"
  BY <1>2 DEF SlotsInv, QueuedOnce, stage
<1> HIDE DEF j
<1>4. job[j].addr \in Targets /\ stage(j) \in Running
  BY <1>2, <1>3 DEF SlotsInv, Addressed, stage, Running
<1>5. Updated(job', job, j, "dequeued", job[j].target, job[j].addr, job[j].at)
  BY <1>1, <1>2, <1>4, HostSet DEF Stages, Running
<1> QED BY <1>1, <1>2, <1>4, <1>5, RunnerStands DEF Running

LEMMA LimitsInitially == Init => LimitInv
<1> SUFFICES ASSUME Init PROVE Standing
  BY SlotsInitially DEF LimitInv
<1>1. \A i \in JobIds : Stands(i)
  BY UnusedFacts DEF Init, Stands, stage, Running
<1>2. \A t \in Targets : WithinCap(t)
  <2> SUFFICES ASSUME NEW t \in Targets PROVE CapOf(t) > 0 => inflight[t] <= CapOf(t)
    BY DEF WithinCap
  <2>1. inflight[t] = 0 /\ CapOf(t) \in Nat
    BY CapType DEF Init
  <2> QED BY <2>1
<1> QED BY <1>1, <1>2 DEF Standing, Init

LEMMA LimitsKept == LimitInv /\ [Next]_vars => LimitInv'
<1> SUFFICES ASSUME LimitInv, [Next]_vars, changes' = 0 PROVE Standing'
  BY SlotsKept DEF LimitInv
<1>0. SlotsInv /\ changes \in Nat /\ job \in Jobs
  BY SchedulerAssumption DEF LimitInv, SlotsInv, TypeOK, Jobs
<1>1. ASSUME NEW e \in Endpoints, NEW a \in Targets \cup {None}, Refresh(e, a)
      PROVE  FALSE
  BY <1>0, <1>1 DEF Refresh
<1>s. CASE changes = 0
  <2>0. Standing
    BY <1>s DEF LimitInv
  <2>2. ASSUME NEW w \in Wheels, NEW e \in Endpoints, Apply(w, e) PROVE Standing'
    BY <1>0, <2>0, <2>2, ApplyStands
  <2>3. CASE Second
    <3>1. \A i \in JobIds : job'[i] = [job[i] EXCEPT !.next = Later(job[i].next)]
      BY <2>3 DEF Second
    <3>2. ASSUME NEW i \in JobIds
          PROVE  /\ job'[i].stage = job[i].stage /\ job'[i].ep = job[i].ep
                 /\ job'[i].addr = job[i].addr /\ job'[i].target = job[i].target
                 /\ job'[i].at = job[i].at
      <4>1. job[i] \in Job
        BY <1>0 DEF Jobs
      <4> QED BY <3>1, <4>1 DEF Job
    <3> QED BY <1>0, <2>0, <2>3, <3>2, TimeStands DEF Second
  <2>4. ASSUME NEW w \in Wheels, Dispatch(w) PROVE Standing'
    <3> DEFINE n == Interval * Units
    <3>1. \A i \in JobIds : job'[i] = job[i] \/ job'[i] = [job[i] EXCEPT !.next = n]
      BY <2>4 DEF Dispatch
    <3> HIDE DEF n
    <3>2. ASSUME NEW i \in JobIds
          PROVE  /\ job'[i].stage = job[i].stage /\ job'[i].ep = job[i].ep
                 /\ job'[i].addr = job[i].addr /\ job'[i].target = job[i].target
                 /\ job'[i].at = job[i].at
      <4>1. job[i] \in Job
        BY <1>0 DEF Jobs
      <4> QED BY <3>1, <4>1 DEF Job
    <3> QED BY <1>0, <2>0, <2>4, <3>2, TimeStands DEF Dispatch, limiterVars
  <2>5. ASSUME NEW w \in Wheels, NEW j \in JobIds, Admit(w, j) PROVE Standing'
    BY <1>0, <2>0, <2>5, AdmitStands
  <2>6. ASSUME NEW w \in Wheels, Unlock(w) \/ DispatchEnd(w) PROVE Standing'
    <3>1. UNCHANGED <<assigned, inflight, job>>
      BY <2>6 DEF Unlock, DispatchEnd, limiterVars
    <3> QED BY <1>0, <2>0, <3>1, TimeStands
  <2>7. ASSUME NEW w \in Wheels, Dequeue(w) PROVE Standing'
    BY <1>0, <2>0, <2>7, DequeueStands
  <2>8. ASSUME NEW w \in Wheels, NEW j \in JobIds, Work(w, j) PROVE Standing'
    BY <1>0, <2>0, <2>8, WorkStands
  <2>9. ASSUME NEW t \in Targets, Done(t) PROVE Standing'
    <3>1. /\ UNCHANGED <<assigned, job>>
          /\ inflight' = [inflight EXCEPT ![t] = IF inflight[t] > 0 THEN inflight[t] - 1 ELSE 0]
      BY <2>9 DEF Done
    <3>2. \A u \in Targets : inflight'[u] \in Nat /\ inflight'[u] <= inflight[u]
      BY <1>0, <3>1 DEF SlotsInv, TypeOK
    <3>3. \A i \in JobIds : Stands(i)'
      BY <2>0, <3>1 DEF Standing, Stands, stage, CapOf, At
    <3> QED BY <1>0, <2>0, <3>1, <3>2, <3>3, CapsKept DEF Standing
  <2>10. CASE UNCHANGED vars
    <3>1. UNCHANGED <<assigned, inflight, job>>
      BY <2>10 DEF vars, limiterVars
    <3> QED BY <1>0, <2>0, <3>1, TimeStands
  <2> QED BY <1>1, <2>2, <2>3, <2>4, <2>5, <2>6, <2>7, <2>8, <2>9, <2>10 DEF Next, Wheel
<1>u. CASE changes # 0
  <2>1. [Next]_vars => changes' = changes \/ \E e \in Endpoints, a \in Targets \cup {None} : Refresh(e, a)
    BY DEF Next, Apply, Add, Change, Remove, Second, Wheel, Dispatch, Admit, Unlock,
           DispatchEnd, Dequeue, Work, Enqueue, AcquireHost, Poll, Finish, Return, Done, vars
  <2> QED BY <1>u, <1>1, <2>1
<1> QED BY <1>s, <1>u

\* As long as the assignment stands, no more polls of all wheels together are at
\* a target than the strictest limit of the endpoints there: what is polling
\* there holds a slot of the limiter, and slots are given out below the limit.
THEOREM PollsStayWithinLimit == Spec => []PollsWithinLimit
<1>1. LimitInv => PollsWithinLimit
  <2> SUFFICES ASSUME LimitInv, NEW t \in Targets, changes = 0, CapOf(t) > 0
               PROVE  Cardinality({j \in JobIds : stage(j) = "polling" /\ job[j].at = t})
                        <= CapOf(t)
    BY DEF PollsWithinLimit
  <2> DEFINE P == {j \in JobIds : stage(j) = "polling" /\ job[j].at = t}
             c == Cardinality(Slots(job, t))
             p == Cardinality(P)
  <2>1. P \subseteq Slots(job, t)
    BY DEF LimitInv, Standing, Stands, Slots, Running
  <2>2. p <= c /\ p \in Nat /\ c \in Nat
    <3>1. IsFiniteSet(P)
      BY <2>1, SlotsFinite, FS_Subset
    <3> QED BY <2>1, <3>1, SlotsFinite, FS_Subset, FS_CardinalityType
  <2>3. inflight[t] = c + releasing[t]
    BY DEF LimitInv, SlotsInv, SlotsBalanced, Slots
  <2>4. inflight[t] <= CapOf(t)
    BY DEF LimitInv, Standing, WithinCap
  <2>5. inflight[t] \in Nat /\ releasing[t] \in Nat /\ CapOf(t) \in Nat
    BY CapType DEF LimitInv, SlotsInv, TypeOK
  <2> HIDE DEF c, p
  <2>6. p <= CapOf(t)
    BY <2>2, <2>3, <2>4, <2>5
  <2> QED BY <2>6 DEF p
<1>2. LimitInv /\ [Next]_vars => LimitInv'
  BY LimitsKept
<1> QED BY <1>1, <1>2, LimitsInitially, PTL DEF Spec
=============================================================================
