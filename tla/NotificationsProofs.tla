------------------------ MODULE NotificationsProofs ------------------------
(* Emails leave in the order they were queued, a clear follows what it clears, *)
(* and whoever was told of an alarm is told of its end, for any number of      *)
(* notifiers, alarms, deaths, refusals and prunings, as long as no notifier is *)
(* so slow that its claim is taken for a dead one's.                           *)
EXTENDS Notifications, SequenceTheorems, WellFoundedInduction, TLAPS

Rows == [kind : Kinds, of : Nat, status : Settled \cup {"pending", "sending"},
         due : BOOLEAN, stale : BOOLEAN, attempts : Nat]
Jobs == [pc : {"free", "claimed", "sending", "decided"}, id : Nat,
         verdict : Settled \cup {"send", "retry", None}]

\* Every row older than i is settled.
Cleared(rows, i) == \A e \in 1 .. i - 1 : rows[e].status \in Settled

\* A notifier with a row in hand has the oldest unsettled one, freshly claimed.
Holds(rows, j) ==
    j.pc # "free" =>
        /\ j.id \in 1 .. Len(rows) /\ Cleared(rows, j.id)
        /\ rows[j.id].status = "sending" /\ ~ rows[j.id].stale
Decided(j) == j.pc = "decided" => j.verdict \in Settled \cup {"retry"}
Undelivered(rows, sent) ==
    \A m \in 1 .. Len(sent) : sent[m] \in 1 .. Len(rows) /\ Cleared(rows, sent[m])

Types == outbox \in Seq(Rows) /\ mail \in Seq(Nat) /\ episode \in Nat
         /\ job \in [Workers -> Jobs]
JobsHold == \A w \in Workers : Holds(outbox, job[w]) /\ Decided(job[w])
OneHolds == \A w, x \in Workers : w # x => job[w].pc = "free" \/ job[x].pc = "free"
MailIsCleared == Undelivered(outbox, mail)
OrderInv == Types /\ JobsHold /\ OneHolds /\ MailIsCleared /\ MailInOrder

-----------------------------------------------------------------------------
(* Sequences of rows.                                                         *)

LEMMA Rewritten ==
    ASSUME NEW rows \in Seq(Rows), NEW new \in [1 .. Len(rows) -> Rows]
    PROVE  new \in Seq(Rows) /\ Len(new) = Len(rows)
BY LenProperties

\* What is settled stays settled, and no row goes away.
Progress(old, new) ==
    /\ Len(new) >= Len(old)
    /\ \A i \in 1 .. Len(old) : old[i].status \in Settled => new[i].status \in Settled

\* So what was cleared stays cleared.
LEMMA ClearedStays ==
    ASSUME NEW old \in Seq(Rows), NEW new \in Seq(Rows), Progress(old, new),
           NEW i \in 1 .. Len(old), Cleared(old, i)
    PROVE  i \in 1 .. Len(new) /\ Cleared(new, i)
<1>1. Len(old) \in Nat /\ Len(new) \in Nat /\ Len(new) >= Len(old)
  BY LenProperties DEF Progress
<1>2. \A e \in 1 .. i - 1 : e \in 1 .. Len(old)
  BY <1>1
<1> QED BY <1>1, <1>2 DEF Progress, Cleared

LEMMA MailStays ==
    ASSUME NEW old \in Seq(Rows), NEW new \in Seq(Rows), Progress(old, new),
           NEW sent \in Seq(Nat), Undelivered(old, sent)
    PROVE  Undelivered(new, sent)
BY ClearedStays DEF Undelivered

\* A change of the outbox that leaves the rows in hand alone keeps the invariant.
LEMMA OutboxMoves ==
    ASSUME OrderInv, outbox' \in Seq(Rows), episode' \in Nat, job' = job, mail' = mail,
           Progress(outbox, outbox'),
           \A i \in Ids : outbox[i].status = "sending" /\ (\E w \in Workers : job[w].id = i)
               => outbox'[i].status = "sending" /\ outbox'[i].stale = outbox[i].stale
    PROVE  OrderInv'
<1>0. outbox \in Seq(Rows) /\ mail \in Seq(Nat)
  BY DEF OrderInv, Types
<1>1. ASSUME NEW w \in Workers PROVE Holds(outbox', job[w])
  <2> SUFFICES ASSUME job[w].pc # "free"
               PROVE  /\ job[w].id \in 1 .. Len(outbox') /\ Cleared(outbox', job[w].id)
                      /\ outbox'[job[w].id].status = "sending" /\ ~ outbox'[job[w].id].stale
    BY DEF Holds
  <2>1. /\ job[w].id \in 1 .. Len(outbox) /\ Cleared(outbox, job[w].id)
        /\ outbox[job[w].id].status = "sending" /\ ~ outbox[job[w].id].stale
    BY DEF OrderInv, JobsHold, Holds
  <2>2. job[w].id \in 1 .. Len(outbox') /\ Cleared(outbox', job[w].id)
    BY <1>0, <2>1, ClearedStays
  <2>3. outbox'[job[w].id].status = "sending" /\ outbox'[job[w].id].stale = outbox[job[w].id].stale
    BY <2>1 DEF Ids
  <2> QED BY <2>1, <2>2, <2>3
<1>2. JobsHold'
  BY <1>1 DEF OrderInv, JobsHold
<1>3. OneHolds' /\ MailInOrder'
  BY DEF OrderInv, OneHolds, MailInOrder
<1>4. MailIsCleared'
  BY <1>0, MailStays DEF OrderInv, MailIsCleared
<1>5. Types'
  BY DEF OrderInv, Types
<1> QED BY <1>2, <1>3, <1>4, <1>5 DEF OrderInv

\* A change of the rows one by one that settles or keeps each is progress.
LEMMA RowByRow ==
    ASSUME OrderInv, outbox' \in [1 .. Len(outbox) -> Rows], episode' = episode,
           job' = job, mail' = mail,
           \A i \in Ids : outbox[i].status \in Settled => outbox'[i].status \in Settled,
           \A i \in Ids : outbox[i].status = "sending" /\ (\E w \in Workers : job[w].id = i)
               => outbox'[i].status = "sending" /\ outbox'[i].stale = outbox[i].stale
    PROVE  OrderInv'
<1>1. outbox \in Seq(Rows) /\ episode \in Nat
  BY DEF OrderInv, Types
<1>2. outbox' \in Seq(Rows) /\ Len(outbox') = Len(outbox)
  BY <1>1, Rewritten
<1>3. Progress(outbox, outbox')
  BY <1>1, <1>2, LenProperties DEF Progress, Ids
<1> QED BY <1>1, <1>2, <1>3, OutboxMoves

\* The invariant lets a notifier's rows be read and written.
LEMMA RowFacts ==
    ASSUME OrderInv
    PROVE  /\ outbox \in Seq(Rows) /\ outbox \in [1 .. Len(outbox) -> Rows]
           /\ Len(outbox) \in Nat /\ Ids = 1 .. Len(outbox)
           /\ job \in [Workers -> Jobs] /\ mail \in Seq(Nat) /\ episode \in Nat
BY LenProperties DEF OrderInv, Types, Ids

-----------------------------------------------------------------------------
LEMMA OrderInitially == Init => OrderInv
<1> SUFFICES ASSUME Init PROVE OrderInv
  OBVIOUS
<1>1. outbox = <<>> /\ mail = <<>> /\ episode = 0 /\ \A w \in Workers : job[w] = Free
  BY DEF Init
<1>2. Free \in Jobs /\ Free.pc = "free"
  BY DEF Free, Jobs
<1>3. Types
  <2>1. job \in [Workers -> Jobs]
    BY <1>2 DEF Init
  <2> QED BY <1>1, <1>2, <2>1 DEF Types
<1>4. JobsHold
  BY <1>1, <1>2 DEF JobsHold, Holds, Decided
<1>5. OneHolds /\ MailIsCleared /\ MailInOrder
  BY <1>1, <1>2 DEF OneHolds, MailIsCleared, Undelivered, MailInOrder
<1> QED BY <1>3, <1>4, <1>5 DEF OrderInv

\* Whatever a transaction has queued is pending.
Pending(rows) == rows \in Seq(Rows) /\ \A r \in 1 .. Len(rows) : rows[r].status = "pending"
Staged(t) == t.episode \in Nat /\ Pending(t.queued)

LEMMA ChangesStage == ASSUME NEW t, Staged(t), NEW u \in Changes(t) PROVE Staged(u)
<1>1. PICK kind \in Kinds, admitted \in BOOLEAN : u = Change(t, kind, admitted)
  BY DEF Changes, Kinds
<1> DEFINE send == SendKind(t, kind, admitted)
           of == IF kind = "alarm_raised" THEN t.episode + 1 ELSE t.episode
           row == [kind |-> send, of |-> of, status |-> "pending", stale |-> FALSE,
                   attempts |-> 0, due |-> send # "alarm_raised" \/ ~Delayed]
<1>2. u.episode = of /\ u.queued = Queue(t, row)
  BY <1>1 DEF Change
<1>3. of \in Nat
  BY DEF Staged
<1>4. send = None \/ send \in Kinds
  BY DEF SendKind, Kinds
<1> HIDE DEF send, of
<1>5. row.kind = send /\ row.status = "pending" /\ (row.kind # None => row \in Rows)
  BY <1>3, <1>4 DEF Rows
<1> HIDE DEF row
<1>6. u.queued = t.queued \/ (row \in Rows /\ u.queued = Append(t.queued, row))
  BY <1>2, <1>5 DEF Queue
<1>7. Pending(u.queued)
  <2>1. CASE row \in Rows /\ u.queued = Append(t.queued, row)
    <3>1. t.queued \in Seq(Rows) /\ Len(t.queued) \in Nat
      BY LenProperties DEF Staged, Pending
    <3>2. /\ u.queued \in Seq(Rows) /\ Len(u.queued) = Len(t.queued) + 1
          /\ u.queued[Len(t.queued) + 1] = row
          /\ \A r \in 1 .. Len(t.queued) : u.queued[r] = t.queued[r]
      BY <2>1, <3>1, AppendProperties
    <3>3. \A r \in 1 .. Len(u.queued) : r \in 1 .. Len(t.queued) \/ r = Len(t.queued) + 1
      BY <3>1, <3>2
    <3> QED BY <1>5, <3>2, <3>3 DEF Staged, Pending
  <2> QED BY <1>6, <2>1 DEF Staged
<1> QED BY <1>2, <1>3, <1>7 DEF Staged

LEMMA TransactionsStage == ASSUME OrderInv, NEW t \in Transactions PROVE Staged(t)
<1> DEFINE once == Changes(Begun)
           twice == once \cup Changed(once)
           thrice == twice \cup Changed(twice)
<1>1. Staged(Begun)
  <2>1. Begun.episode = episode /\ Begun.queued = <<>>
    BY DEF Begun
  <2> QED BY <2>1 DEF OrderInv, Types, Staged, Pending
<1>2. \A u \in once : Staged(u)
  BY <1>1, ChangesStage
<1> HIDE DEF once
<1>3. \A u \in twice : Staged(u)
  BY <1>2, ChangesStage DEF Changed
<1> HIDE DEF twice
<1>4. \A u \in thrice : Staged(u)
  BY <1>3, ChangesStage DEF Changed
<1> HIDE DEF thrice
<1>5. \A u \in Changed(thrice) : Staged(u)
  BY <1>4, ChangesStage DEF Changed
<1>6. t \in once \/ t \in twice \/ t \in thrice \/ t \in Changed(thrice)
  BY DEF Transactions, once, twice, thrice
<1> QED BY <1>2, <1>3, <1>4, <1>5, <1>6

\* Queueing rows settles and unsettles nothing.
LEMMA QueuedRows ==
    ASSUME OrderInv, NEW rows, Pending(rows), outbox' = outbox \o rows
    PROVE  /\ outbox' \in Seq(Rows) /\ Len(outbox') \in Nat /\ Len(outbox') >= Len(outbox)
           /\ \A i \in 1 .. Len(outbox) : outbox'[i] = outbox[i]
           /\ \A i \in 1 .. Len(outbox') : i \in 1 .. Len(outbox) \/ outbox'[i].status = "pending"
<1>1. outbox \in Seq(Rows) /\ rows \in Seq(Rows) /\ Len(outbox) \in Nat /\ Len(rows) \in Nat
  BY LenProperties DEF OrderInv, Types, Pending
<1>2. /\ outbox' \in Seq(Rows) /\ Len(outbox') = Len(outbox) + Len(rows)
      /\ \A i \in 1 .. Len(outbox) + Len(rows) :
           outbox'[i] = IF i <= Len(outbox) THEN outbox[i] ELSE rows[i - Len(outbox)]
  BY <1>1, ConcatProperties
<1>3. ASSUME NEW i \in 1 .. Len(outbox'), i \notin 1 .. Len(outbox)
      PROVE  outbox'[i].status = "pending"
  <2>1. i - Len(outbox) \in 1 .. Len(rows) /\ outbox'[i] = rows[i - Len(outbox)]
    BY <1>1, <1>2, <1>3
  <2> QED BY <2>1 DEF Pending
<1> QED BY <1>1, <1>2, <1>3

LEMMA QueuedFacts ==
    ASSUME OrderInv, Alarm
    PROVE  \E rows : /\ Pending(rows) /\ outbox' = outbox \o rows
                     /\ episode' \in Nat /\ job' = job /\ mail' = mail
                     /\ faults' = faults /\ enabled' = enabled
<1>1. PICK t \in Transactions :
        /\ episode' = t.episode /\ outbox' = outbox \o t.queued
        /\ UNCHANGED <<enabled, job, mail, faults>>
  BY DEF Alarm
<1>2. Staged(t)
  BY TransactionsStage
<1> QED BY <1>1, <1>2 DEF Staged

LEMMA AlarmKeeps == ASSUME OrderInv, Alarm PROVE OrderInv'
<1>1. PICK rows : /\ Pending(rows) /\ outbox' = outbox \o rows
                  /\ episode' \in Nat /\ job' = job /\ mail' = mail
  BY QueuedFacts
<1>2. Ids = 1 .. Len(outbox) /\ Len(outbox) \in Nat
  BY RowFacts
<1>3. /\ outbox' \in Seq(Rows) /\ Len(outbox') >= Len(outbox)
      /\ \A i \in Ids : outbox'[i] = outbox[i]
  BY <1>1, <1>2, QueuedRows
<1>4. Progress(outbox, outbox')
  BY <1>2, <1>3 DEF Progress
<1> QED BY <1>1, <1>3, <1>4, OutboxMoves

\* Time and the operators touch no row in hand: without stalls only a row that
\* nobody has goes stale.
LEMMA TimeKeeps ==
    ASSUME "stall" \notin Faults, OrderInv, Time \/ Prune \/ Switch PROVE OrderInv'
<1>0. outbox \in [1 .. Len(outbox) -> Rows] /\ Ids = 1 .. Len(outbox)
  BY RowFacts
<1>1. ASSUME NEW i \in Ids, FallsDue(i) PROVE OrderInv'
  <2>1. outbox' = [outbox EXCEPT ![i].due = TRUE] /\ job' = job /\ mail' = mail
        /\ episode' = episode
    BY <1>1 DEF FallsDue, condition
  <2>2. outbox' \in [1 .. Len(outbox) -> Rows]
    BY <1>0, <2>1 DEF Rows
  <2>3. \A j \in Ids : outbox'[j].status = outbox[j].status
                       /\ outbox'[j].stale = outbox[j].stale
    BY <1>0, <2>1 DEF Rows
  <2> QED BY <2>1, <2>2, <2>3, RowByRow
<1>2. ASSUME NEW i \in Ids, GoesStale(i) PROVE OrderInv'
  <2>1. /\ outbox' = [outbox EXCEPT ![i].stale = TRUE] /\ job' = job /\ mail' = mail
        /\ episode' = episode /\ \A w \in Workers : job[w].id # i
    BY <1>2, "stall" \notin Faults DEF GoesStale, condition
  <2>2. outbox' \in [1 .. Len(outbox) -> Rows]
    BY <1>0, <2>1 DEF Rows
  <2>3. \A j \in Ids : outbox'[j].status = outbox[j].status
                       /\ (j # i => outbox'[j].stale = outbox[j].stale)
    BY <1>0, <2>1 DEF Rows
  <2> QED BY <2>1, <2>2, <2>3, RowByRow
<1>3. CASE Prune
  <2> DEFINE pruned(i) == [outbox[i] EXCEPT !.status = "pruned"]
  <2>1. PICK cutoff \in Ids :
          outbox' = [i \in Ids |-> IF i <= cutoff /\ outbox[i].status \in Settled
                                   THEN pruned(i) ELSE outbox[i]]
    BY <1>3 DEF Prune
  <2>2. job' = job /\ mail' = mail /\ episode' = episode
    BY <1>3 DEF Prune, condition
  <2>3. "pruned" \in Settled
    BY DEF Settled
  <2>4. \A i \in Ids : outbox[i] \in Rows /\ pruned(i) \in Rows /\ pruned(i).status = "pruned"
    BY <1>0, <2>3 DEF Rows
  <2> HIDE DEF pruned
  <2>5. outbox' \in [1 .. Len(outbox) -> Rows]
    BY <1>0, <2>1, <2>4
  <2>6. \A i \in Ids : outbox'[i] = outbox[i] \/ outbox'[i].status = "pruned"
    BY <2>1, <2>4
  <2>7. \A i \in Ids : outbox[i].status = "sending" => outbox'[i] = outbox[i]
    <3>1. "sending" \notin Settled
      BY DEF Settled
    <3> QED BY <2>1, <3>1
  <2> QED BY <2>2, <2>3, <2>5, <2>6, <2>7, RowByRow
<1>4. CASE Switch
  <2>1. outbox' = outbox /\ job' = job /\ mail' = mail /\ episode' = episode
    BY <1>4 DEF Switch
  <2> QED BY <1>0, <2>1, RowByRow
<1> QED BY <1>1, <1>2, <1>3, <1>4 DEF Time

-----------------------------------------------------------------------------
(* The notifiers.                                                             *)

\* What the claim starts from: the rows of dead claims are pending again.
LEMMA ReleasedFacts ==
    ASSUME OrderInv
    PROVE  /\ Released \in [1 .. Len(outbox) -> Rows]
           /\ \A i \in Ids : \/ Released[i] = outbox[i]
                             \/ /\ outbox[i].status = "sending" /\ outbox[i].stale
                                /\ Released[i].status = "pending" /\ ~ Released[i].stale
                                /\ Released[i].kind = outbox[i].kind
<1> DEFINE freed(i) == [outbox[i] EXCEPT !.status = "pending", !.stale = FALSE]
<1>0. outbox \in [1 .. Len(outbox) -> Rows] /\ Ids = 1 .. Len(outbox)
  BY RowFacts
<1>1. \A i \in Ids : /\ outbox[i] \in Rows /\ freed(i) \in Rows
                     /\ freed(i).status = "pending" /\ ~ freed(i).stale
                     /\ freed(i).kind = outbox[i].kind
  BY <1>0 DEF Rows
<1>2. Released = [i \in Ids |-> IF outbox[i].status = "sending" /\ outbox[i].stale
                                THEN freed(i) ELSE outbox[i]]
  BY DEF Released
<1> HIDE DEF freed
<1> QED BY <1>0, <1>1, <1>2

\* A claim takes the oldest unsettled row, and only when nobody has one in hand.
LEMMA ClaimKeeps == ASSUME OrderInv, NEW w \in Workers, Claim(w) PROVE OrderInv'
<1>0. /\ outbox \in Seq(Rows) /\ outbox \in [1 .. Len(outbox) -> Rows]
      /\ Len(outbox) \in Nat /\ Ids = 1 .. Len(outbox)
      /\ job \in [Workers -> Jobs] /\ mail \in Seq(Nat) /\ episode \in Nat
  BY RowFacts
<1>1. PICK i \in Ids :
        /\ Claimable(Released, i)
        /\ outbox' = [Released EXCEPT ![i].status = "sending", ![i].stale = FALSE]
        /\ job' = [job EXCEPT ![w] = [pc |-> "claimed", id |-> i, verdict |-> None]]
  BY DEF Claim
<1>2. mail' = mail /\ episode' = episode
  BY DEF Claim, condition
<1>3. /\ Released \in [1 .. Len(outbox) -> Rows]
      /\ \A j \in Ids : \/ Released[j] = outbox[j]
                        \/ /\ outbox[j].status = "sending" /\ outbox[j].stale
                           /\ Released[j].status = "pending" /\ ~ Released[j].stale
  BY ReleasedFacts
<1>4. Released[i].status = "pending"
      /\ \A e \in 1 .. i - 1 : Released[e].status \notin {"pending", "sending"}
  BY <1>1 DEF Claimable
<1> HIDE DEF Released
<1>5. \A e \in 1 .. i - 1 : e \in Ids /\ outbox[e].status \in Settled
  <2> TAKE e \in 1 .. i - 1
  <2>1. e \in Ids
    BY <1>0
  <2>2. Released[e] \in Rows /\ Released[e].status \in Settled
    BY <1>0, <1>3, <1>4, <2>1 DEF Rows
  <2> QED BY <1>3, <1>4, <2>1, <2>2
<1>6. outbox[i].status \notin Settled
  BY <1>3, <1>4 DEF Settled
<1>7. /\ outbox' \in [1 .. Len(outbox) -> Rows]
      /\ \A j \in Ids : j # i => outbox'[j] = Released[j]
      /\ outbox'[i].status = "sending" /\ ~ outbox'[i].stale
  <2> DEFINE row == [Released[i] EXCEPT !.status = "sending", !.stale = FALSE]
  <2>1. outbox' = [Released EXCEPT ![i] = row]
    BY <1>0, <1>1, <1>3
  <2>2. row \in Rows /\ row.status = "sending" /\ ~ row.stale
    BY <1>0, <1>3 DEF Rows
  <2> HIDE DEF row
  <2> QED BY <1>0, <1>3, <2>1, <2>2
<1>8. outbox' \in Seq(Rows) /\ Len(outbox') = Len(outbox)
  BY <1>0, <1>7, Rewritten
<1>9. ASSUME NEW x \in Workers PROVE job[x].pc = "free"
  <2> SUFFICES ASSUME job[x].pc # "free" PROVE FALSE
    OBVIOUS
  <2>1. /\ job[x].id \in Ids /\ Cleared(outbox, job[x].id)
        /\ outbox[job[x].id].status = "sending" /\ ~ outbox[job[x].id].stale
    BY <1>0 DEF OrderInv, JobsHold, Holds
  <2>2. Released[job[x].id].status = "sending"
    BY <1>3, <2>1
  <2>3. job[x].id > i
    BY <1>0, <1>4, <2>1, <2>2
  <2> QED BY <1>0, <1>6, <2>1, <2>3 DEF Cleared
<1>10. job'[w].pc = "claimed" /\ job'[w].id = i
       /\ \A x \in Workers : x # w => job'[x].pc = "free"
  BY <1>0, <1>1, <1>9
<1>11. Types'
  <2>1. [pc |-> "claimed", id |-> i, verdict |-> None] \in Jobs
    BY <1>0 DEF Jobs
  <2>2. job' \in [Workers -> Jobs]
    BY <1>0, <1>1, <2>1
  <2> QED BY <1>0, <1>2, <1>8, <2>2 DEF Types
<1>12. Progress(outbox, outbox')
  BY <1>0, <1>3, <1>6, <1>7, <1>8 DEF Progress, Settled
<1>13. JobsHold'
  <2>1. Cleared(outbox', i)
    BY <1>0, <1>5, <1>12 DEF Progress, Cleared
  <2>2. Holds(outbox', job'[w])
    BY <1>0, <1>7, <1>8, <1>10, <2>1 DEF Holds
  <2> QED BY <1>10, <2>2 DEF JobsHold, Holds, Decided
<1>14. OneHolds'
  BY <1>10 DEF OneHolds
<1>15. MailIsCleared' /\ MailInOrder'
  BY <1>0, <1>2, <1>8, <1>12, MailStays DEF OrderInv, MailIsCleared, MailInOrder
<1> QED BY <1>11, <1>13, <1>14, <1>15 DEF OrderInv

\* A notifier that reaches no row and no mail changes only what it has in hand.
LEMMA JobMoves ==
    ASSUME OrderInv, NEW w \in Workers, NEW j \in Jobs, job' = [job EXCEPT ![w] = j],
           outbox' = outbox, mail' = mail, episode' = episode, Decided(j),
           j.pc # "free" => job[w].pc # "free" /\ j.id = job[w].id
    PROVE  OrderInv'
<1>0. job \in [Workers -> Jobs]
  BY RowFacts
<1>1. job'[w] = j /\ \A x \in Workers : x # w => job'[x] = job[x]
  BY <1>0
<1>2. Types'
  BY <1>0 DEF OrderInv, Types
<1>3. Holds(outbox, j)
  BY DEF OrderInv, JobsHold, Holds
<1>4. JobsHold'
  BY <1>1, <1>3 DEF OrderInv, JobsHold
<1>5. OneHolds'
  BY <1>1 DEF OrderInv, OneHolds
<1>6. MailIsCleared' /\ MailInOrder'
  BY DEF OrderInv, MailIsCleared, MailInOrder
<1> QED BY <1>2, <1>4, <1>5, <1>6 DEF OrderInv

LEMMA DecideKeeps == ASSUME OrderInv, NEW w \in Workers, Decide(w) PROVE OrderInv'
<1>0. job \in [Workers -> Jobs] /\ job[w].pc = "claimed"
  BY RowFacts DEF Decide
<1>1. outbox' = outbox /\ mail' = mail /\ episode' = episode
  BY DEF Decide, condition
<1>2. PICK overLimit \in BOOLEAN, off \in {"failed", "skipped"} :
        job' = [job EXCEPT ![w].verdict = Verdict(job[w].id, overLimit, off),
                           ![w].pc = IF Verdict(job[w].id, overLimit, off) = "send"
                                     THEN "sending" ELSE "decided"]
  BY DEF Decide
<1> DEFINE v == Verdict(job[w].id, overLimit, off)
           j == [job[w] EXCEPT !.verdict = v, !.pc = IF v = "send" THEN "sending" ELSE "decided"]
<1>3. v \in {"failed", "skipped", "suppressed", "send"}
  BY DEF Verdict
<1>4. job' = [job EXCEPT ![w] = j]
  BY <1>0, <1>2
<1> HIDE DEF v
<1>5. job[w] \in Jobs
  BY <1>0
<1>6. j \in Jobs /\ j.id = job[w].id /\ j.verdict = v
      /\ j.pc = IF v = "send" THEN "sending" ELSE "decided"
  BY <1>3, <1>5 DEF Jobs, Settled
<1>7. Decided(j)
  BY <1>3, <1>6 DEF Decided, Settled
<1> HIDE DEF j
<1> QED BY <1>0, <1>1, <1>4, <1>6, <1>7, JobMoves

LEMMA RefuseKeeps == ASSUME OrderInv, NEW w \in Workers, Refuse(w) PROVE OrderInv'
<1> DEFINE j == [job[w] EXCEPT !.verdict = "failed", !.pc = "decided"]
<1>0. job \in [Workers -> Jobs] /\ job[w].pc = "sending"
  BY RowFacts DEF Refuse
<1>1. outbox' = outbox /\ mail' = mail /\ episode' = episode
  BY DEF Refuse, condition
<1>2. job' = [job EXCEPT ![w] = j]
  BY <1>0 DEF Refuse
<1>3. job[w] \in Jobs
  BY <1>0
<1>4. j \in Jobs /\ j.id = job[w].id /\ j.verdict = "failed" /\ j.pc = "decided"
  BY <1>3 DEF Jobs, Settled
<1>5. Decided(j)
  BY <1>4 DEF Decided, Settled
<1> HIDE DEF j
<1> QED BY <1>0, <1>1, <1>2, <1>4, <1>5, JobMoves

LEMMA DieKeeps == ASSUME OrderInv, NEW w \in Workers, Die(w) PROVE OrderInv'
<1>1. Free \in Jobs /\ Free.pc = "free" /\ Decided(Free)
  BY DEF Free, Jobs, Decided
<1>2. job' = [job EXCEPT ![w] = Free] /\ outbox' = outbox /\ mail' = mail
      /\ episode' = episode
  BY DEF Die, condition
<1> QED BY <1>1, <1>2, JobMoves

\* The row sent is the oldest unsettled one, and whatever was sent before is not
\* younger: all before that was settled by then.
LEMMA SendKeeps == ASSUME OrderInv, NEW w \in Workers, Send(w) PROVE OrderInv'
<1>0. /\ job \in [Workers -> Jobs] /\ job[w].pc = "sending" /\ mail \in Seq(Nat)
      /\ Len(outbox) \in Nat /\ Ids = 1 .. Len(outbox)
  BY RowFacts DEF Send
<1>1. outbox' = outbox /\ episode' = episode
  BY DEF Send, condition
<1>2. PICK result \in {"sent", "retry"} :
        /\ job' = [job EXCEPT ![w].verdict = result, ![w].pc = "decided"]
        /\ mail' = IF result = "sent" THEN Append(mail, job[w].id) ELSE mail
  BY DEF Send
<1> DEFINE j == [job[w] EXCEPT !.verdict = result, !.pc = "decided"]
           i == job[w].id
<1>3. job' = [job EXCEPT ![w] = j]
  BY <1>0, <1>2
<1>4. job[w] \in Jobs
  BY <1>0
<1>5. j \in Jobs /\ j.id = i /\ j.verdict = result /\ j.pc = "decided"
  BY <1>2, <1>4 DEF Jobs, Settled
<1>6. Decided(j)
  BY <1>2, <1>5 DEF Decided, Settled
<1> HIDE DEF j
<1>7. CASE mail' = mail
  BY <1>0, <1>1, <1>3, <1>5, <1>6, <1>7, JobMoves
<1>8. CASE mail' = Append(mail, i)
  <2>1. i \in 1 .. Len(outbox) /\ Cleared(outbox, i) /\ outbox[i].status = "sending"
    BY <1>0 DEF OrderInv, JobsHold, Holds
  <2>2. /\ Len(mail') = Len(mail) + 1 /\ Len(mail) \in Nat /\ mail' \in Seq(Nat)
        /\ mail'[Len(mail) + 1] = i /\ \A m \in 1 .. Len(mail) : mail'[m] = mail[m]
    BY <1>0, <1>8, <2>1, AppendProperties, LenProperties
  <2>3. \A m \in 1 .. Len(mail) : mail[m] \in 1 .. Len(outbox) /\ mail[m] <= i
    <3> TAKE m \in 1 .. Len(mail)
    <3>1. mail[m] \in 1 .. Len(outbox) /\ Cleared(outbox, mail[m])
      BY DEF OrderInv, MailIsCleared, Undelivered
    <3>2. outbox[i].status \notin Settled
      BY <2>1 DEF Settled
    <3>3. ~ (i \in 1 .. mail[m] - 1)
      BY <3>1, <3>2 DEF Cleared
    <3> QED BY <1>0, <2>1, <3>1, <3>3
  <2>4. MailInOrder'
    <3> SUFFICES ASSUME NEW m \in 1 .. Len(mail') - 1
                 PROVE  mail'[m] <= mail'[m + 1]
      BY DEF MailInOrder
    <3>1. CASE m = Len(mail)
      BY <2>2, <2>3, <3>1
    <3>2. CASE m # Len(mail)
      <4>1. m \in 1 .. Len(mail) - 1 /\ m \in 1 .. Len(mail) /\ m + 1 \in 1 .. Len(mail)
        BY <2>2, <3>2
      <4>2. mail[m] <= mail[m + 1]
        BY <4>1 DEF OrderInv, MailInOrder
      <4> QED BY <2>2, <4>1, <4>2
    <3> QED BY <3>1, <3>2
  <2>5. MailIsCleared'
    <3> SUFFICES ASSUME NEW m \in 1 .. Len(mail')
                 PROVE  mail'[m] \in 1 .. Len(outbox) /\ Cleared(outbox, mail'[m])
      BY <1>1 DEF MailIsCleared, Undelivered
    <3>1. CASE m \in 1 .. Len(mail)
      BY <2>2, <3>1 DEF OrderInv, MailIsCleared, Undelivered
    <3>2. CASE m = Len(mail) + 1
      BY <2>1, <2>2, <3>2
    <3> QED BY <2>2, <3>1, <3>2
  <2>6. job'[w] = j /\ \A x \in Workers : x # w => job'[x] = job[x]
    BY <1>0, <1>3
  <2>7. Holds(outbox, j)
    BY <1>0, <1>5 DEF OrderInv, JobsHold, Holds
  <2>8. JobsHold'
    BY <1>1, <1>6, <2>6, <2>7 DEF OrderInv, JobsHold
  <2>9. OneHolds'
    BY <1>0, <2>6 DEF OrderInv, OneHolds
  <2>10. Types'
    BY <1>0, <1>1, <1>3, <1>5, <2>2 DEF OrderInv, Types
  <2> QED BY <2>4, <2>5, <2>8, <2>9, <2>10 DEF OrderInv
<1> QED BY <1>2, <1>7, <1>8

\* The one who writes a row's outcome is the only one who has a row in hand.
LEMMA RecordKeeps == ASSUME OrderInv, NEW w \in Workers, Record(w) PROVE OrderInv'
<1> DEFINE i == job[w].id
           retried == [outbox[i] EXCEPT !.status = "pending",
                          !.attempts = outbox[i].attempts + 1, !.due = FALSE, !.stale = FALSE]
           settled == [outbox[i] EXCEPT !.status = job[w].verdict, !.stale = FALSE]
           row == IF job[w].verdict = "retry" THEN retried ELSE settled
<1>0. /\ outbox \in Seq(Rows) /\ outbox \in [1 .. Len(outbox) -> Rows]
      /\ Len(outbox) \in Nat /\ Ids = 1 .. Len(outbox)
      /\ job \in [Workers -> Jobs] /\ mail \in Seq(Nat) /\ episode \in Nat
      /\ job[w].pc = "decided"
  BY RowFacts DEF Record
<1>1. /\ i \in 1 .. Len(outbox) /\ Cleared(outbox, i) /\ outbox[i].status = "sending"
      /\ job[w].verdict \in Settled \cup {"retry"}
  BY <1>0 DEF OrderInv, JobsHold, Holds, Decided
<1>2. outbox' = [outbox EXCEPT ![i] = row]
  BY <1>0, <1>1 DEF Record
<1>3. job' = [job EXCEPT ![w] = Free] /\ mail' = mail /\ episode' = episode
  BY DEF Record, condition
<1>4. retried \in Rows
  <2>1. outbox[i] \in Rows
    BY <1>0, <1>1
  <2>2. outbox[i].attempts + 1 \in Nat
    BY <2>1 DEF Rows
  <2> QED BY <2>1, <2>2 DEF Rows
<1>5. job[w].verdict # "retry" => settled \in Rows
  BY <1>0, <1>1 DEF Rows
<1>6. row \in Rows
  BY <1>4, <1>5
<1> HIDE DEF row, retried, settled
<1>7. outbox' \in [1 .. Len(outbox) -> Rows] /\ \A e \in Ids : e # i => outbox'[e] = outbox[e]
  BY <1>0, <1>2, <1>6
<1>8. outbox' \in Seq(Rows) /\ Len(outbox') = Len(outbox)
  BY <1>0, <1>7, Rewritten
<1>9. Progress(outbox, outbox')
  <2>1. outbox[i].status \notin Settled
    BY <1>1 DEF Settled
  <2> QED BY <1>0, <1>7, <1>8, <2>1 DEF Progress
<1>10. \A x \in Workers : job'[x].pc = "free"
  <2>1. Free.pc = "free"
    BY DEF Free
  <2> QED BY <1>0, <1>3, <2>1 DEF OrderInv, OneHolds
<1>11. Types'
  <2>1. Free \in Jobs
    BY DEF Free, Jobs
  <2> QED BY <1>0, <1>3, <1>8, <2>1 DEF Types
<1>12. JobsHold' /\ OneHolds'
  BY <1>10 DEF JobsHold, Holds, Decided, OneHolds
<1>13. MailIsCleared' /\ MailInOrder'
  BY <1>0, <1>3, <1>8, <1>9, MailStays DEF OrderInv, MailIsCleared, MailInOrder
<1> QED BY <1>11, <1>12, <1>13 DEF OrderInv

-----------------------------------------------------------------------------
LEMMA OrderKept == ASSUME "stall" \notin Faults, OrderInv, [Next]_vars PROVE OrderInv'
<1>1. CASE Alarm
  BY <1>1, AlarmKeeps
<1>2. CASE Time \/ Prune \/ Switch
  BY <1>2, TimeKeeps
<1>3. ASSUME NEW w \in Workers, Run(w) \/ Refuse(w) \/ Die(w) PROVE OrderInv'
  BY <1>3, ClaimKeeps, DecideKeeps, SendKeeps, RecordKeeps, RefuseKeeps, DieKeeps DEF Run
<1>4. CASE UNCHANGED vars
  <2>1. /\ outbox' = outbox /\ job' = job /\ mail' = mail /\ episode' = episode
    BY <1>4 DEF vars
  <2> QED BY <2>1 DEF OrderInv, Types, JobsHold, OneHolds, MailIsCleared, MailInOrder
<1> QED BY <1>1, <1>2, <1>3, <1>4 DEF Next

\* Emails leave in the order they were queued - a clear never overtakes its
\* raise - whatever notifiers die and however many there are, as long as a claim
\* outlives the work on it (STALE_CLAIM_S).
THEOREM MailLeavesInOrder ==
    ASSUME "stall" \notin Faults PROVE Spec => []MailInOrder
<1>1. Init => OrderInv
  BY OrderInitially
<1>2. OrderInv /\ [Next]_vars => OrderInv'
  BY OrderKept
<1>3. OrderInv => MailInOrder
  BY DEF OrderInv
<1> QED BY <1>1, <1>2, <1>3, PTL DEF Spec

-----------------------------------------------------------------------------
(* What the emails tell: clears of what started, and starts that are cleared.  *)

Clear(rows, i) == rows[i].kind = "alarm_cleared"
Told(sent, i) == \E m \in 1 .. Len(sent) : sent[m] = i
\* An email of a start went out, after the last clear queued before row i.
Started(rows, sent, i) ==
    \E n \in 1 .. i - 1 : Told(sent, n) /\ \A c \in n .. i - 1 : ~Clear(rows, c)

Sorted == \A l, m \in 1 .. Len(mail) : l <= m => mail[l] <= mail[m]
\* Rows are settled, and pruned, from the oldest on.
OldestFirst ==
    \A i \in Ids : /\ outbox[i].status \in Settled => Cleared(outbox, i)
                   /\ outbox[i].status = "pruned" =>
                        \A e \in 1 .. i - 1 : outbox[e].status = "pruned"
\* What counts as sent was sent, and a clear is sent of what started.
SentIsTold == \A i \in Ids : outbox[i].status = "sent" => Told(mail, i)
JobsTell ==
    \A w \in Workers :
        /\ job[w].pc = "decided" => job[w].verdict # "pruned"
        /\ job[w].pc = "decided" /\ job[w].verdict = "sent" => Told(mail, job[w].id)
        /\ job[w].pc = "sending" /\ Clear(outbox, job[w].id) => Started(outbox, mail, job[w].id)
ClearsFollow ==
    \A m \in 1 .. Len(mail) : Clear(outbox, mail[m]) => Started(outbox, mail, mail[m])
StoryInv == Sorted /\ OldestFirst /\ SentIsTold /\ JobsTell /\ ClearsFollow

\* Without faults every condition that is over has its clear in the queue, and
\* only clears of what nobody was told are left out.
InHand(i) == \E w \in Workers : job[w].pc = "decided" /\ job[w].id = i /\ job[w].verdict = "sent"
Standing == enabled /\ (open => active) /\ (open \/ Len(outbox) = 0 \/ Clear(outbox, Len(outbox)))
ToldIsSent == \A i \in Ids : Told(mail, i) => outbox[i].status = "sent" \/ InHand(i)
ClearsDone ==
    \A i \in Ids : Clear(outbox, i) /\ outbox[i].status \in Settled =>
        outbox[i].status = "sent" \/ ~Started(outbox, mail, i)
VerdictsDue ==
    \A w \in Workers : job[w].pc = "decided" /\ Clear(outbox, job[w].id) =>
        job[w].verdict \in {"sent", "retry"} \/ ~Started(outbox, mail, job[w].id)
FaultFree == Standing /\ ToldIsSent /\ ClearsDone /\ VerdictsDue
BeliefInv == faults \in Nat /\ (faults = 0 => FaultFree)

\* The outbox grows, and no row changes what it is about.
Grows(old, new) ==
    /\ Len(old) \in Nat /\ Len(new) \in Nat /\ Len(new) >= Len(old)
    /\ \A i \in 1 .. Len(old) : new[i].kind = old[i].kind

LEMMA StartedStays ==
    ASSUME NEW old, NEW new, Grows(old, new), NEW sent, NEW sent2, NEW i \in 1 .. Len(old),
           \A n \in 1 .. i - 1 : Told(sent, n) => Told(sent2, n)
    PROVE  Started(old, sent, i) => Started(new, sent2, i)
<1> SUFFICES ASSUME Started(old, sent, i) PROVE Started(new, sent2, i)
  OBVIOUS
<1>1. PICK n \in 1 .. i - 1 : Told(sent, n) /\ \A c \in n .. i - 1 : ~Clear(old, c)
  BY DEF Started
<1>2. \A c \in n .. i - 1 : c \in 1 .. Len(old)
  BY DEF Grows
<1>3. \A c \in n .. i - 1 : ~Clear(new, c)
  BY <1>1, <1>2 DEF Grows, Clear
<1> QED BY <1>1, <1>3 DEF Started

\* As long as no email leaves, nothing starts that had not.
LEMMA StartedBack ==
    ASSUME NEW old, NEW new, Grows(old, new), NEW sent, NEW i \in 1 .. Len(old)
    PROVE  Started(new, sent, i) => Started(old, sent, i)
<1> SUFFICES ASSUME Started(new, sent, i) PROVE Started(old, sent, i)
  OBVIOUS
<1>1. PICK n \in 1 .. i - 1 : Told(sent, n) /\ \A c \in n .. i - 1 : ~Clear(new, c)
  BY DEF Started
<1>2. \A c \in n .. i - 1 : c \in 1 .. Len(old)
  BY DEF Grows
<1>3. \A c \in n .. i - 1 : ~Clear(old, c)
  BY <1>1, <1>2 DEF Grows, Clear
<1> QED BY <1>1, <1>3 DEF Started

\* The mail tells the same story as long as none leaves.
LEMMA MailRests ==
    ASSUME OrderInv, StoryInv, mail' = mail, Grows(outbox, outbox')
    PROVE  Sorted' /\ ClearsFollow'
<1>1. \A m \in 1 .. Len(mail) : mail[m] \in 1 .. Len(outbox)
  BY DEF OrderInv, MailIsCleared, Undelivered
<1>2. ASSUME NEW m \in 1 .. Len(mail), Clear(outbox', mail[m])
      PROVE  Started(outbox', mail, mail[m])
  <2>1. Clear(outbox, mail[m])
    BY <1>1, <1>2 DEF Grows, Clear
  <2>2. Started(outbox, mail, mail[m])
    BY <2>1 DEF StoryInv, ClearsFollow
  <2> QED BY <1>1, <2>2, StartedStays
<1> QED BY <1>2 DEF StoryInv, Sorted, ClearsFollow

\* Rows that are not settled change as they like, and settled ones stay.
LEMMA NothingSettles ==
    ASSUME OrderInv, StoryInv, mail' = mail, Grows(outbox, outbox'),
           \A i \in Ids : outbox[i].status \in Settled => outbox'[i].status = outbox[i].status,
           \A i \in 1 .. Len(outbox') :
               outbox'[i].status \in Settled => i \in Ids /\ outbox[i].status \in Settled
    PROVE  OldestFirst' /\ SentIsTold'
<1>1. Ids = 1 .. Len(outbox) /\ Ids' = 1 .. Len(outbox') /\ Len(outbox) \in Nat
  BY DEF Ids, Grows
<1>2. {"sent", "pruned"} \subseteq Settled
  BY DEF Settled
<1>3. ASSUME NEW i \in Ids', outbox'[i].status \in Settled
      PROVE  /\ Cleared(outbox', i)
             /\ outbox'[i].status = "pruned" =>
                  \A e \in 1 .. i - 1 : outbox'[e].status = "pruned"
             /\ outbox'[i].status = "sent" => Told(mail, i)
  <2>1. i \in Ids /\ outbox'[i].status = outbox[i].status
    BY <1>1, <1>3
  <2>2. \A e \in 1 .. i - 1 : e \in Ids /\ outbox[e].status \in Settled
    <3>1. Cleared(outbox, i)
      BY <1>3, <2>1 DEF StoryInv, OldestFirst
    <3>2. \A e \in 1 .. i - 1 : e \in Ids
      BY <1>1, <2>1
    <3> QED BY <3>1, <3>2 DEF Cleared
  <2> QED BY <1>3, <2>1, <2>2 DEF StoryInv, OldestFirst, SentIsTold, Cleared
<1> QED BY <1>2, <1>3 DEF OldestFirst, SentIsTold

\* Nobody's hands change.
LEMMA JobsRest ==
    ASSUME OrderInv, StoryInv, job' = job, mail' = mail, Grows(outbox, outbox')
    PROVE  JobsTell'
<1> SUFFICES ASSUME NEW w \in Workers, job[w].pc = "sending", Clear(outbox', job[w].id)
             PROVE  Started(outbox', mail, job[w].id)
  BY DEF StoryInv, JobsTell
<1>1. job[w].id \in 1 .. Len(outbox)
  BY DEF OrderInv, JobsHold, Holds
<1>2. Clear(outbox, job[w].id)
  BY <1>1 DEF Grows, Clear
<1>3. Started(outbox, mail, job[w].id)
  BY <1>2 DEF StoryInv, JobsTell
<1> QED BY <1>1, <1>3, StartedStays

LEMMA StoryAlarm == ASSUME OrderInv, StoryInv, Alarm PROVE StoryInv'
<1>1. PICK rows : /\ Pending(rows) /\ outbox' = outbox \o rows /\ job' = job /\ mail' = mail
  BY QueuedFacts
<1>2. outbox \in Seq(Rows) /\ Len(outbox) \in Nat /\ Ids = 1 .. Len(outbox)
  BY RowFacts
<1>3. /\ Grows(outbox, outbox') /\ \A i \in Ids : outbox'[i] = outbox[i]
      /\ \A i \in 1 .. Len(outbox') : i \in Ids \/ outbox'[i].status = "pending"
  BY <1>1, <1>2, QueuedRows DEF Grows
<1>4. "pending" \notin Settled
  BY DEF Settled
<1> QED BY <1>1, <1>3, <1>4, MailRests, NothingSettles, JobsRest DEF StoryInv

\* Rows that keep their kind and their status, in hands that do not change.
LEMMA StoryStays ==
    ASSUME OrderInv, StoryInv, outbox' \in [1 .. Len(outbox) -> Rows],
           job' = job, mail' = mail,
           \A i \in Ids : outbox'[i].kind = outbox[i].kind /\ outbox'[i].status = outbox[i].status
    PROVE  StoryInv'
<1>1. outbox \in Seq(Rows) /\ Len(outbox) \in Nat /\ Ids = 1 .. Len(outbox)
  BY RowFacts
<1>2. Len(outbox') = Len(outbox)
  BY <1>1, Rewritten
<1>3. Grows(outbox, outbox')
  BY <1>1, <1>2 DEF Grows
<1> QED BY <1>1, <1>2, <1>3, MailRests, NothingSettles, JobsRest DEF StoryInv

\* The three kinds of change that time and operators make.
LEMMA TimeFacts ==
    ASSUME OrderInv, Time \/ Switch
    PROVE  /\ outbox' \in [1 .. Len(outbox) -> Rows] /\ job' = job /\ mail' = mail
           /\ \A i \in Ids : /\ outbox'[i].kind = outbox[i].kind
                             /\ outbox'[i].status = outbox[i].status
<1>0. outbox \in [1 .. Len(outbox) -> Rows] /\ Ids = 1 .. Len(outbox)
  BY RowFacts
<1>1. ASSUME NEW i \in Ids, FallsDue(i) \/ GoesStale(i)
      PROVE  /\ outbox' \in [1 .. Len(outbox) -> Rows] /\ job' = job /\ mail' = mail
             /\ \A j \in Ids : /\ outbox'[j].kind = outbox[j].kind
                               /\ outbox'[j].status = outbox[j].status
  <2>1. PICK row \in {[outbox[i] EXCEPT !.due = TRUE], [outbox[i] EXCEPT !.stale = TRUE]} :
          outbox' = [outbox EXCEPT ![i] = row]
    BY <1>0, <1>1 DEF FallsDue, GoesStale
  <2>2. job' = job /\ mail' = mail
    BY <1>1 DEF FallsDue, GoesStale
  <2>3. row \in Rows /\ row.kind = outbox[i].kind /\ row.status = outbox[i].status
    BY <1>0 DEF Rows
  <2>4. \A j \in Ids : outbox'[j] = IF j = i THEN row ELSE outbox[j]
    BY <1>0, <2>1
  <2>5. outbox' \in [1 .. Len(outbox) -> Rows]
    BY <1>0, <2>1, <2>3
  <2> QED BY <2>2, <2>3, <2>4, <2>5
<1>2. CASE Switch
  BY <1>0, <1>2 DEF Switch
<1> QED BY <1>1, <1>2 DEF Time

\* Pruning takes all that is settled up to a row.
LEMMA StoryPrune == ASSUME OrderInv, StoryInv, Prune PROVE StoryInv'
<1> DEFINE pruned(i) == [outbox[i] EXCEPT !.status = "pruned"]
<1>0. /\ outbox \in [1 .. Len(outbox) -> Rows] /\ Ids = 1 .. Len(outbox)
      /\ Len(outbox) \in Nat /\ outbox \in Seq(Rows)
  BY RowFacts
<1>1. PICK cutoff \in Ids :
        outbox' = [i \in Ids |-> IF i <= cutoff /\ outbox[i].status \in Settled
                                 THEN pruned(i) ELSE outbox[i]]
  BY DEF Prune
<1>2. job' = job /\ mail' = mail
  BY DEF Prune
<1>3. "pruned" \in Settled
  BY DEF Settled
<1>4. \A i \in Ids : /\ outbox[i] \in Rows /\ pruned(i) \in Rows
                     /\ pruned(i).status = "pruned" /\ pruned(i).kind = outbox[i].kind
  BY <1>0, <1>3 DEF Rows
<1> HIDE DEF pruned
<1>5. outbox' \in [1 .. Len(outbox) -> Rows] /\ Len(outbox') = Len(outbox)
  <2>1. outbox' \in [1 .. Len(outbox) -> Rows]
    BY <1>0, <1>1, <1>4
  <2> QED BY <1>0, <2>1, Rewritten
<1>6. Grows(outbox, outbox')
  BY <1>0, <1>1, <1>4, <1>5 DEF Grows
<1>7. \A i \in Ids : /\ outbox[i].status \in Settled <=> outbox'[i].status \in Settled
                     /\ outbox'[i].status # "pruned" => outbox'[i] = outbox[i]
                     /\ outbox[i].status = "pruned" => outbox'[i].status = "pruned"
                     /\ outbox[i].status \in Settled /\ i <= cutoff => outbox'[i].status = "pruned"
                     /\ outbox'[i].status = "pruned" /\ cutoff < i => outbox[i].status = "pruned"
  BY <1>0, <1>1, <1>3, <1>4
<1>8. OldestFirst'
  <2> SUFFICES ASSUME NEW i \in Ids, outbox'[i].status \in Settled
               PROVE  /\ Cleared(outbox', i)
                      /\ outbox'[i].status = "pruned" =>
                           \A e \in 1 .. i - 1 : outbox'[e].status = "pruned"
    BY <1>0, <1>3, <1>5 DEF OldestFirst, Ids
  <2>1. outbox[i].status \in Settled /\ \A e \in 1 .. i - 1 : e \in Ids
    BY <1>0, <1>7
  <2>2. \A e \in 1 .. i - 1 : outbox[e].status \in Settled
    BY <2>1 DEF StoryInv, OldestFirst, Cleared
  <2>3. ASSUME outbox'[i].status = "pruned", NEW e \in 1 .. i - 1
        PROVE  outbox'[e].status = "pruned"
    <3>1. CASE i <= cutoff
      <4>1. e \in Ids /\ e <= cutoff
        BY <1>0, <2>1, <3>1
      <4> QED BY <1>7, <2>2, <4>1
    <3>2. CASE cutoff < i
      <4>1. outbox[i].status = "pruned"
        BY <1>7, <2>3, <3>2
      <4>2. outbox[e].status = "pruned"
        BY <4>1 DEF StoryInv, OldestFirst
      <4> QED BY <1>7, <2>1, <4>2
    <3> QED BY <1>0, <3>1, <3>2
  <2> QED BY <1>7, <2>1, <2>2, <2>3 DEF Cleared
<1>9. SentIsTold'
  BY <1>0, <1>2, <1>5, <1>7 DEF StoryInv, SentIsTold, Ids
<1> QED BY <1>2, <1>6, <1>8, <1>9, MailRests, JobsRest DEF StoryInv

\* One notifier's hands change.
LEMMA JobTells ==
    ASSUME OrderInv, StoryInv, NEW w \in Workers, NEW j, job' = [job EXCEPT ![w] = j],
           mail' = mail, Grows(outbox, outbox'), j.pc = "decided" => j.verdict # "pruned",
           j.pc = "decided" /\ j.verdict = "sent" => Told(mail, j.id),
           j.pc = "sending" /\ Clear(outbox', j.id) => Started(outbox', mail, j.id)
    PROVE  JobsTell'
<1>0. \A x \in Workers : job'[x] = IF x = w THEN j ELSE job[x]
  BY RowFacts
<1>1. ASSUME NEW x \in Workers, x # w
      PROVE  job[x].pc = "sending" /\ Clear(outbox', job[x].id) => Started(outbox', mail, job[x].id)
  <2> SUFFICES ASSUME job[x].pc = "sending", Clear(outbox', job[x].id)
               PROVE  Started(outbox', mail, job[x].id)
    OBVIOUS
  <2>1. job[x].id \in 1 .. Len(outbox)
    BY DEF OrderInv, JobsHold, Holds
  <2>2. Clear(outbox, job[x].id)
    BY <2>1 DEF Grows, Clear
  <2>3. Started(outbox, mail, job[x].id)
    BY <2>2 DEF StoryInv, JobsTell
  <2> QED BY <2>1, <2>3, StartedStays
<1> QED BY <1>0, <1>1 DEF StoryInv, JobsTell

\* A claim leaves kinds and settled rows alone.
ClaimedFrom(i) ==
    /\ outbox'[i].status = "sending"
    /\ \A j \in Ids : /\ outbox'[j].kind = outbox[j].kind
                      /\ outbox'[j].status \in {outbox[j].status, "pending", "sending"}
                      /\ outbox[j].status \in Settled => outbox'[j].status = outbox[j].status
                      /\ outbox[j].status # outbox'[j].status =>
                           outbox[j].status \in {"pending", "sending"}
LEMMA ClaimFacts ==
    ASSUME OrderInv, NEW w \in Workers, Claim(w)
    PROVE  \E i \in Ids :
               /\ outbox' \in [1 .. Len(outbox) -> Rows] /\ ClaimedFrom(i)
               /\ job' = [job EXCEPT ![w] = [pc |-> "claimed", id |-> i, verdict |-> None]]
<1>0. Ids = 1 .. Len(outbox) /\ {"pending", "sending"} \cap Settled = {}
  BY RowFacts DEF Settled
<1>1. PICK i \in Ids :
        /\ Claimable(Released, i)
        /\ outbox' = [Released EXCEPT ![i].status = "sending", ![i].stale = FALSE]
        /\ job' = [job EXCEPT ![w] = [pc |-> "claimed", id |-> i, verdict |-> None]]
  BY DEF Claim
<1>2. /\ Released \in [1 .. Len(outbox) -> Rows]
      /\ \A j \in Ids : /\ Released[j].kind = outbox[j].kind
                        /\ \/ Released[j].status = outbox[j].status
                           \/ outbox[j].status = "sending" /\ Released[j].status = "pending"
  BY ReleasedFacts
<1>3. Released[i].status = "pending" /\ Released[i] \in Rows
  BY <1>0, <1>1, <1>2 DEF Claimable
<1> DEFINE row == [Released[i] EXCEPT !.status = "sending", !.stale = FALSE]
<1>4. row \in Rows /\ row.status = "sending" /\ row.kind = Released[i].kind
  BY <1>3 DEF Rows
<1>5. outbox' = [Released EXCEPT ![i] = row]
  BY <1>0, <1>1, <1>2
<1> HIDE DEF row, Released
<1>6. outbox' \in [1 .. Len(outbox) -> Rows] /\ \A j \in Ids : outbox'[j] = IF j = i THEN row ELSE Released[j]
  BY <1>0, <1>2, <1>4, <1>5
<1>7. ClaimedFrom(i)
  BY <1>0, <1>2, <1>3, <1>4, <1>6 DEF ClaimedFrom
<1> QED BY <1>1, <1>6, <1>7

LEMMA StoryClaim == ASSUME OrderInv, StoryInv, NEW w \in Workers, Claim(w) PROVE StoryInv'
<1>0. /\ outbox \in Seq(Rows) /\ Len(outbox) \in Nat /\ Ids = 1 .. Len(outbox)
      /\ mail' = mail
  BY RowFacts DEF Claim
<1>1. PICK i \in Ids :
        /\ outbox' \in [1 .. Len(outbox) -> Rows] /\ ClaimedFrom(i)
        /\ job' = [job EXCEPT ![w] = [pc |-> "claimed", id |-> i, verdict |-> None]]
  BY ClaimFacts
<1>2. Len(outbox') = Len(outbox)
  BY <1>0, <1>1, Rewritten
<1>3. Grows(outbox, outbox')
  BY <1>0, <1>1, <1>2 DEF Grows, ClaimedFrom
<1>4. {"pending", "sending"} \cap Settled = {}
  BY DEF Settled
<1>5. OldestFirst' /\ SentIsTold'
  BY <1>0, <1>1, <1>2, <1>3, <1>4, NothingSettles DEF ClaimedFrom
<1>6. JobsTell'
  BY <1>0, <1>1, <1>3, JobTells
<1> QED BY <1>0, <1>3, <1>5, <1>6, MailRests DEF StoryInv

\* The verdict on a clear: it goes out if a start was sent since the last one.
LEMMA DecideFacts ==
    ASSUME OrderInv, NEW w \in Workers, Decide(w)
    PROVE  /\ job[w].pc = "claimed" /\ job[w].id \in Ids /\ job[w] \in Jobs
           /\ outbox' = outbox /\ mail' = mail
           /\ \E v \in {"failed", "skipped", "suppressed", "send"}, j \in Jobs :
                /\ job' = [job EXCEPT ![w] = j] /\ j.id = job[w].id /\ j.verdict = v
                /\ j.pc = IF v = "send" THEN "sending" ELSE "decided"
                /\ \E overLimit \in BOOLEAN, off \in {"failed", "skipped"} :
                     v = Verdict(job[w].id, overLimit, off)
<1>0. job \in [Workers -> Jobs] /\ job[w].pc = "claimed" /\ job[w] \in Jobs
  BY RowFacts DEF Decide
<1>1. job[w].id \in Ids
  BY <1>0 DEF OrderInv, JobsHold, Holds, Ids
<1>2. PICK overLimit \in BOOLEAN, off \in {"failed", "skipped"} :
        job' = [job EXCEPT ![w].verdict = Verdict(job[w].id, overLimit, off),
                           ![w].pc = IF Verdict(job[w].id, overLimit, off) = "send"
                                     THEN "sending" ELSE "decided"]
  BY DEF Decide
<1> DEFINE v == Verdict(job[w].id, overLimit, off)
           j == [job[w] EXCEPT !.verdict = v, !.pc = IF v = "send" THEN "sending" ELSE "decided"]
<1>3. v \in {"failed", "skipped", "suppressed", "send"}
  BY DEF Verdict
<1>4. job' = [job EXCEPT ![w] = j]
  BY <1>0, <1>2
<1>5. \E o \in BOOLEAN, f \in {"failed", "skipped"} : v = Verdict(job[w].id, o, f)
  OBVIOUS
<1> HIDE DEF v
<1>6. j \in Jobs /\ j.id = job[w].id /\ j.verdict = v
      /\ j.pc = IF v = "send" THEN "sending" ELSE "decided"
  BY <1>0, <1>3 DEF Jobs, Settled
<1> HIDE DEF j
<1>7. outbox' = outbox /\ mail' = mail
  BY DEF Decide
<1> QED BY <1>0, <1>1, <1>3, <1>4, <1>5, <1>6, <1>7

\* A clear that is to be sent follows a start that was: a clear in between would
\* be pruned, and the start with it.
LEMMA ClearIsDue ==
    ASSUME OrderInv, StoryInv, NEW i \in Ids, StartWasSent(i)
    PROVE  Started(outbox, mail, i)
<1>1. Ids = 1 .. Len(outbox) /\ Len(outbox) \in Nat
  BY RowFacts
<1>2. PICK n \in 1 .. i - 1 : /\ outbox[n].kind # "alarm_cleared" /\ outbox[n].status = "sent"
                              /\ \A c \in LastClear(i) : c < n
  BY DEF StartWasSent
<1>3. n \in Ids /\ Told(mail, n)
  BY <1>1, <1>2 DEF StoryInv, SentIsTold
<1>4. ASSUME NEW c \in n .. i - 1, Clear(outbox, c) PROVE FALSE
  <2>1. c \in Ids /\ c \in 1 .. i - 1 /\ c # n /\ n \in 1 .. c - 1
    BY <1>1, <1>2, <1>4 DEF Clear
  <2>2. outbox[c].status = "pruned"
    BY <1>2, <1>4, <2>1 DEF LastClear, Clear
  <2>3. outbox[n].status = "pruned"
    BY <2>1, <2>2 DEF StoryInv, OldestFirst
  <2> QED BY <1>2, <2>3
<1> QED BY <1>2, <1>3, <1>4 DEF Started

LEMMA StoryDecide == ASSUME OrderInv, StoryInv, NEW w \in Workers, Decide(w) PROVE StoryInv'
<1>1. /\ job[w].pc = "claimed" /\ job[w].id \in Ids /\ outbox' = outbox /\ mail' = mail
      /\ Len(outbox) \in Nat
  BY DecideFacts, RowFacts
<1>2. PICK v \in {"failed", "skipped", "suppressed", "send"}, j \in Jobs :
        /\ job' = [job EXCEPT ![w] = j] /\ j.id = job[w].id /\ j.verdict = v
        /\ j.pc = IF v = "send" THEN "sending" ELSE "decided"
        /\ \E overLimit \in BOOLEAN, off \in {"failed", "skipped"} :
                     v = Verdict(job[w].id, overLimit, off)
  BY DecideFacts
<1>3. j.pc = "sending" /\ Clear(outbox, j.id) => Started(outbox, mail, j.id)
  <2> SUFFICES ASSUME j.pc = "sending", Clear(outbox, job[w].id)
               PROVE  Started(outbox, mail, job[w].id)
    BY <1>2
  <2>1. ~WhyNot(job[w].id)
    BY <1>2 DEF Verdict
  <2>2. StartWasSent(job[w].id)
    BY <2>1 DEF WhyNot, Clear
  <2> QED BY <1>1, <2>2, ClearIsDue
<1>4. Grows(outbox, outbox')
  BY <1>1 DEF Grows
<1>5. JobsTell'
  BY <1>1, <1>2, <1>3, <1>4, JobTells
<1> QED BY <1>1, <1>4, <1>5, MailRests DEF StoryInv, OldestFirst, SentIsTold, Ids

\* Whoever dies, is refused, or gives up until later tells nothing.
LEMMA StorySilent ==
    ASSUME OrderInv, StoryInv, NEW w \in Workers, NEW j, job' = [job EXCEPT ![w] = j],
           outbox' = outbox, mail' = mail,
           j.pc = "free" \/ (j.pc = "decided" /\ j.verdict \in {"failed", "retry"})
    PROVE  StoryInv'
<1>1. Grows(outbox, outbox')
  BY RowFacts DEF Grows
<1>2. JobsTell'
  BY <1>1, JobTells
<1> QED BY <1>1, <1>2, MailRests DEF StoryInv, OldestFirst, SentIsTold, Ids

\* The row in hand is not older than whatever was sent.
LEMMA MailIsOlder ==
    ASSUME OrderInv, NEW w \in Workers, job[w].pc # "free"
    PROVE  /\ job[w].id \in Ids /\ outbox[job[w].id].status \notin Settled
           /\ \A m \in 1 .. Len(mail) : mail[m] \in Ids /\ mail[m] <= job[w].id
<1>1. /\ job[w].id \in 1 .. Len(outbox) /\ outbox[job[w].id].status = "sending"
      /\ Len(outbox) \in Nat /\ Ids = 1 .. Len(outbox)
  BY RowFacts DEF OrderInv, JobsHold, Holds
<1>2. outbox[job[w].id].status \notin Settled
  BY <1>1 DEF Settled
<1>3. ASSUME NEW m \in 1 .. Len(mail) PROVE mail[m] \in Ids /\ mail[m] <= job[w].id
  <2>1. mail[m] \in Ids /\ Cleared(outbox, mail[m])
    BY <1>1 DEF OrderInv, MailIsCleared, Undelivered
  <2>2. ~(job[w].id \in 1 .. mail[m] - 1)
    BY <1>2, <2>1 DEF Cleared
  <2> QED BY <1>1, <2>1, <2>2
<1> QED BY <1>1, <1>2, <1>3

\* What a send leaves: nothing, or one more email, of the row in hand.
LEMMA SendFacts ==
    ASSUME OrderInv, NEW w \in Workers, Send(w)
    PROVE  /\ job[w].pc = "sending" /\ outbox' = outbox
           /\ \E j \in Jobs :
                /\ job' = [job EXCEPT ![w] = j] /\ j.id = job[w].id /\ j.pc = "decided"
                /\ \/ j.verdict = "retry" /\ mail' = mail
                   \/ /\ j.verdict = "sent" /\ mail' = Append(mail, job[w].id)
                      /\ Len(mail') = Len(mail) + 1 /\ mail'[Len(mail) + 1] = job[w].id
                      /\ \A m \in 1 .. Len(mail) : mail'[m] = mail[m]
<1>0. /\ job \in [Workers -> Jobs] /\ job[w].pc = "sending" /\ mail \in Seq(Nat)
      /\ job[w] \in Jobs /\ outbox' = outbox /\ Ids \subseteq Nat
  BY RowFacts DEF Send, Ids
<1>1. PICK result \in {"sent", "retry"} :
        /\ job' = [job EXCEPT ![w].verdict = result, ![w].pc = "decided"]
        /\ mail' = IF result = "sent" THEN Append(mail, job[w].id) ELSE mail
  BY DEF Send
<1> DEFINE j == [job[w] EXCEPT !.verdict = result, !.pc = "decided"]
<1>2. job' = [job EXCEPT ![w] = j]
  BY <1>0, <1>1
<1>3. j \in Jobs /\ j.id = job[w].id /\ j.verdict = result /\ j.pc = "decided"
  BY <1>0, <1>1 DEF Jobs, Settled
<1> HIDE DEF j
<1>4. result = "sent" => /\ Len(mail') = Len(mail) + 1 /\ mail'[Len(mail) + 1] = job[w].id
                         /\ \A m \in 1 .. Len(mail) : mail'[m] = mail[m]
  <2>1. job[w].id \in Nat
    BY <1>0, MailIsOlder
  <2> QED BY <1>0, <1>1, <2>1, AppendProperties
<1> QED BY <1>0, <1>1, <1>2, <1>3, <1>4

LEMMA StorySend == ASSUME OrderInv, StoryInv, NEW w \in Workers, Send(w) PROVE StoryInv'
<1>0. job[w].pc = "sending" /\ outbox' = outbox /\ Len(mail) \in Nat /\ Ids \subseteq Nat
      /\ Len(outbox) \in Nat /\ Ids = 1 .. Len(outbox) /\ Ids' = Ids
      /\ \A k : \A x \in Workers : (job' = [job EXCEPT ![w] = k]) => job'[x] = IF x = w THEN k ELSE job[x]
  BY SendFacts, RowFacts, LenProperties DEF Ids
<1>1. PICK j \in Jobs :
        /\ job' = [job EXCEPT ![w] = j] /\ j.id = job[w].id /\ j.pc = "decided"
        /\ \/ j.verdict = "retry" /\ mail' = mail
           \/ /\ j.verdict = "sent" /\ mail' = Append(mail, job[w].id)
              /\ Len(mail') = Len(mail) + 1 /\ mail'[Len(mail) + 1] = job[w].id
              /\ \A m \in 1 .. Len(mail) : mail'[m] = mail[m]
  BY SendFacts
<1>2. CASE j.verdict = "retry" /\ mail' = mail
  BY <1>0, <1>1, <1>2, StorySilent
<1>3. CASE /\ j.verdict = "sent" /\ Len(mail') = Len(mail) + 1
           /\ mail'[Len(mail) + 1] = job[w].id
           /\ \A m \in 1 .. Len(mail) : mail'[m] = mail[m]
  <2> DEFINE i == job[w].id
  <2>1. i \in Ids /\ \A m \in 1 .. Len(mail) : mail[m] \in Ids /\ mail[m] <= i
    BY <1>0, MailIsOlder
  <2>2. \A m \in 1 .. Len(mail') : m \in 1 .. Len(mail) \/ m = Len(mail) + 1
    BY <1>0, <1>3
  <2>3. Sorted'
    <3> SUFFICES ASSUME NEW l \in 1 .. Len(mail'), NEW m \in 1 .. Len(mail'), l <= m
                 PROVE  mail'[l] <= mail'[m]
      BY DEF Sorted
    <3>1. CASE m = Len(mail) + 1
      BY <1>0, <1>3, <2>1, <2>2, <3>1
    <3>2. CASE m \in 1 .. Len(mail)
      <4>1. l \in 1 .. Len(mail)
        BY <1>0, <2>2, <3>2
      <4> QED BY <1>3, <3>2, <4>1 DEF StoryInv, Sorted
    <3> QED BY <2>2, <3>1, <3>2
  <2>4. \A n : Told(mail, n) => Told(mail', n)
    BY <1>0, <1>3 DEF Told
  <2>5. Told(mail', i)
    BY <1>0, <1>3 DEF Told
  <2>6. ASSUME NEW n \in Ids, Started(outbox, mail, n) PROVE Started(outbox, mail', n)
    BY <1>0, <2>4, <2>6, StartedStays DEF Grows
  <2>7. ClearsFollow'
    <3> SUFFICES ASSUME NEW m \in 1 .. Len(mail'), Clear(outbox, mail'[m])
                 PROVE  Started(outbox, mail', mail'[m])
      BY <1>0 DEF ClearsFollow
    <3>1. CASE m \in 1 .. Len(mail)
      <4>1. mail'[m] = mail[m] /\ mail[m] \in Ids
        BY <1>3, <2>1, <3>1
      <4> QED BY <2>6, <3>1, <4>1 DEF StoryInv, ClearsFollow
    <3>2. CASE m = Len(mail) + 1
      <4>1. Started(outbox, mail, i)
        BY <1>0, <1>3, <3>2 DEF StoryInv, JobsTell
      <4> QED BY <1>3, <2>1, <2>6, <3>2, <4>1
    <3> QED BY <2>2, <3>1, <3>2
  <2>8. JobsTell'
    <3> SUFFICES ASSUME NEW x \in Workers
                 PROVE  /\ job'[x].pc = "decided" => job'[x].verdict # "pruned"
                        /\ job'[x].pc = "decided" /\ job'[x].verdict = "sent" => Told(mail', job'[x].id)
                        /\ job'[x].pc = "sending" /\ Clear(outbox, job'[x].id)
                             => Started(outbox, mail', job'[x].id)
      BY <1>0 DEF JobsTell
    <3>1. CASE x = w
      BY <1>0, <1>1, <1>3, <2>5, <3>1
    <3>2. CASE x # w
      <4>1. job'[x] = job[x] /\ job[x].pc = "free"
        BY <1>0, <1>1, <3>2 DEF OrderInv, OneHolds
      <4> QED BY <4>1
    <3> QED BY <3>1, <3>2
  <2>9. OldestFirst' /\ SentIsTold'
    BY <1>0, <2>4 DEF StoryInv, OldestFirst, SentIsTold
  <2> QED BY <2>3, <2>7, <2>8, <2>9 DEF StoryInv
<1> QED BY <1>1, <1>2, <1>3

\* The outcome settles the row in hand, or puts it back, and touches no other.
LEMMA RecordFacts ==
    ASSUME OrderInv, NEW w \in Workers, Record(w)
    PROVE  /\ outbox' \in [1 .. Len(outbox) -> Rows] /\ mail' = mail
           /\ \A x \in Workers : job'[x].pc = "free"
           /\ job[w].pc = "decided" /\ job[w].id \in Ids /\ Cleared(outbox, job[w].id)
           /\ outbox[job[w].id].status = "sending"
           /\ \A j \in Ids : /\ outbox'[j].kind = outbox[j].kind
                             /\ j # job[w].id => outbox'[j].status = outbox[j].status
           /\ outbox'[job[w].id].status =
                IF job[w].verdict = "retry" THEN "pending" ELSE job[w].verdict
<1> DEFINE i == job[w].id
           retried == [outbox[i] EXCEPT !.status = "pending",
                          !.attempts = outbox[i].attempts + 1, !.due = FALSE, !.stale = FALSE]
           settled == [outbox[i] EXCEPT !.status = job[w].verdict, !.stale = FALSE]
           row == IF job[w].verdict = "retry" THEN retried ELSE settled
<1>0. /\ outbox \in [1 .. Len(outbox) -> Rows] /\ Ids = 1 .. Len(outbox)
      /\ job \in [Workers -> Jobs] /\ job[w].pc = "decided" /\ mail' = mail
  BY RowFacts DEF Record
<1>1. /\ i \in Ids /\ Cleared(outbox, i) /\ outbox[i].status = "sending"
      /\ job[w].verdict \in Settled \cup {"retry"}
  BY <1>0 DEF OrderInv, JobsHold, Holds, Decided
<1>2. outbox' = [outbox EXCEPT ![i] = row]
  BY <1>0, <1>1 DEF Record
<1>3. outbox[i] \in Rows
  BY <1>0, <1>1
<1>4. retried \in Rows /\ retried.kind = outbox[i].kind /\ retried.status = "pending"
  <2>1. outbox[i].attempts + 1 \in Nat
    BY <1>3 DEF Rows
  <2> QED BY <1>3, <2>1 DEF Rows
<1>5. job[w].verdict # "retry" =>
        settled \in Rows /\ settled.kind = outbox[i].kind /\ settled.status = job[w].verdict
  BY <1>1, <1>3 DEF Rows
<1>6. row \in Rows /\ row.kind = outbox[i].kind
      /\ row.status = IF job[w].verdict = "retry" THEN "pending" ELSE job[w].verdict
  BY <1>4, <1>5
<1> HIDE DEF row, retried, settled
<1>7. outbox' \in [1 .. Len(outbox) -> Rows]
      /\ \A j \in Ids : outbox'[j] = IF j = i THEN row ELSE outbox[j]
  BY <1>0, <1>1, <1>2, <1>6
<1>8. \A x \in Workers : job'[x].pc = "free"
  <2>1. Free.pc = "free" /\ job' = [job EXCEPT ![w] = Free]
    BY DEF Free, Record
  <2> QED BY <1>0, <2>1 DEF OrderInv, OneHolds
<1> QED BY <1>0, <1>1, <1>6, <1>7, <1>8

LEMMA StoryRecord == ASSUME OrderInv, StoryInv, NEW w \in Workers, Record(w) PROVE StoryInv'
<1> DEFINE i == job[w].id
<1>0. /\ outbox \in Seq(Rows) /\ Len(outbox) \in Nat /\ Ids = 1 .. Len(outbox)
  BY RowFacts
<1>1. /\ outbox' \in [1 .. Len(outbox) -> Rows] /\ mail' = mail
      /\ \A x \in Workers : job'[x].pc = "free"
      /\ job[w].pc = "decided" /\ i \in Ids /\ Cleared(outbox, i)
      /\ outbox[i].status = "sending"
      /\ \A j \in Ids : /\ outbox'[j].kind = outbox[j].kind
                        /\ j # i => outbox'[j].status = outbox[j].status
      /\ outbox'[i].status = IF job[w].verdict = "retry" THEN "pending" ELSE job[w].verdict
  BY RecordFacts
<1> HIDE DEF i
<1>2. Len(outbox') = Len(outbox) /\ Ids' = Ids
  <2>1. Len(outbox') = Len(outbox)
    BY <1>0, <1>1, Rewritten
  <2> QED BY <2>1 DEF Ids
<1>3. Grows(outbox, outbox')
  BY <1>0, <1>1, <1>2 DEF Grows
<1>4. /\ job[w].verdict # "pruned" /\ (job[w].verdict = "sent" => Told(mail, i))
  BY <1>1 DEF StoryInv, JobsTell, i
<1>5. \A e \in 1 .. i - 1 : e \in Ids /\ e # i /\ outbox'[e].status \in Settled
  BY <1>0, <1>1 DEF Cleared
<1>6. "sending" \notin Settled
  BY DEF Settled
<1>7. OldestFirst'
  <2> SUFFICES ASSUME NEW k \in Ids
               PROVE  /\ outbox'[k].status \in Settled => Cleared(outbox', k)
                      /\ outbox'[k].status = "pruned" =>
                           \A e \in 1 .. k - 1 : outbox'[e].status = "pruned"
    BY <1>2 DEF OldestFirst
  <2>1. CASE k = i
    BY <1>1, <1>4, <1>5, <2>1 DEF Cleared
  <2>2. CASE k # i
    <3>1. outbox'[k].status = outbox[k].status
      BY <1>1, <2>2
    <3> SUFFICES ASSUME outbox[k].status \in Settled
                 PROVE  /\ Cleared(outbox', k)
                        /\ outbox[k].status = "pruned" =>
                             \A e \in 1 .. k - 1 : outbox'[e].status = "pruned"
      <4>1. "pruned" \in Settled
        BY DEF Settled
      <4> QED BY <3>1, <4>1
    <3>2. \A e \in 1 .. k - 1 : e \in Ids /\ outbox[e].status \in Settled /\ e # i
      BY <1>0, <1>1, <1>6 DEF StoryInv, OldestFirst, Cleared
    <3>3. \A e \in 1 .. k - 1 : outbox'[e].status = outbox[e].status
      BY <1>1, <3>2
    <3> QED BY <3>2, <3>3 DEF StoryInv, OldestFirst, Cleared
  <2> QED BY <2>1, <2>2
<1>8. SentIsTold'
  <2> SUFFICES ASSUME NEW k \in Ids, outbox'[k].status = "sent" PROVE Told(mail, k)
    BY <1>1, <1>2 DEF SentIsTold
  <2> QED BY <1>1, <1>4 DEF StoryInv, SentIsTold
<1>9. JobsTell'
  BY <1>1 DEF JobsTell
<1> QED BY <1>1, <1>3, <1>7, <1>8, <1>9, MailRests DEF StoryInv

LEMMA StoryInitially == Init => StoryInv
<1> SUFFICES ASSUME Init PROVE StoryInv
  OBVIOUS
<1>1. outbox = <<>> /\ mail = <<>> /\ Ids = {} /\ \A w \in Workers : job[w].pc = "free"
  BY DEF Init, Free, Ids
<1> QED BY <1>1 DEF StoryInv, Sorted, OldestFirst, SentIsTold, JobsTell, ClearsFollow

LEMMA StoryKept ==
    ASSUME OrderInv, StoryInv, [Next]_vars PROVE StoryInv'
<1>1. CASE Alarm
  BY <1>1, StoryAlarm
<1>2. CASE Time \/ Switch
  BY <1>2, TimeFacts, StoryStays
<1>3. CASE Prune
  BY <1>3, StoryPrune
<1>4. ASSUME NEW w \in Workers, Refuse(w) PROVE StoryInv'
  <2> DEFINE j == [job[w] EXCEPT !.verdict = "failed", !.pc = "decided"]
  <2>1. job \in [Workers -> Jobs] /\ outbox' = outbox /\ mail' = mail
    BY <1>4, RowFacts DEF Refuse
  <2>2. job' = [job EXCEPT ![w] = j]
    BY <1>4, <2>1 DEF Refuse
  <2>3. j.pc = "decided" /\ j.verdict = "failed"
    BY <2>1 DEF Jobs
  <2> HIDE DEF j
  <2> QED BY <2>1, <2>2, <2>3, StorySilent
<1>5. ASSUME NEW w \in Workers, Die(w) PROVE StoryInv'
  <2>1. Free.pc = "free" /\ job' = [job EXCEPT ![w] = Free] /\ outbox' = outbox /\ mail' = mail
    BY <1>5 DEF Die, Free
  <2> QED BY <2>1, StorySilent
<1>6. ASSUME NEW w \in Workers, Run(w) PROVE StoryInv'
  BY <1>6, StoryClaim, StoryDecide, StorySend, StoryRecord DEF Run
<1>7. CASE UNCHANGED vars
  <2>1. outbox' = outbox /\ job' = job /\ mail' = mail
    BY <1>7 DEF vars
  <2> QED BY <2>1 DEF StoryInv, Sorted, OldestFirst, SentIsTold, JobsTell, ClearsFollow, Ids
<1> QED BY <1>1, <1>2, <1>3, <1>4, <1>5, <1>6, <1>7 DEF Next

\* Nobody is told that something ended who was not told that it started, under
\* the same condition: a claim outlives the work on it.
THEOREM ClearsFollowStarts ==
    ASSUME "stall" \notin Faults PROVE Spec => []ClearFollowsStart
<1>1. Init => OrderInv /\ StoryInv
  BY OrderInitially, StoryInitially
<1>2. OrderInv /\ StoryInv /\ [Next]_vars => OrderInv' /\ StoryInv'
  BY OrderKept, StoryKept
<1>3. OrderInv /\ StoryInv => ClearFollowsStart
  <2> SUFFICES ASSUME OrderInv, StoryInv, NEW m \in 1 .. Len(mail), Clear(outbox, mail[m])
               PROVE  \E p \in 1 .. m - 1 :
                        /\ outbox[mail[p]].kind # "alarm_cleared"
                        /\ \A c \in p .. m - 1 : mail[c] = mail[m]
                             \/ outbox[mail[c]].kind # "alarm_cleared"
    BY DEF ClearFollowsStart, Clear
  <2>0. Len(mail) \in Nat /\ \A c \in 1 .. Len(mail) : mail[c] \in Nat
    BY RowFacts, LenProperties
  <2>1. PICK n \in 1 .. mail[m] - 1 :
          Told(mail, n) /\ \A c \in n .. mail[m] - 1 : ~Clear(outbox, c)
    BY DEF StoryInv, ClearsFollow, Started
  <2>2. PICK p \in 1 .. Len(mail) : mail[p] = n
    BY <2>1 DEF Told
  <2>3. p < m
    <3>1. mail[p] < mail[m]
      BY <2>0, <2>1, <2>2
    <3>2. ~(m <= p)
      BY <2>0, <3>1 DEF StoryInv, Sorted
    <3> QED BY <2>0, <3>2
  <2>4. ASSUME NEW c \in p .. m - 1, mail[c] # mail[m] PROVE ~Clear(outbox, mail[c])
    <3>1. c \in 1 .. Len(mail) /\ p <= c /\ c <= m
      BY <2>0, <2>3
    <3>2. mail[p] <= mail[c] /\ mail[c] <= mail[m]
      BY <3>1 DEF StoryInv, Sorted
    <3>3. mail[c] \in n .. mail[m] - 1
      BY <2>0, <2>2, <2>4, <3>1, <3>2
    <3> QED BY <2>1, <3>3
  <2>5. ~Clear(outbox, mail[p])
    BY <2>0, <2>1, <2>2
  <2>6. p \in 1 .. m - 1
    BY <2>0, <2>3
  <2> QED BY <2>4, <2>5, <2>6 DEF Clear
<1> QED BY <1>1, <1>2, <1>3, PTL DEF Spec

-----------------------------------------------------------------------------
(* Without faults, whoever was told of a start is told of its end.            *)

\* The outbox holds the same rows, and the condition is where it was.
LEMMA StandingRests ==
    ASSUME OrderInv, Standing, UNCHANGED condition, outbox' \in [1 .. Len(outbox) -> Rows],
           \A i \in Ids : outbox'[i].kind = outbox[i].kind
    PROVE  Standing'
<1>1. outbox \in Seq(Rows) /\ Len(outbox) \in Nat /\ Ids = 1 .. Len(outbox)
  BY RowFacts
<1>2. Len(outbox') = Len(outbox)
  BY <1>1, Rewritten
<1>3. /\ enabled' = enabled /\ open' = open /\ active' = active
  BY DEF condition
<1>4. Len(outbox) # 0 => Len(outbox) \in Ids
  BY <1>1
<1> QED BY <1>2, <1>3, <1>4 DEF Standing, Clear

\* No email leaves, and what was sent stays so or is about to be written down.
LEMMA ToldRests ==
    ASSUME OrderInv, ToldIsSent, mail' = mail,
           \A i \in Ids : outbox[i].status = "sent" => outbox'[i].status = "sent",
           \A i \in Ids : InHand(i) => InHand(i)' \/ outbox'[i].status = "sent"
    PROVE  ToldIsSent'
<1> SUFFICES ASSUME NEW i \in Ids', Told(mail, i)
             PROVE  outbox'[i].status = "sent" \/ InHand(i)'
  BY DEF ToldIsSent
<1>1. i \in Ids
  BY DEF Told, OrderInv, MailIsCleared, Undelivered, Ids
<1> QED BY <1>1 DEF ToldIsSent

\* No clear is left out that was due.
LEMMA ClearsRest ==
    ASSUME OrderInv, ClearsDone, mail' = mail, Grows(outbox, outbox'),
           \A i \in Ids' : outbox'[i].status \in Settled =>
               /\ i \in Ids
               /\ \/ outbox'[i].status \in {outbox[i].status, "sent"}
                  \/ ~(Clear(outbox, i) /\ Started(outbox, mail, i))
    PROVE  ClearsDone'
<1> SUFFICES ASSUME NEW i \in Ids', Clear(outbox', i), outbox'[i].status \in Settled,
                    outbox'[i].status # "sent", Started(outbox', mail, i)
             PROVE  FALSE
  BY DEF ClearsDone
<1>1. i \in Ids /\ Clear(outbox, i)
  BY DEF Grows, Clear, Ids
<1>2. Started(outbox, mail, i)
  BY <1>1, StartedBack DEF Ids
<1> QED BY <1>1, <1>2 DEF ClearsDone

LEMMA VerdictsRest ==
    ASSUME OrderInv, VerdictsDue, mail' = mail, Grows(outbox, outbox'),
           \A x \in Workers :
               \/ job'[x] = job[x]
               \/ job'[x].pc = "decided" =>
                    /\ job'[x].id \in Ids
                    /\ \/ ~(Clear(outbox, job'[x].id) /\ Started(outbox, mail, job'[x].id))
                       \/ job'[x].verdict \in {"sent", "retry"}
    PROVE  VerdictsDue'
<1> SUFFICES ASSUME NEW x \in Workers, job'[x].pc = "decided", Clear(outbox', job'[x].id),
                    job'[x].verdict \notin {"sent", "retry"},
                    Started(outbox', mail, job'[x].id)
             PROVE  FALSE
  BY DEF VerdictsDue
<1>1. job'[x].id \in 1 .. Len(outbox)
  BY DEF OrderInv, JobsHold, Holds, Ids
<1>2. Clear(outbox, job'[x].id)
  BY <1>1 DEF Grows, Clear
<1>3. Started(outbox, mail, job'[x].id)
  BY <1>1, StartedBack
<1> QED BY <1>2, <1>3 DEF VerdictsDue

\* What is queued is of the condition's own standing: a clear when it is over.
\* A change that is a transaction of its own: what it leaves open is active, and
\* what it closes has its clear queued.
LEMMA OneChange ==
    ASSUME OrderInv, FaultFree, "alarm_cleared" \in NotifiesOn, NEW t \in Changes(Begun)
    PROVE  /\ LeftOpen(t) => t.active
           /\ \/ t.queued = <<>> /\ ~open
              \/ LeftOpen(t)
              \/ \E row \in Rows : t.queued = Append(<<>>, row) /\ row.kind = "alarm_cleared"
<1>1. PICK kind \in Kinds, admitted \in BOOLEAN :
        /\ t = Change(Begun, kind, admitted)
        /\ kind # "alarm_raised" => active
  <2>1. Begun.active = active
    BY DEF Begun
  <2>2. PICK kind \in IF active THEN {"alarm_escalated", "alarm_cleared"} ELSE {"alarm_raised"},
             admitted \in BOOLEAN : t = Change(Begun, kind, admitted)
    BY <2>1 DEF Changes
  <2>3. kind \in Kinds /\ (kind # "alarm_raised" => active)
    BY <2>2 DEF Kinds
  <2> QED BY <2>2, <2>3
<1> DEFINE send == SendKind(Begun, kind, admitted)
           of == IF kind = "alarm_raised" THEN Begun.episode + 1 ELSE Begun.episode
           row == [kind |-> send, of |-> of, status |-> "pending", stale |-> FALSE,
                   attempts |-> 0, due |-> send # "alarm_raised" \/ ~Delayed]
<1>2. /\ Begun.open = open /\ Begun.opened = FALSE /\ Begun.closed = FALSE
      /\ Begun.queued = <<>> /\ Begun.episode = episode
  BY DEF Begun
<1>3. /\ t.active = (kind # "alarm_cleared")
      /\ t.opened = (send = "alarm_raised")
      /\ t.closed = (enabled /\ open /\ kind = "alarm_cleared")
      /\ t.queued = Queue(Begun, row)
  BY <1>1, <1>2 DEF Change
<1>4. of \in Nat
  BY <1>2 DEF OrderInv, Types
<1>5. /\ enabled /\ None \notin Kinds /\ (open => active)
      /\ send \in {None, "alarm_cleared", "alarm_raised", "alarm_escalated"}
      /\ open => send \in {None, kind} /\ send # "alarm_raised"
      /\ open /\ kind = "alarm_cleared" => send = kind
      /\ ~open => send = None \/ (send = "alarm_raised" /\ kind # "alarm_cleared")
  BY <1>2, NotificationsAssumption DEF FaultFree, Standing, SendKind, Kinds
<1> HIDE DEF send, of
<1>6. row.kind = send /\ (send \in Kinds => row \in Rows)
  BY <1>4 DEF Rows
<1> HIDE DEF row
<1>7. t.queued = IF send = None THEN <<>> ELSE Append(<<>>, row)
  BY <1>2, <1>3, <1>6 DEF Queue
<1>8. LeftOpen(t) <=> (send = "alarm_raised" \/ (open /\ kind # "alarm_cleared"))
  BY <1>3, <1>5 DEF LeftOpen
<1>9. LeftOpen(t) => t.active
  <2>1. send = "alarm_raised" => kind # "alarm_cleared"
    BY <1>5 DEF Kinds
  <2> QED BY <1>3, <1>8, <2>1
<1>10. CASE open /\ kind = "alarm_cleared"
  <2>1. send = "alarm_cleared" /\ send # None /\ row \in Rows
    BY <1>5, <1>6, <1>10 DEF Kinds
  <2> QED BY <1>6, <1>7, <1>9, <2>1
<1>11. CASE ~open /\ send = None
  BY <1>5, <1>7, <1>8, <1>9, <1>11 DEF Kinds
<1>12. CASE (open /\ kind # "alarm_cleared") \/ (~open /\ send # None)
  BY <1>5, <1>8, <1>9, <1>12
<1> QED BY <1>10, <1>11, <1>12

LEMMA BeliefAlarm ==
    ASSUME OrderInv, FaultFree, Alarm, "alarm_cleared" \in NotifiesOn, MaxBatch = 1
    PROVE  FaultFree'
<1>0. /\ outbox \in Seq(Rows) /\ Len(outbox) \in Nat /\ Ids = 1 .. Len(outbox)
  BY RowFacts
<1>1. PICK t \in Changes(Begun) :
        /\ active' = t.active /\ open' = LeftOpen(t) /\ outbox' = outbox \o t.queued
        /\ enabled' = enabled /\ job' = job /\ mail' = mail /\ Pending(t.queued)
  <2>1. Transactions = Changes(Begun)
    BY DEF Transactions
  <2> QED BY <2>1, TransactionsStage DEF Alarm, Staged
<1>2. /\ Grows(outbox, outbox') /\ \A i \in Ids : outbox'[i] = outbox[i]
      /\ \A i \in Ids' : i \in Ids \/ outbox'[i].status = "pending"
  BY <1>0, <1>1, QueuedRows DEF Grows, Ids
<1>3. "pending" \notin Settled /\ \A i : InHand(i)' = InHand(i)
  BY <1>1 DEF Settled, InHand
<1>4. ToldIsSent' /\ ClearsDone' /\ VerdictsDue'
  <2>1. ToldIsSent'
    BY <1>1, <1>2, <1>3, ToldRests DEF FaultFree
  <2>2. ClearsDone'
    BY <1>1, <1>2, <1>3, ClearsRest DEF FaultFree
  <2>3. VerdictsDue'
    BY <1>1, <1>2, VerdictsRest DEF FaultFree
  <2> QED BY <2>1, <2>2, <2>3
<1>5. Standing'
  <2>1. enabled' /\ (open' => active')
    BY <1>1, OneChange DEF FaultFree, Standing
  <2>2. CASE t.queued = <<>> /\ ~open
    <3>1. outbox' = outbox
      BY <1>0, <1>1, <2>2, ConcatEmptySeq
    <3> QED BY <1>1, <2>1, <2>2, <3>1 DEF FaultFree, Standing
  <2>3. CASE LeftOpen(t)
    BY <1>1, <2>1, <2>3 DEF Standing
  <2>4. ASSUME NEW row \in Rows, t.queued = Append(<<>>, row), row.kind = "alarm_cleared"
        PROVE  Standing'
    <3>1. Len(t.queued) = 1 /\ t.queued[1] = row
      BY <2>4
    <3>2. /\ Len(outbox') = Len(outbox) + 1 /\ outbox'[Len(outbox) + 1] = row
      BY <1>0, <1>1, <3>1, ConcatProperties DEF Pending
    <3>3. Clear(outbox', Len(outbox'))
      BY <2>4, <3>2 DEF Clear
    <3> QED BY <2>1, <3>3 DEF Standing
  <2> QED BY <1>1, <2>2, <2>3, <2>4, OneChange
<1> QED BY <1>4, <1>5 DEF FaultFree

LEMMA BeliefTime == ASSUME OrderInv, FaultFree, Time PROVE FaultFree'
<1>0. /\ outbox' \in [1 .. Len(outbox) -> Rows] /\ job' = job /\ mail' = mail
      /\ \A i \in Ids : /\ outbox'[i].kind = outbox[i].kind
                        /\ outbox'[i].status = outbox[i].status
  BY TimeFacts
<1>1. outbox \in Seq(Rows) /\ Len(outbox) \in Nat /\ Ids = 1 .. Len(outbox)
  BY RowFacts
<1>2. Len(outbox') = Len(outbox)
  BY <1>0, <1>1, Rewritten
<1>3. Grows(outbox, outbox') /\ Ids' = Ids
  BY <1>0, <1>1, <1>2 DEF Grows, Ids
<1>4. (\A i : InHand(i)' = InHand(i)) /\ UNCHANGED condition
  BY <1>0 DEF InHand, Time, FallsDue, GoesStale
<1> QED BY <1>0, <1>3, <1>4, StandingRests, ToldRests, ClearsRest, VerdictsRest DEF FaultFree

LEMMA BeliefClaim == ASSUME OrderInv, FaultFree, NEW w \in Workers, Claim(w) PROVE FaultFree'
<1>0. PICK i \in Ids :
        /\ outbox' \in [1 .. Len(outbox) -> Rows] /\ ClaimedFrom(i)
        /\ job' = [job EXCEPT ![w] = [pc |-> "claimed", id |-> i, verdict |-> None]]
  BY ClaimFacts
<1>1. /\ outbox \in Seq(Rows) /\ Len(outbox) \in Nat /\ Ids = 1 .. Len(outbox)
      /\ mail' = mail /\ job[w].pc = "free" /\ UNCHANGED condition
      /\ job \in [Workers -> Jobs]
  BY RowFacts DEF Claim
<1>2. Len(outbox') = Len(outbox)
  BY <1>0, <1>1, Rewritten
<1>3. Grows(outbox, outbox') /\ Ids' = Ids
  BY <1>0, <1>1, <1>2 DEF Grows, Ids, ClaimedFrom
<1>4. job'[w].pc = "claimed" /\ \A x \in Workers : x # w => job'[x] = job[x]
  BY <1>0, <1>1
<1>5. \A k : InHand(k) => InHand(k)'
  BY <1>1, <1>4 DEF InHand
<1>6. "pending" \notin Settled /\ "sending" \notin Settled /\ "sent" \in Settled
  BY DEF Settled
<1>7. Standing'
  BY <1>0, <1>1, StandingRests DEF FaultFree, ClaimedFrom
<1>8. ToldIsSent'
  BY <1>0, <1>1, <1>5, <1>6, ToldRests DEF FaultFree, ClaimedFrom
<1>9. ClearsDone'
  <2>1. \A k \in Ids : outbox'[k].status \in Settled => outbox'[k].status = outbox[k].status
    BY <1>0, <1>6 DEF ClaimedFrom
  <2> QED BY <1>1, <1>3, <2>1, ClearsRest DEF FaultFree
<1>10. VerdictsDue'
  BY <1>1, <1>3, <1>4, VerdictsRest DEF FaultFree
<1> QED BY <1>7, <1>8, <1>9, <1>10 DEF FaultFree

\* A clear is skipped only if no start went out since the last one: whatever was
\* told of is down as sent by now, nobody else having anything in hand.
LEMMA SkippedIsUntold ==
    ASSUME OrderInv, FaultFree, NEW w \in Workers, job[w].pc = "claimed", job[w].id \in Ids,
           ~StartWasSent(job[w].id)
    PROVE  ~Started(outbox, mail, job[w].id)
<1> DEFINE i == job[w].id
<1> SUFFICES ASSUME Started(outbox, mail, i) PROVE FALSE
  OBVIOUS
<1>0. Ids = 1 .. Len(outbox) /\ Len(outbox) \in Nat
  BY RowFacts
<1>1. PICK n \in 1 .. i - 1 : Told(mail, n) /\ \A c \in n .. i - 1 : ~Clear(outbox, c)
  BY DEF Started
<1>2. n \in Ids /\ n \in n .. i - 1
  BY <1>0
<1>3. ~InHand(n)
  BY DEF InHand, OrderInv, OneHolds
<1>4. outbox[n].status = "sent" /\ outbox[n].kind # "alarm_cleared"
  BY <1>1, <1>2, <1>3 DEF FaultFree, ToldIsSent, Clear
<1>5. \A c \in LastClear(i) : c < n
  <2>1. \A c \in LastClear(i) : c \in 1 .. i - 1 /\ Clear(outbox, c)
    BY DEF LastClear, Clear
  <2> QED BY <1>0, <1>1, <2>1
<1> QED BY <1>4, <1>5 DEF StartWasSent

LEMMA BeliefDecide == ASSUME OrderInv, FaultFree, NEW w \in Workers, Decide(w) PROVE FaultFree'
<1>1. /\ job[w].pc = "claimed" /\ job[w].id \in Ids /\ outbox' = outbox /\ mail' = mail
      /\ UNCHANGED condition /\ outbox \in [1 .. Len(outbox) -> Rows] /\ Len(outbox) \in Nat
      /\ job \in [Workers -> Jobs]
  BY DecideFacts, RowFacts DEF Decide
<1>2. PICK v \in {"failed", "skipped", "suppressed", "send"}, j \in Jobs :
        /\ job' = [job EXCEPT ![w] = j] /\ j.id = job[w].id /\ j.verdict = v
        /\ j.pc = IF v = "send" THEN "sending" ELSE "decided"
        /\ \E overLimit \in BOOLEAN, off \in {"failed", "skipped"} :
                     v = Verdict(job[w].id, overLimit, off)
  BY DecideFacts
<1>3. job'[w] = j /\ \A x \in Workers : x # w => job'[x] = job[x]
  BY <1>1, <1>2
<1>4. ASSUME Clear(outbox, j.id), j.pc = "decided" PROVE ~Started(outbox, mail, j.id)
  <2>1. v # "send" /\ enabled
    BY <1>2, <1>4 DEF FaultFree, Standing
  <2>2. WhyNot(job[w].id)
    BY <1>2, <1>4, <2>1 DEF Verdict, Clear
  <2>3. ~StartWasSent(job[w].id)
    BY <1>2, <1>4, <2>2 DEF WhyNot, Clear
  <2> QED BY <1>1, <1>2, <2>3, SkippedIsUntold
<1>5. Grows(outbox, outbox') /\ Ids' = Ids /\ \A i \in Ids : outbox'[i] = outbox[i]
  BY <1>1 DEF Grows, Ids
<1>6. \A k : InHand(k) => InHand(k)'
  BY <1>1, <1>3 DEF InHand
<1>7. Standing' /\ ToldIsSent' /\ ClearsDone'
  BY <1>1, <1>5, <1>6, StandingRests, ToldRests, ClearsRest DEF FaultFree
<1>8. VerdictsDue'
  BY <1>1, <1>2, <1>3, <1>4, <1>5, VerdictsRest DEF FaultFree
<1> QED BY <1>7, <1>8 DEF FaultFree

\* The row sent is the newest that anything was sent of, and every clear settled
\* by then is older.
LEMMA BeliefSend == ASSUME OrderInv, StoryInv, FaultFree, NEW w \in Workers, Send(w) PROVE FaultFree'
<1>a. /\ job[w].pc = "sending" /\ outbox' = outbox /\ Ids = 1 .. Len(outbox)
      /\ Len(mail) \in Nat /\ Len(outbox) \in Nat /\ job \in [Workers -> Jobs]
      /\ outbox \in [1 .. Len(outbox) -> Rows] /\ UNCHANGED condition
  BY RowFacts, LenProperties DEF Send
<1>b. Grows(outbox, outbox') /\ Ids' = Ids
  BY <1>a DEF Grows, Ids
<1>0. /\ job[w].pc = "sending" /\ outbox' = outbox /\ Ids = 1 .. Len(outbox) /\ Ids' = Ids
      /\ Len(mail) \in Nat /\ Len(outbox) \in Nat /\ job \in [Workers -> Jobs]
      /\ outbox \in [1 .. Len(outbox) -> Rows] /\ UNCHANGED condition
      /\ Grows(outbox, outbox')
  BY <1>a, <1>b
<1>1. PICK j \in Jobs :
        /\ job' = [job EXCEPT ![w] = j] /\ j.id = job[w].id /\ j.pc = "decided"
        /\ \/ j.verdict = "retry" /\ mail' = mail
           \/ /\ j.verdict = "sent" /\ mail' = Append(mail, job[w].id)
              /\ Len(mail') = Len(mail) + 1 /\ mail'[Len(mail) + 1] = job[w].id
              /\ \A m \in 1 .. Len(mail) : mail'[m] = mail[m]
  BY SendFacts
<1>2. job'[w] = j /\ \A x \in Workers : x # w => job'[x] = job[x] /\ job[x].pc = "free"
  BY <1>0, <1>1 DEF OrderInv, OneHolds
<1>3. Standing'
  BY <1>0, StandingRests DEF FaultFree
<1>4. \A k : ~InHand(k)
  BY <1>0, <1>2 DEF InHand
<1>5. CASE j.verdict = "retry" /\ mail' = mail
  <2>1. ToldIsSent' /\ ClearsDone'
    BY <1>0, <1>4, <1>5, ToldRests, ClearsRest DEF FaultFree
  <2>2. VerdictsDue'
    BY <1>1, <1>2, <1>5 DEF VerdictsDue
  <2> QED BY <1>3, <2>1, <2>2 DEF FaultFree
<1>6. CASE /\ j.verdict = "sent" /\ Len(mail') = Len(mail) + 1
           /\ mail'[Len(mail) + 1] = job[w].id
           /\ \A m \in 1 .. Len(mail) : mail'[m] = mail[m]
  <2> DEFINE i == job[w].id
  <2>1. i \in Ids /\ outbox[i].status \notin Settled
    BY <1>0, MailIsOlder
  <2>2. \A n : Told(mail', n) => n = i \/ Told(mail, n)
    <3>1. \A m \in 1 .. Len(mail') : m \in 1 .. Len(mail) \/ m = Len(mail) + 1
      BY <1>0, <1>6
    <3> QED BY <1>6, <3>1 DEF Told
  <2>3. \A k : k = i => InHand(k)'
    BY <1>1, <1>2, <1>6 DEF InHand
  <2>4. ToldIsSent'
    <3> SUFFICES ASSUME NEW k \in Ids, Told(mail', k)
                 PROVE  outbox[k].status = "sent" \/ InHand(k)'
      BY <1>0 DEF ToldIsSent
    <3>1. CASE k = i
      BY <2>3, <3>1
    <3>2. CASE k # i
      BY <1>4, <2>2, <3>2 DEF FaultFree, ToldIsSent
    <3> QED BY <3>1, <3>2
  <2>5. VerdictsDue'
    BY <1>2, <1>6 DEF VerdictsDue
  <2>6. ASSUME NEW k \in Ids, outbox[k].status \in Settled, Started(outbox, mail', k)
        PROVE  Started(outbox, mail, k)
    <3>1. Cleared(outbox, k)
      BY <2>6 DEF StoryInv, OldestFirst
    <3>2. ~(i \in 1 .. k - 1)
      BY <2>1, <3>1 DEF Cleared
    <3> QED BY <2>2, <2>6, <3>2 DEF Started
  <2>7. ClearsDone'
    BY <1>0, <2>6 DEF FaultFree, ClearsDone
  <2> QED BY <1>3, <2>4, <2>5, <2>7 DEF FaultFree
<1> QED BY <1>1, <1>5, <1>6

LEMMA BeliefRecord == ASSUME OrderInv, FaultFree, NEW w \in Workers, Record(w) PROVE FaultFree'
<1> DEFINE i == job[w].id
<1>0. /\ outbox \in Seq(Rows) /\ Len(outbox) \in Nat /\ Ids = 1 .. Len(outbox)
      /\ UNCHANGED condition
  BY RowFacts DEF Record
<1>1. /\ outbox' \in [1 .. Len(outbox) -> Rows] /\ mail' = mail
      /\ \A x \in Workers : job'[x].pc = "free"
      /\ job[w].pc = "decided" /\ i \in Ids /\ outbox[i].status = "sending"
      /\ \A j \in Ids : /\ outbox'[j].kind = outbox[j].kind
                        /\ j # i => outbox'[j].status = outbox[j].status
      /\ outbox'[i].status = IF job[w].verdict = "retry" THEN "pending" ELSE job[w].verdict
  BY RecordFacts
<1>2. Len(outbox') = Len(outbox)
  BY <1>0, <1>1, Rewritten
<1>3. Grows(outbox, outbox') /\ Ids' = Ids
  BY <1>0, <1>1, <1>2 DEF Grows, Ids
<1>4. \A k \in Ids : InHand(k) => k = i /\ outbox'[k].status = "sent"
  BY <1>1 DEF InHand, OrderInv, OneHolds
<1>5. "pending" \notin Settled
  BY DEF Settled
<1>6. Standing'
  BY <1>0, <1>1, StandingRests DEF FaultFree
<1>7. ToldIsSent'
  BY <1>1, <1>4, ToldRests DEF FaultFree
<1>8. ClearsDone'
  <2>1. outbox'[i].status \in Settled =>
          outbox'[i].status = "sent" \/ ~(Clear(outbox, i) /\ Started(outbox, mail, i))
    BY <1>1, <1>5 DEF FaultFree, VerdictsDue
  <2> QED BY <1>1, <1>3, <2>1, ClearsRest DEF FaultFree
<1>9. VerdictsDue'
  BY <1>1 DEF VerdictsDue
<1> QED BY <1>6, <1>7, <1>8, <1>9 DEF FaultFree

LEMMA BeliefInitially == Init => BeliefInv
<1> SUFFICES ASSUME Init PROVE BeliefInv
  OBVIOUS
<1>1. /\ enabled /\ ~open /\ Len(outbox) = 0 /\ Ids = {} /\ faults \in Nat
      /\ \A w \in Workers : job[w].pc = "free"
  BY DEF Init, Free, Ids
<1> QED BY <1>1 DEF BeliefInv, FaultFree, Standing, ToldIsSent, ClearsDone, VerdictsDue

\* A fault counts as one, and every other step keeps the account.
LEMMA BeliefKept ==
    ASSUME OrderInv, StoryInv, BeliefInv, [Next]_vars,
           "alarm_cleared" \in NotifiesOn, MaxBatch = 1
    PROVE  BeliefInv'
<1>0. faults \in Nat /\ (faults = 0 => FaultFree)
  BY DEF BeliefInv
<1>1. CASE Prune \/ Switch \/ \E w \in Workers : Refuse(w) \/ Die(w)
  <2>1. faults' = faults + 1
    BY <1>1 DEF Prune, Switch, Refuse, Die
  <2> QED BY <1>0, <2>1 DEF BeliefInv
<1>2. ASSUME faults' = faults, FaultFree => FaultFree' PROVE BeliefInv'
  BY <1>0, <1>2 DEF BeliefInv
<1>3. CASE Alarm
  <2>1. faults' = faults
    BY <1>3, QueuedFacts
  <2> QED BY <1>2, <1>3, <2>1, BeliefAlarm
<1>4. CASE Time
  <2>1. faults' = faults
    BY <1>4 DEF Time, FallsDue, GoesStale
  <2> QED BY <1>2, <1>4, <2>1, BeliefTime
<1>5. ASSUME NEW w \in Workers, Run(w) PROVE BeliefInv'
  <2>1. faults' = faults
    BY <1>5 DEF Run, Claim, Decide, Send, Record
  <2>2. FaultFree => FaultFree'
    BY <1>5, BeliefClaim, BeliefDecide, BeliefSend, BeliefRecord DEF Run
  <2> QED BY <1>2, <2>1, <2>2
<1>6. CASE UNCHANGED vars
  <2>1. faults' = faults /\ FaultFree' = FaultFree
    BY <1>6 DEF vars, FaultFree, Standing, ToldIsSent, ClearsDone, VerdictsDue, Ids, InHand
  <2> QED BY <1>2, <2>1
<1> QED BY <1>1, <1>3, <1>4, <1>5, <1>6 DEF Next

LEMMA SmallestOf ==
    ASSUME NEW S \in SUBSET Nat, S # {} PROVE \E k \in S : \A m \in S : k <= m
<1>1. PICK k \in S : \A m \in S : ~(<<m, k>> \in OpToRel(<, Nat))
  BY NatLessThanWellFounded, WFMin
<1>2. ASSUME NEW m \in S PROVE k <= m
  <2>1. ~(m < k) /\ m \in Nat /\ k \in Nat
    BY <1>1 DEF OpToRel
  <2> QED BY <2>1
<1> QED BY <1>2

\* Once the condition is over and every row is settled, the last email is of its
\* end: after a start there is a clear, and the first of those was sent.
LEMMA LastWordIsTheEnd == OrderInv /\ StoryInv /\ BeliefInv => NobodyLeftBelieving
<1> DEFINE last == mail[Len(mail)]
           later == {c \in Ids : last < c /\ Clear(outbox, c)}
<1> SUFFICES ASSUME OrderInv, StoryInv, FaultFree, ~active, mail # <<>>, ~Clear(outbox, last),
                    \A i \in Ids : outbox[i].status \in Settled
             PROVE  FALSE
  BY DEF BeliefInv, NobodyLeftBelieving, Clear
<1>0. /\ Ids = 1 .. Len(outbox) /\ Len(outbox) \in Nat /\ mail \in Seq(Nat)
      /\ Len(mail) \in Nat
  BY RowFacts, LenProperties
<1>1. Len(mail) \in 1 .. Len(mail)
  BY <1>0, EmptySeq
<1>2. last \in Ids /\ Told(mail, last)
  BY <1>0, <1>1 DEF OrderInv, MailIsCleared, Undelivered, Told
<1> HIDE DEF last
<1>3. Len(outbox) \in later
  <2>1. Clear(outbox, Len(outbox)) /\ Len(outbox) \in Ids
    BY <1>0, <1>2 DEF FaultFree, Standing
  <2> QED BY <1>0, <1>2, <2>1
<1>4. PICK c \in later : \A d \in later : c <= d
  <2>1. later \in SUBSET Nat /\ later # {}
    BY <1>0, <1>3
  <2> HIDE DEF later
  <2> QED BY <2>1, SmallestOf
<1>5. c \in Ids /\ last < c /\ Clear(outbox, c)
  OBVIOUS
<1>6. Started(outbox, mail, c)
  <2>1. last \in 1 .. c - 1
    BY <1>0, <1>2, <1>5
  <2>2. ASSUME NEW d \in last .. c - 1, Clear(outbox, d) PROVE FALSE
    <3>1. d \in Ids /\ d # last /\ ~(c <= d)
      BY <1>0, <1>2, <1>5, <2>2
    <3>2. last < d
      BY <1>0, <1>2, <3>1
    <3> QED BY <1>4, <2>2, <3>1, <3>2
  <2> QED BY <1>2, <2>1, <2>2 DEF Started
<1>7. outbox[c].status = "sent"
  BY <1>5, <1>6 DEF FaultFree, ClearsDone
<1>8. PICK m \in 1 .. Len(mail) : mail[m] = c
  BY <1>5, <1>7 DEF StoryInv, SentIsTold, Told
<1>9. mail[m] <= last
  BY <1>0, <1>1 DEF StoryInv, Sorted, last
<1> QED BY <1>0, <1>2, <1>5, <1>8, <1>9

\* Without deaths, refusals, prunings or email turned off in the meantime, nobody
\* is left believing that a condition lasts which is over, if the rule reports
\* clears and no transaction changes the condition twice.
THEOREM NobodyIsLeftBelieving ==
    ASSUME "stall" \notin Faults, "alarm_cleared" \in NotifiesOn, MaxBatch = 1
    PROVE  Spec => []NobodyLeftBelieving
<1>1. Init => OrderInv /\ StoryInv /\ BeliefInv
  BY OrderInitially, StoryInitially, BeliefInitially
<1>2. OrderInv /\ StoryInv /\ BeliefInv /\ [Next]_vars => OrderInv' /\ StoryInv' /\ BeliefInv'
  BY OrderKept, StoryKept, BeliefKept
<1>3. OrderInv /\ StoryInv /\ BeliefInv => NobodyLeftBelieving
  BY LastWordIsTheEnd
<1> QED BY <1>1, <1>2, <1>3, PTL DEF Spec
=============================================================================
