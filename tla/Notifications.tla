--------------------------- MODULE Notifications ---------------------------
(* Emails about alarms (app/notifications): what one rule's outbox holds for  *)
(* one condition.  The alarm's transaction queues rows (outbox.py); the        *)
(* Notifier of every ingest worker claims, decides, sends and records them     *)
(* (dispatcher.py).  The decision, the delivery and the record are separate    *)
(* steps, between which the alarm moves on, other workers run, and this one    *)
(* may die.                                                                    *)
(*                                                                             *)
(* Other conditions of the rule appear only through its hourly limit, which    *)
(* may or may not be used up when a row is decided.                            *)
EXTENDS Naturals, Sequences

CONSTANTS
    Workers, None,
    Delayed,       \* the rule's policy holds its first email for a while
    NotifiesOn,    \* notify_on_clear, notify_on_escalation: the follow-ups it sends
    MaxAttempts,   \* MAX_ATTEMPTS
    Faults,        \* which of "die", "stall", "refuse", "off", "prune" may happen
    MaxBatch,      \* changes of the condition that one transaction may hold
    MaxFaults, MaxRows, MaxEpisodes   \* bounds
Kinds == {"alarm_raised", "alarm_escalated", "alarm_cleared"}
ASSUME NotificationsAssumption ==
    /\ None \notin Workers \cup Kinds /\ NotifiesOn \subseteq Kinds \ {"alarm_raised"}
    /\ MaxAttempts \in Nat \ {0} /\ MaxBatch \in 1 .. 4
    /\ {MaxFaults, MaxRows, MaxEpisodes} \subseteq Nat

VARIABLES
    active,    \* the condition's alarm is not CLEARED
    episode,   \* the alarm row the condition has or last had
    open,      \* notification_open holds the condition
    enabled,   \* the rule, and email, are turned on
    outbox,    \* notification_outbox, by id
    job,       \* what each worker has in hand
    mail,      \* the emails that left, as ids of outbox rows
    faults
vars == <<active, episode, open, enabled, outbox, job, mail, faults>>
condition == <<active, episode, open, enabled>>

Ids == 1 .. Len(outbox)
Settled == {"sent", "failed", "skipped", "suppressed", "pruned"}
Row == [kind : Kinds, of : Nat, status : Settled \cup {"pending", "sending"},
        due : BOOLEAN, stale : BOOLEAN, attempts : 0 .. MaxAttempts]
Free == [pc |-> "free", id |-> 0, verdict |-> None]

Init ==
    /\ active = FALSE /\ episode = 0 /\ open = FALSE /\ enabled = TRUE
    /\ outbox = <<>> /\ mail = <<>> /\ faults = 0
    /\ job = [w \in Workers |-> Free]

-----------------------------------------------------------------------------
(* enqueue_actions, in the transaction that changes the alarm.  A batch of      *)
(* events or of measurements may change it several times before it commits.    *)

(* What a transaction starts from: `queued` holds its rows, `open` what it     *)
(* takes to be open, `opened` and `closed` what it will write of that.         *)
Begun == [active |-> active, episode |-> episode, open |-> open,
          opened |-> FALSE, closed |-> FALSE, queued |-> <<>>]

(* What the rule sends of a change; admitted is what its policy says. *)
SendKind(t, kind, admitted) ==
    CASE ~enabled -> None
      [] enabled /\ t.open -> IF kind \in NotifiesOn THEN kind ELSE None
      [] OTHER -> IF kind # "alarm_cleared" /\ admitted THEN "alarm_raised" ELSE None
(* A transaction queues one row of a kind, the first. *)
Queue(t, row) ==
    IF row.kind = None \/ \E r \in DOMAIN t.queued : t.queued[r].kind = row.kind
    THEN t.queued ELSE Append(t.queued, row)
Change(t, kind, admitted) ==
    LET send == SendKind(t, kind, admitted)
        of == IF kind = "alarm_raised" THEN t.episode + 1 ELSE t.episode
        row == [kind |-> send, of |-> of, status |-> "pending", stale |-> FALSE,
                attempts |-> 0, due |-> send # "alarm_raised" \/ ~Delayed]
        ends == enabled /\ t.open /\ kind = "alarm_cleared"
    IN [active |-> kind # "alarm_cleared", episode |-> of,
        open |-> (t.open \/ send = "alarm_raised") /\ ~ends,
        opened |-> t.opened \/ send = "alarm_raised",
        closed |-> t.closed \/ ends,
        queued |-> Queue(t, row)]
Changes(t) ==
    {Change(t, kind, admitted) :
        kind \in IF t.active THEN {"alarm_escalated", "alarm_cleared"} ELSE {"alarm_raised"},
        admitted \in BOOLEAN}
Changed(batch) == UNION {Changes(t) : t \in batch}
(* Every transaction of at most MaxBatch changes. *)
Transactions ==
    LET once == Changes(Begun)
        twice == once \cup Changed(once)
        thrice == twice \cup Changed(twice)
    IN CASE MaxBatch = 1 -> once
         [] MaxBatch = 2 -> twice
         [] MaxBatch = 3 -> thrice
         [] OTHER -> thrice \cup Changed(thrice)

(* notification_open: what closed is deleted, and then what opened inserted. *)
LeftOpen(t) == t.opened \/ (open /\ ~t.closed)
Alarm ==
    \E t \in Transactions :
        /\ Len(outbox) + Len(t.queued) <= MaxRows /\ t.episode <= MaxEpisodes
        /\ active' = t.active /\ episode' = t.episode /\ open' = LeftOpen(t)
        /\ outbox' = outbox \o t.queued
        /\ UNCHANGED <<enabled, job, mail, faults>>

-----------------------------------------------------------------------------
(* Notifier.run_once.                                                         *)

ReleasedNever == outbox   \* mutant: a claim is for ever
Released ==
    [i \in Ids |-> IF outbox[i].status = "sending" /\ outbox[i].stale
                   THEN [outbox[i] EXCEPT !.status = "pending", !.stale = FALSE]
                   ELSE outbox[i]]
ClaimableAny(rows, i) == rows[i].status = "pending" /\ rows[i].due   \* mutant
(* _CLAIM refuses a row with an older unfinished sibling. *)
Claimable(rows, i) ==
    /\ rows[i].status = "pending" /\ rows[i].due
    /\ \A e \in 1 .. i - 1 : rows[e].status \notin {"pending", "sending"}
Claim(w) ==
    /\ job[w].pc = "free"
    /\ \E i \in Ids :
         /\ Claimable(Released, i)
         /\ outbox' = [Released EXCEPT ![i].status = "sending", ![i].stale = FALSE]
         /\ job' = [job EXCEPT ![w] = [pc |-> "claimed", id |-> i, verdict |-> None]]
    /\ UNCHANGED <<condition, mail, faults>>

(* _why_not: for a clear, a start sent since the clear before it. *)
LastClear(i) == {c \in 1 .. i - 1 : outbox[c].kind = "alarm_cleared"
                                    /\ outbox[c].status # "pruned"}
(* Mutant: a start sent at any time will do. *)
StartWasEverSent(i) ==
    \E n \in 1 .. i - 1 : outbox[n].kind # "alarm_cleared" /\ outbox[n].status = "sent"
StartWasSent(i) ==
    \E n \in 1 .. i - 1 :
        /\ outbox[n].kind # "alarm_cleared" /\ outbox[n].status = "sent"
        /\ \A c \in LastClear(i) : c < n
WhyNot(i) ==
    CASE outbox[i].kind = "alarm_cleared" -> ~StartWasSent(i)
      [] outbox[i].kind = "alarm_raised" -> ~(active /\ outbox[i].of = episode)
      [] OTHER -> FALSE
(* Mutant: the hourly limit holds back clears too. *)
VerdictLimitsAll(i, overLimit, off) ==
    CASE ~enabled -> off
      [] enabled /\ WhyNot(i) -> "skipped"
      [] enabled /\ ~WhyNot(i) /\ overLimit -> "suppressed"
      [] OTHER -> "send"
(* The reasons not to send, in the order they are asked: that email is off     *)
(* fails a row, that its rule is off skips it.                                 *)
Verdict(i, overLimit, off) ==
    CASE ~enabled -> off
      [] enabled /\ WhyNot(i) -> "skipped"
      [] enabled /\ ~WhyNot(i) /\ outbox[i].kind # "alarm_cleared" /\ overLimit -> "suppressed"
      [] OTHER -> "send"
Decide(w) ==
    /\ job[w].pc = "claimed"
    /\ \E overLimit \in BOOLEAN, off \in {"failed", "skipped"} :
         LET v == Verdict(job[w].id, overLimit, off) IN
         job' = [job EXCEPT ![w].verdict = v,
                            ![w].pc = IF v = "send" THEN "sending" ELSE "decided"]
    /\ UNCHANGED <<condition, outbox, mail, faults>>

(* smtp.send_batch: the relay takes the message, or refuses it for now. *)
Send(w) ==
    /\ job[w].pc = "sending"
    /\ \E result \in {"sent", "retry"} :
         /\ job' = [job EXCEPT ![w].verdict = result, ![w].pc = "decided"]
         /\ result = "retry" => outbox[job[w].id].attempts + 1 < MaxAttempts
         /\ mail' = IF result = "sent" THEN Append(mail, job[w].id) ELSE mail
    /\ UNCHANGED <<condition, outbox, faults>>
(* It refuses for good, or for the last of MAX_ATTEMPTS times. *)
Refuse(w) ==
    /\ "refuse" \in Faults /\ faults < MaxFaults /\ faults' = faults + 1
    /\ job[w].pc = "sending"
    /\ job' = [job EXCEPT ![w].verdict = "failed", ![w].pc = "decided"]
    /\ UNCHANGED <<condition, outbox, mail>>

(* The outcome is written to the row whatever has become of it meanwhile. *)
Record(w) ==
    LET i == job[w].id
        row == outbox[i]
    IN
    /\ job[w].pc = "decided"
    /\ outbox' = [outbox EXCEPT ![i] =
          IF job[w].verdict = "retry"
          THEN [row EXCEPT !.status = "pending", !.attempts = row.attempts + 1,
                           !.due = FALSE, !.stale = FALSE]
          ELSE [row EXCEPT !.status = job[w].verdict, !.stale = FALSE]]
    /\ job' = [job EXCEPT ![w] = Free]
    /\ UNCHANGED <<condition, mail, faults>>

(* _prune: settled rows of KEEP_DAYS ago, unless the condition is still open. *)
Prune ==
    /\ "prune" \in Faults /\ faults < MaxFaults /\ faults' = faults + 1
    /\ ~open
    /\ \E cutoff \in Ids :
         outbox' = [i \in Ids |-> IF i <= cutoff /\ outbox[i].status \in Settled
                                  THEN [outbox[i] EXCEPT !.status = "pruned"] ELSE outbox[i]]
    /\ outbox' # outbox
    /\ UNCHANGED <<condition, job, mail>>

-----------------------------------------------------------------------------
(* Time, operators and crashes.                                               *)

FallsDue(i) ==
    /\ outbox[i].status = "pending" /\ ~outbox[i].due
    /\ outbox' = [outbox EXCEPT ![i].due = TRUE]
    /\ UNCHANGED <<condition, job, mail, faults>>
(* STALE_CLAIM_S over: the worker has died, or, where stalls happen, is slow. *)
GoesStale(i) ==
    /\ outbox[i].status = "sending" /\ ~outbox[i].stale
    /\ "stall" \in Faults \/ \A w \in Workers : job[w].id # i
    /\ outbox' = [outbox EXCEPT ![i].stale = TRUE]
    /\ UNCHANGED <<condition, job, mail, faults>>
Switch ==
    /\ "off" \in Faults /\ faults < MaxFaults /\ faults' = faults + 1
    /\ enabled' = ~enabled
    /\ UNCHANGED <<active, episode, open, outbox, job, mail>>
Die(w) ==
    /\ "die" \in Faults /\ faults < MaxFaults /\ faults' = faults + 1
    /\ job[w].pc # "free"
    /\ job' = [job EXCEPT ![w] = Free]
    /\ UNCHANGED <<condition, outbox, mail>>

Run(w) == Claim(w) \/ Decide(w) \/ Send(w) \/ Record(w)
Time == \E i \in Ids : FallsDue(i) \/ GoesStale(i)
Next ==
    \/ Alarm \/ Time \/ Prune \/ Switch
    \/ \E w \in Workers : Run(w) \/ Refuse(w) \/ Die(w)
Spec == Init /\ [][Next]_vars
(* Every worker's tick comes round, and time passes. *)
FairSpec == Spec /\ WF_vars(Time) /\ \A w \in Workers : WF_vars(Run(w))

-----------------------------------------------------------------------------
(* The outbox, the workers and the rule keep their shape. *)
NotificationsTypeOK ==
    /\ active \in BOOLEAN /\ open \in BOOLEAN /\ enabled \in BOOLEAN
    /\ episode \in Nat /\ outbox \in Seq(Row) /\ mail \in Seq(Ids)
    /\ faults \in 0 .. MaxFaults
    /\ \A w \in Workers : job[w].id \in Ids \cup {0}
                          /\ (job[w].pc = "free") = (job[w].id = 0)

(* "A clear can never overtake the raise it closes, even with two workers       *)
(* claiming at once": emails leave in the order they were queued, one that is    *)
(* sent again after a crash included.                                            *)
MailInOrder == \A m \in 1 .. Len(mail) - 1 : mail[m] <= mail[m + 1]

(* Nobody is told that something ended who was not told that it started: before  *)
(* a clear's email went one of a raise or an escalation, and no other clear      *)
(* since.                                                                        *)
ClearFollowsStart ==
    \A m \in 1 .. Len(mail) : outbox[mail[m]].kind = "alarm_cleared" =>
        \E n \in 1 .. m - 1 : /\ outbox[mail[n]].kind # "alarm_cleared"
                              /\ \A c \in n .. m - 1 : mail[c] = mail[m]
                                   \/ outbox[mail[c]].kind # "alarm_cleared"

(* Once the queue is empty and the condition is over, whoever was told that it   *)
(* started has been told that it ended - as long as the rule reports clears, no  *)
(* worker died, no message was refused, and nobody turned email off.             *)
NobodyLeftBelieving ==
    faults = 0 /\ ~active /\ mail # <<>> /\ (\A i \in Ids : outbox[i].status \in Settled)
        => outbox[mail[Len(mail)]].kind = "alarm_cleared"

(* "notification_open holds the conditions a rule has emailed about (or is about *)
(* to)": once the queue is empty, of a condition that is held open a start was   *)
(* sent, or recorded as over the hourly limit, and no clear since.  It holds     *)
(* only while no transaction raises and clears the condition.                    *)
OpenIsTold ==
    faults = 0 /\ open /\ (\A i \in Ids : outbox[i].status \in Settled)
        => \E i \in Ids : /\ outbox[i].kind # "alarm_cleared"
                          /\ outbox[i].status \in {"sent", "suppressed"}
                          /\ \A c \in Ids : c > i => outbox[c].kind # "alarm_cleared"

(* Every queued row is sent or given a reason why not. *)
EveryRowSettles ==
    \A i \in 1 .. MaxRows :
        (i \in Ids) ~> (i \in Ids /\ outbox[i].status \in Settled)
=============================================================================
