------------------------------ MODULE Tickets ------------------------------
(* Alarms as Jira issues (app/integrations), for one condition (fingerprint)   *)
(* and one integration.  The alarm's transaction queues rows (outbox.py); the   *)
(* Dispatcher of every ingest worker claims them, reads the link, calls Jira     *)
(* and commits what came of it (dispatcher.py, jira/target.py); what people do   *)
(* in Jira comes back as events that any worker applies (inbox.py).  Each        *)
(* transaction and each call is a step, between which the alarm moves on, people *)
(* touch the issue, other workers run, and this one may die.                     *)
(*                                                                              *)
(* Other conditions appear only through the storm brake, which may hold back a   *)
(* new issue.  Texts, priorities and fields are left out: a comment changes      *)
(* nothing here.  Jira's search is taken to find a labelled issue by the time   *)
(* its row is tried again.                                                      *)
EXTENDS Naturals, Sequences, FiniteSets, FiniteSetsExt

CONSTANTS
    Workers, None,
    MaxAttempts,    \* max_attempts
    InboundAttempts,   \* INBOUND_ATTEMPTS
    Transition,     \* close_on_clear is "transition"
    Reopens,        \* from every status the workflow has a way to one that is not Done
    Desks,          \* is_servicedesk, when an issue is created
    Faults,         \* of "die", "lost", "refuse", "reject", "storm", "off", "key",
                    \* "garble", "trip", "stall"
    People,         \* of "done", "decline", "reopen", "progress", "delete", "revive"
    MaxFaults, MaxTouches, MaxRows, MaxEpisodes   \* bounds
Link == [key : Nat, closed : BOOLEAN, old : BOOLEAN, wont : BOOLEAN]
ASSUME TicketsAssumption ==
    /\ None \notin Workers /\ None \notin Link /\ {Transition, Reopens} \cup Desks \subseteq BOOLEAN
    /\ {MaxAttempts, InboundAttempts} \subseteq Nat \ {0}
    /\ {MaxFaults, MaxTouches, MaxRows, MaxEpisodes} \subseteq Nat

VARIABLES
    active, episode, acked,   \* the condition's alarm: not CLEARED, its number, ACKNOWLEDGED
    enabled,                  \* the integration is enabled
    outbox,                   \* integration_outbox, by id
    link,                     \* jira_link of the fingerprint
    issues,                   \* the condition's issues in Jira, by key
    inbox,                    \* integration_inbox, by id
    job,                      \* what each worker has in hand
    faults, touches
alarm == <<active, episode, acked>>
bounds == <<faults, touches>>
vars == <<alarm, enabled, outbox, link, issues, inbox, job, bounds>>

Ids == 1 .. Len(outbox)
Events == 1 .. Len(inbox)
Keys == 1 .. Len(issues)
Pcs == {"free", "claimed", "next", "search", "call", "label", "commit", "retry", "dead", "inbound"}
Row == [kind : {"alarm_raised", "alarm_escalated", "alarm_cleared"}, of : Nat,
        state : {"pending", "done", "dead"}, claimed : BOOLEAN, stale : BOOLEAN,
        due : BOOLEAN, attempts : Nat, revived : BOOLEAN]
Issue == [status : {"open", "done", "gone"}, by : Nat, over : BOOLEAN, labelled : BOOLEAN]
Event == [action : {"acknowledge", "declined", "moved", "orphaned"}, key : Nat,
          state : {"pending", "done", "dead"}, attempts : Nat, bad : BOOLEAN]
Sent(key, action) ==
    [action |-> action, key |-> key, state |-> "pending", attempts |-> 0, bad |-> FALSE]

(* A worker's pass: the rows it claimed and has not come to, the one in hand    *)
(* with the attempt it is on, the link it read, and what to write to it.        *)
Free == [pc |-> "free", rows |-> {}, row |-> 0, link |-> None, update |-> None]

Init ==
    /\ active = FALSE /\ episode = 0 /\ acked = FALSE /\ enabled = TRUE
    /\ outbox = <<>> /\ link = None /\ issues = <<>> /\ inbox = <<>>
    /\ job = [w \in Workers |-> Free]
    /\ faults = 0 /\ touches = 0
Fault(f) == f \in Faults /\ faults < MaxFaults /\ faults' = faults + 1 /\ UNCHANGED touches

-----------------------------------------------------------------------------
(* enqueue_actions, in the transaction that changes the alarm.                 *)

(* A condition whose ticket is open is followed whatever the policy says; any   *)
(* other is ticketed if the policy admits it, and its clear is not.             *)
FollowUp == link # None /\ ~link.closed
Enqueue(kind, of) ==
    /\ \E admitted \in BOOLEAN :
         outbox' = IF enabled /\ (FollowUp \/ (kind # "alarm_cleared" /\ admitted))
                   THEN Append(outbox, [kind |-> kind, of |-> of, state |-> "pending",
                                        claimed |-> FALSE, stale |-> FALSE, due |-> TRUE,
                                        attempts |-> 0, revived |-> FALSE])
                   ELSE outbox
    /\ UNCHANGED <<enabled, link, issues, inbox, job, bounds>>
RaiseAlarm ==
    /\ ~active /\ Len(outbox) < MaxRows /\ episode < MaxEpisodes
    /\ active' = TRUE /\ episode' = episode + 1 /\ acked' = FALSE
    /\ Enqueue("alarm_raised", episode + 1)
Escalate ==
    /\ active /\ Len(outbox) < MaxRows
    /\ Enqueue("alarm_escalated", episode)
    /\ UNCHANGED alarm
ClearAlarm ==
    /\ active /\ Len(outbox) < MaxRows
    /\ active' = FALSE
    /\ Enqueue("alarm_cleared", episode)
    /\ UNCHANGED <<episode, acked>>

-----------------------------------------------------------------------------
(* Dispatcher.run_once: claim, then one row after another.                     *)

ReleasedNever == outbox   \* mutant: a claim is for ever
(* release_stale_claims, when the worker's reap comes round. *)
Released ==
    [i \in Ids |-> IF outbox[i].state = "pending" /\ outbox[i].stale
                   THEN [outbox[i] EXCEPT !.claimed = FALSE, !.stale = FALSE] ELSE outbox[i]]
ClaimableAny(rows, i) == rows[i].state = "pending" /\ rows[i].due   \* mutant
Claimable(rows, i) == rows[i].state = "pending" /\ rows[i].due /\ ~rows[i].claimed
(* repo.claim: all that is due, counted as an attempt before it is made. *)
Claim(w) ==
    LET due == {i \in Ids : Claimable(Released, i)}
        taken == [i \in Ids |-> IF i \notin due THEN Released[i]
                    ELSE [Released[i] EXCEPT !.claimed = TRUE, !.stale = FALSE,
                                             !.attempts = Released[i].attempts + 1]]
    IN
    /\ job[w].pc = "free" /\ due # {}
    /\ outbox' = taken
    /\ job' = [job EXCEPT ![w] = [Free EXCEPT !.pc = "claimed",
                 !.rows = {[id |-> i, attempts |-> taken[i].attempts] : i \in due}]]
    /\ UNCHANGED <<alarm, enabled, link, issues, inbox, bounds>>

(* mark_done and mark_dead; mark_retry. *)
Settled(i, state) == [outbox[i] EXCEPT !.state = state, !.claimed = FALSE, !.stale = FALSE]
PutOff(i, attempts) == [outbox[i] EXCEPT !.due = FALSE, !.claimed = FALSE, !.stale = FALSE,
                                         !.attempts = attempts]

(* _deliver_group's first transaction: the link is read once for the group. *)
Open(w) ==
    /\ job[w].pc = "claimed"
    /\ IF enabled
       THEN /\ job' = [job EXCEPT ![w].pc = "next", ![w].link = link]
            /\ UNCHANGED outbox
       ELSE /\ outbox' = [i \in Ids |-> IF \E r \in job[w].rows : r.id = i
                                            THEN Settled(i, "done") ELSE outbox[i]]
            /\ job' = [job EXCEPT ![w] = Free]
    /\ UNCHANGED <<alarm, enabled, link, issues, inbox, bounds>>

(* _target_for raises for want of a usable credential, outside the rows' own    *)
(* try: the pass is over, and its rows stay claimed until they are stale.      *)
Unusable(w) ==
    /\ job[w].pc = "claimed" /\ enabled /\ Fault("key")
    /\ job' = [job EXCEPT ![w] = Free]
    /\ UNCHANGED <<alarm, enabled, outbox, link, issues, inbox>>

(* The worker goes on with the rows it has left. *)
Onwards(pass) == IF pass.rows = {} THEN Free ELSE [pass EXCEPT !.pc = "next", !.row = 0]

(* _deliver_one before the call, on whichever row the database returned next.   *)
(* A create that has waited RECHECK_AFTER_S, as any may have, is dropped if its  *)
(* alarm is over; the storm brake puts one off without counting the attempt, and *)
(* ends the group.                                                               *)
Creating(pass, i) ==
    /\ outbox[i].kind # "alarm_cleared"
    /\ pass.link # None => pass.link.closed
Over(i) == ~(active /\ outbox[i].of = episode)
Pick(w) ==
    /\ job[w].pc = "next"
    /\ \E r \in job[w].rows, waited \in BOOLEAN :
         LET pass == [job[w] EXCEPT !.rows = job[w].rows \ {r}, !.row = r] IN
         IF Creating(pass, r.id) /\ waited /\ Over(r.id)
         THEN /\ outbox' = [outbox EXCEPT ![r.id] = Settled(r.id, "done")]
              /\ job' = [job EXCEPT ![w] = Onwards(pass)]
         ELSE /\ job' = [job EXCEPT ![w] = [pass EXCEPT
                   !.pc = IF pass.link = None /\ r.attempts > 1 THEN "search" ELSE "call"]]
              /\ UNCHANGED outbox
    /\ UNCHANGED <<alarm, enabled, link, issues, inbox, bounds>>
Hold(w) ==
    /\ job[w].pc = "next" /\ Fault("storm")
    /\ \E r \in job[w].rows :
         /\ Creating(job[w], r.id)
         /\ outbox' = [outbox EXCEPT ![r.id] = PutOff(r.id, outbox[r.id].attempts - 1)]
    /\ job' = [job EXCEPT ![w] = Free]
    /\ UNCHANGED <<alarm, enabled, link, issues, inbox>>

-----------------------------------------------------------------------------
(* IssueTarget.handle.                                                         *)

(* _find_by_fingerprint: the newest issue with the label, taken to be open. *)
FoundNone == {}   \* mutant: no recovery search
Found == {k \in Keys : issues[k].labelled /\ issues[k].status # "gone"}
Search(w) ==
    /\ job[w].pc = "search"
    /\ job' = [job EXCEPT ![w].pc = "call",
                          ![w].link = IF Found = {} THEN None
                                      ELSE [key |-> Max(Found), closed |-> FALSE,
                                            old |-> FALSE, wont |-> FALSE]]
    /\ UNCHANGED <<alarm, enabled, outbox, link, issues, inbox, bounds>>

(* What the row asks of Jira, given the link the worker read. *)
OnOpen(clear) == IF clear /\ Transition THEN "close" ELSE "comment"
OnClosed(clear, l) ==
    CASE clear -> "comment"
      [] ~clear /\ (l.wont \/ l.old \/ ~Reopens) -> "create"
      [] OTHER -> "reopen"
Ask(pass) ==
    LET clear == outbox[pass.row.id].kind = "alarm_cleared"
        l == pass.link
    IN IF l = None THEN IF clear THEN "nothing" ELSE "create"
       ELSE IF l.closed THEN OnClosed(clear, l) ELSE OnOpen(clear)
(* An update inside the ticket's quiet window is not sent at all. *)
MaySkip(pass) ==
    \/ Ask(pass) = "nothing"
    \/ /\ Ask(pass) = "comment" /\ ~pass.link.closed
       /\ outbox[pass.row.id].kind # "alarm_cleared"
Missing(pass) == Ask(pass) \in {"close", "comment", "reopen"}
                 /\ issues[pass.link.key].status = "gone"

(* What Jira does, and the event it sends when a status changes.  "Done" is     *)
(* not offered to an issue that is done; a reopen moves one that is open, too.  *)
(* A service desk opens a request without its labels (_create_request).        *)
Status(pass) == issues[pass.link.key].status
Effect(pass, desk) ==
    LET ask == Ask(pass)
        turned == CASE ask = "close" /\ Status(pass) = "open" -> "done"
                    [] ask = "reopen" -> "open"
                    [] OTHER -> None
    IN /\ issues' = IF ask = "create"
                    THEN Append(issues, [status |-> "open", by |-> pass.row.id,
                                         over |-> pass.link # None, labelled |-> ~desk])
                    ELSE IF turned = None THEN issues
                    ELSE [issues EXCEPT ![pass.link.key].status = turned]
       /\ inbox' = IF turned = None THEN inbox
                   ELSE Append(inbox, Sent(pass.link.key,
                          IF turned = "done" THEN "acknowledge" ELSE "moved"))
(* LinkUpdate. *)
Update(pass) ==
    LET ask == Ask(pass) IN
    [key |-> IF ask = "create" THEN Len(issues) + 1 ELSE pass.link.key,
     closed |-> ask = "close" /\ Status(pass) = "open",
     reopened |-> ask = "reopen"]
Call(w) ==
    /\ job[w].pc = "call" /\ ~Missing(job[w])
    /\ \/ /\ MaySkip(job[w])
          /\ job' = [job EXCEPT ![w].pc = "commit", ![w].update = None]
          /\ UNCHANGED <<issues, inbox>>
       \/ /\ Ask(job[w]) # "nothing"
          /\ \E desk \in Desks :
               /\ Effect(job[w], desk)
               /\ job' = [job EXCEPT ![w].update = Update(job[w]), ![w].pc =
                            IF Ask(job[w]) = "create" /\ desk THEN "label" ELSE "commit"]
    /\ UNCHANGED <<alarm, enabled, outbox, link, bounds>>
(* The second call of _create_request labels the request.  Its failure is      *)
(* swallowed, lest the retry open another.                                     *)
Label(w) ==
    /\ job[w].pc = "label"
    /\ issues' = [issues EXCEPT ![job[w].update.key].labelled = TRUE]
    /\ job' = [job EXCEPT ![w].pc = "commit"]
    /\ UNCHANGED <<alarm, enabled, outbox, link, inbox, bounds>>
LabelFails(w) ==
    /\ job[w].pc = "label" /\ (Fault("refuse") \/ Fault("reject"))
    /\ job' = [job EXCEPT ![w].pc = "commit"]
    /\ UNCHANGED <<alarm, enabled, outbox, link, issues, inbox>>
(* JiraError: the issue was deleted. *)
CallMissing(w) ==
    /\ job[w].pc = "call" /\ Missing(job[w])
    /\ job' = [job EXCEPT ![w].pc = "dead"]
    /\ UNCHANGED <<alarm, enabled, outbox, link, issues, inbox, bounds>>
(* The answer is lost, or the call is refused for now, or for good. *)
CallFails(w) ==
    /\ job[w].pc \in {"search", "call"} /\ UNCHANGED <<alarm, enabled, outbox, link>>
    /\ \/ /\ Fault("lost") /\ job[w].pc = "call"
          /\ ~Missing(job[w]) /\ Ask(job[w]) # "nothing"
          /\ \E desk \in Desks : Effect(job[w], desk)
          /\ job' = [job EXCEPT ![w].pc = "retry"]
       \/ /\ Fault("refuse") /\ (job[w].pc = "call" => Ask(job[w]) # "nothing")
          /\ job' = [job EXCEPT ![w].pc = "retry"]
          /\ UNCHANGED <<issues, inbox>>
       \/ /\ Fault("reject") /\ (job[w].pc = "call" => Ask(job[w]) # "nothing")
          /\ job' = [job EXCEPT ![w].pc = "dead"]
          /\ UNCHANGED <<issues, inbox>>

-----------------------------------------------------------------------------
(* What came of it.                                                            *)

(* upsert_link: a new issue inherits what the old link said of the old one. *)
Upserted(u) ==
    LET was == IF link = None THEN [closed |-> FALSE, old |-> FALSE, wont |-> FALSE] ELSE link IN
    [key |-> u.key, wont |-> was.wont,
     closed |-> ~u.reopened /\ (u.closed \/ was.closed),
     old |-> ~u.reopened /\ ~u.closed /\ was.old]
Commit(w) ==
    LET i == job[w].row.id
        u == job[w].update
    IN
    /\ job[w].pc = "commit"
    /\ link' = IF u = None THEN link ELSE Upserted(u)
    /\ outbox' = [outbox EXCEPT ![i] = Settled(i, "done")]
    /\ job' = [job EXCEPT ![w] = Onwards([job[w] EXCEPT !.update = None,
                 !.link = IF u = None THEN job[w].link ELSE link'])]
    /\ UNCHANGED <<alarm, enabled, issues, inbox, bounds>>
(* _schedule_retry; the rows behind this one stay claimed until they are stale. *)
ScheduleRetry(w) ==
    LET r == job[w].row IN
    /\ job[w].pc \in {"retry", "dead"}
    /\ outbox' = [outbox EXCEPT ![r.id] =
                    IF job[w].pc = "dead" \/ r.attempts >= MaxAttempts
                    THEN Settled(r.id, "dead") ELSE PutOff(r.id, outbox[r.id].attempts)]
    /\ job' = [job EXCEPT ![w] = Free]
    /\ UNCHANGED <<alarm, enabled, link, issues, inbox, bounds>>

-----------------------------------------------------------------------------
(* drain_inbound.                                                              *)

(* claim_inbound: what is pending, another worker's claims included. *)
ClaimInbound(w) ==
    LET pending == {e \in Events : inbox[e].state = "pending"} IN
    /\ job[w].pc = "free" /\ pending # {}
    /\ inbox' = [e \in Events |-> [inbox[e] EXCEPT !.attempts =
                    inbox[e].attempts + IF e \in pending THEN 1 ELSE 0]]
    /\ job' = [job EXCEPT ![w] = [Free EXCEPT !.pc = "inbound",
                 !.rows = {[id |-> e, attempts |-> inbox'[e].attempts] : e \in pending}]]
    /\ UNCHANGED <<alarm, enabled, outbox, link, issues, bounds>>
(* What the event means for the link of its issue. *)
RecordInbound(closed, reopened, wont) ==
    [link EXCEPT !.closed = closed \/ (link.closed /\ ~reopened),
                 !.old = link.old /\ ~reopened, !.wont = link.wont \/ wont]
Acknowledged == RecordInbound(TRUE, FALSE, FALSE)
Declined == RecordInbound(TRUE, FALSE, TRUE)
Moved == RecordInbound(FALSE, link.closed, FALSE)
Orphaned == None
Heard(event) ==
    CASE event.action = "acknowledge" -> Acknowledged
      [] event.action = "declined" -> Declined
      [] event.action = "moved" -> Moved
      [] event.action = "orphaned" -> Orphaned
(* Each event has a transaction of its own, in the order the claim returned     *)
(* them; the attempts of one that is done are not read again, and dropped here.  *)
Rest(w, e) ==
    LET left == job[w].rows \ {e} IN
    job' = [job EXCEPT ![w] = IF left = {} THEN Free ELSE [job[w] EXCEPT !.rows = left]]
ApplyInbound(w) ==
    /\ job[w].pc = "inbound"
    /\ \E e \in job[w].rows :
         LET event == inbox[e.id]
             ours == link # None /\ link.key = event.key
         IN
         /\ ~event.bad
         /\ link' = IF ours THEN Heard(event) ELSE link
         /\ acked' = (acked \/ (ours /\ active /\ event.action = "acknowledge"))
         /\ inbox' = [inbox EXCEPT ![e.id].state = "done", ![e.id].attempts = 0]
         /\ Rest(w, e)
    /\ UNCHANGED <<active, episode, enabled, outbox, issues, bounds>>
(* _fail_inbound: our reader trips over the event, this once, or, as it turns out, *)
(* every time.                                                                 *)
FailInbound(w) ==
    /\ job[w].pc = "inbound"
    /\ \E e \in job[w].rows, bad \in BOOLEAN :
         /\ IF inbox[e.id].bad THEN bad /\ UNCHANGED bounds
            ELSE Fault(IF bad THEN "garble" ELSE "trip")
         /\ inbox' = [inbox EXCEPT ![e.id].bad = bad, ![e.id].state =
                        IF e.attempts >= InboundAttempts THEN "dead" ELSE "pending"]
         /\ Rest(w, e)
    /\ UNCHANGED <<alarm, enabled, outbox, link, issues>>

-----------------------------------------------------------------------------
(* Time, people and crashes.                                                   *)

FallsDue(i) ==
    /\ outbox[i].state = "pending" /\ ~outbox[i].due
    /\ outbox' = [outbox EXCEPT ![i].due = TRUE]
    /\ UNCHANGED <<alarm, enabled, link, issues, inbox, job, bounds>>
InHand(w, i) ==
    /\ job[w].pc \notin {"free", "inbound"}
    /\ \/ \E r \in job[w].rows : r.id = i
       \/ job[w].pc \notin {"claimed", "next"} /\ job[w].row.id = i
(* STALE_CLAIM_S over: nobody works on the row, or, where stalls happen, slowly. *)
GoesStale(i) ==
    /\ outbox[i].claimed /\ ~outbox[i].stale
    /\ "stall" \in Faults \/ \A w \in Workers : ~InHand(w, i)
    /\ outbox' = [outbox EXCEPT ![i].stale = TRUE]
    /\ UNCHANGED <<alarm, enabled, link, issues, inbox, job, bounds>>
(* reopen_window_h over. *)
WindowPasses ==
    /\ link # None /\ link.closed /\ ~link.old
    /\ link' = [link EXCEPT !.old = TRUE]
    /\ UNCHANGED <<alarm, enabled, outbox, issues, inbox, job, bounds>>

(* What a person does to an issue: from which status, to which, and the event    *)
(* webhook.interpret makes of it.                                               *)
Touches ==
    {[by |-> "done",     from |-> "open", to |-> "done", action |-> "acknowledge"],
     [by |-> "decline",  from |-> "open", to |-> "done", action |-> "declined"],
     [by |-> "progress", from |-> "open", to |-> "open", action |-> "moved"],
     [by |-> "reopen",   from |-> "done", to |-> "open", action |-> "moved"],
     [by |-> "delete",   from |-> "open", to |-> "gone", action |-> "orphaned"],
     [by |-> "delete",   from |-> "done", to |-> "gone", action |-> "orphaned"]}
Touch(k) ==
    /\ touches < MaxTouches /\ touches' = touches + 1 /\ UNCHANGED faults
    /\ \E t \in Touches :
         /\ t.by \in People /\ issues[k].status = t.from
         /\ issues' = [issues EXCEPT ![k].status = t.to]
         /\ inbox' = Append(inbox, Sent(k, t.action))
    /\ UNCHANGED <<alarm, enabled, outbox, link, job>>
(* repo.revive: an operator puts a row that was given up back in the queue. *)
Revive(i) ==
    /\ "revive" \in People /\ touches < MaxTouches /\ touches' = touches + 1 /\ UNCHANGED faults
    /\ outbox[i].state = "dead"
    /\ outbox' = [outbox EXCEPT ![i].state = "pending", ![i].attempts = 0, ![i].revived = TRUE]
    /\ UNCHANGED <<alarm, enabled, link, issues, inbox, job>>
Switch ==
    /\ Fault("off")
    /\ enabled' = ~enabled
    /\ UNCHANGED <<alarm, outbox, link, issues, inbox, job>>
Die(w) ==
    /\ Fault("die") /\ job[w].pc # "free"
    /\ job' = [job EXCEPT ![w] = Free]
    /\ UNCHANGED <<alarm, enabled, outbox, link, issues, inbox>>

Run(w) ==
    \/ Claim(w) \/ Open(w) \/ Pick(w) \/ Search(w) \/ Call(w) \/ CallMissing(w)
    \/ Label(w) \/ Commit(w) \/ ScheduleRetry(w)
    \/ ClaimInbound(w) \/ ApplyInbound(w) \/ FailInbound(w)
Alarm == RaiseAlarm \/ Escalate \/ ClearAlarm
Time == \E i \in Ids : FallsDue(i) \/ GoesStale(i)
Next ==
    \/ Alarm \/ Time \/ WindowPasses \/ Switch
    \/ \E k \in Keys : Touch(k)
    \/ \E i \in Ids : Revive(i)
    \/ \E w \in Workers : Run(w) \/ Unusable(w) \/ Hold(w) \/ CallFails(w)
                          \/ LabelFails(w) \/ Die(w)
Spec == Init /\ [][Next]_vars
(* Every worker's tick comes round, its calls end, and time passes. *)
FairSpec ==
    /\ Spec /\ WF_vars(Time)
    /\ \A w \in Workers : WF_vars(Run(w))

-----------------------------------------------------------------------------
(* Queues, link, issues and passes keep their shape. *)
TicketsTypeOK ==
    /\ {active, acked, enabled} \subseteq BOOLEAN /\ episode \in Nat
    /\ outbox \in Seq(Row) /\ issues \in Seq(Issue) /\ inbox \in Seq(Event)
    /\ link = None \/ link \in Link
    /\ \A w \in Workers : job[w].pc \in Pcs

(* repo.claim takes rows "for this worker, and nobody else's": though the claim  *)
(* commits long before the call ends, no row is delivered by two workers at once. *)
OneHandPerRow ==
    \A i \in Ids : \A v, w \in Workers : InHand(v, i) /\ InHand(w, i) => v = w

(* A row tried again after its answer was lost or its worker died finds the issue *)
(* it opened before, by the label: of the issues it leaves for a condition without  *)
(* ticket, one at most is labelled, which outside a service desk every issue is;    *)
(* unless an operator revived the row, which makes it forget its attempts.          *)
OpenedBy(i) == {k \in Keys : issues[k].status # "gone" /\ issues[k].by = i /\ ~issues[k].over}
RowOpensOneIssue ==
    \A i \in Ids : ~outbox[i].revived =>
        Cardinality({k \in OpenedBy(i) : issues[k].labelled}) <= 1

(* After finitely many failures every queued row is delivered or given up, and    *)
(* every event applied or, once it has failed often enough, parked.               *)
EveryRowSettles ==
    /\ \A i \in 1 .. MaxRows :
         (i \in Ids) ~> (i \in Ids /\ outbox[i].state # "pending")
    /\ \A e \in 1 .. MaxRows + MaxTouches :
         (e \in Events) ~> (e \in Events /\ inbox[e].state # "pending")

(* "Any attempt after the first searches for the fingerprint label first": "it is *)
(* the difference between the integration duplicated everything during the outage *)
(* and nobody noticing there was one" (target.py), on a service desk too.          *)
RetryOpensNoTwin == \A i \in Ids : ~outbox[i].revived => Cardinality(OpenedBy(i)) <= 1

(* "A row that reliably kills its worker still walks to the dead state instead of  *)
(* looping forever" (dispatcher.py): none is taken up more often than max_attempts. *)
AttemptsAreBounded == \A i \in Ids : outbox[i].attempts <= MaxAttempts

(* "Once a ticket exists for a fingerprint, every later action on that condition  *)
(* goes out" (outbox.py): the clear of an alarm whose issue is open is queued,    *)
(* once every event is applied and nothing is in hand.                            *)
FollowUpsGoOut ==
    [][ /\ active /\ ~active' /\ link # None /\ issues[link.key].status = "open"
        /\ \A e \in Events : inbox[e].state # "pending"
        /\ \A w \in Workers : job[w].pc = "free"
        => Len(outbox') > Len(outbox) ]_vars

(* "Per-fingerprint order is preserved" (dispatcher.py): once everything is        *)
(* delivered and nobody has touched an issue, a condition that was raised again    *)
(* has an open one.                                                                *)
RaisedIsOpen ==
    /\ active /\ touches = 0 /\ faults = 0 /\ \A i \in Ids : outbox[i].state # "pending"
    /\ \E i \in Ids : outbox[i].of = episode /\ outbox[i].kind = "alarm_raised"
    => \E k \in Keys : issues[k].status = "open"

(* A condition has one ticket: no second issue is opened while one is open. *)
OneOpenIssue == \A j, k \in Keys : issues[j].status = "open" /\ issues[k].status = "open" => j = k

(* "An alarm is acknowledged by a decision" (inbox.py), not by the platform        *)
(* hearing of its own transition.                                                  *)
AckIsADecision == acked => touches > 0

(* What the link says of its issue is what Jira shows, once every event that       *)
(* people caused is applied and nothing is in hand (claim_inbound).                *)
LinkAgrees ==
    /\ link # None /\ \A e \in Events : inbox[e].state # "pending"
    /\ \A w \in Workers : job[w].pc = "free"
    => link.closed = (issues[link.key].status = "done")
=============================================================================
