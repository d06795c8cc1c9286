--------------------------- MODULE TicketsProofs ---------------------------
(* No row is delivered by two workers at once, and a row tried again labels no  *)
(* second issue, however many workers, rows, attempts and faults there are, as  *)
(* long as no dispatcher is so slow that its claim is taken for a dead one's.  *)
EXTENDS Tickets, SequenceTheorems, FiniteSetTheorems, WellFoundedInduction, TLAPS

-----------------------------------------------------------------------------
(* The inductive invariant.                                                    *)

Working(t) == t.pc \notin {"free", "inbound"}
Calling(t) == Working(t) /\ t.pc \notin {"claimed", "next"}

\* The pass t has row i in hand (InHand, of a pass).
Has(t, i) == \/ Working(t) /\ \E r \in t.rows : r.id = i
             \/ Calling(t) /\ t.row.id = i

\* A row in hand is claimed, freshly, for the attempt that its pass is on.
Held(rows, r) ==
    /\ r.id \in 1 .. Len(rows)
    /\ rows[r.id].state = "pending" /\ rows[r.id].claimed /\ ~rows[r.id].stale
    /\ rows[r.id].attempts = r.attempts /\ r.attempts > 0

\* The labelled issues row i opened for a condition without ticket (OpenedBy).
Opened(board, i) ==
    {k \in 1 .. Len(board) : /\ board[k].status # "gone" /\ board[k].by = i
                             /\ ~board[k].over /\ board[k].labelled}
MayOpen(rows, board, i) == ~rows[i].revived => Opened(board, i) = {}

HoldsRows(t, rows) ==
    /\ Working(t) => /\ \A r \in t.rows : Held(rows, r)
                     /\ \A r, s \in t.rows : r.id = s.id => r = s
    /\ Calling(t) => Held(rows, t.row) /\ \A s \in t.rows : s.id # t.row.id

\* A row that has labelled an issue is on a later attempt, and searches; one that
\* is about to has none.
Searches(t, rows, board) ==
    /\ Working(t) => \A r \in t.rows : r.attempts > 1 \/ MayOpen(rows, board, r.id)
    /\ t.pc = "call" /\ t.link = None => MayOpen(rows, board, t.row.id)
    /\ t.pc = "label" =>
         /\ t.update.key \in 1 .. Len(board) /\ board[t.update.key].by = t.row.id
         /\ board[t.update.key].over \/ MayOpen(rows, board, t.row.id)

Good(t, rows, board) ==
    /\ DOMAIN t = {"pc", "rows", "row", "link", "update"}
    /\ HoldsRows(t, rows) /\ Searches(t, rows, board)

\* Only rows open issues, on an attempt that was counted, and once.
OpensOnce(rows, board) ==
    /\ \A k \in 1 .. Len(board) : board[k].by \in 1 .. Len(rows)
    /\ \A i \in 1 .. Len(rows) :
         /\ rows[i].attempts > 0 \/ MayOpen(rows, board, i)
         /\ rows[i].revived \/ \A j, k \in Opened(board, i) : j = k

Shape == outbox \in Seq(Row) /\ issues \in Seq(Issue) /\ episode \in Nat
         /\ job = [w \in Workers |-> job[w]]
HandsInv ==
    /\ Shape
    /\ \A w \in Workers : Good(job[w], outbox, issues)
    /\ OneHandPerRow
    /\ OpensOnce(outbox, issues)

-----------------------------------------------------------------------------
(* Facts about passes and rows.                                                *)

\* The invariant's types, for use.
LEMMA RowFacts ==
    ASSUME HandsInv
    PROVE  /\ outbox \in Seq(Row) /\ outbox \in [1 .. Len(outbox) -> Row]
           /\ Len(outbox) \in Nat /\ Ids = 1 .. Len(outbox)
           /\ issues \in Seq(Issue) /\ issues \in [1 .. Len(issues) -> Issue]
           /\ Len(issues) \in Nat /\ Keys = 1 .. Len(issues)
           /\ job = [w \in Workers |-> job[w]] /\ episode \in Nat
BY LenProperties DEF HandsInv, Shape, Ids, Keys

\* InHand speaks of the worker's pass.
LEMMA HandIsPass ==
    \A w \in Workers : \A i : InHand(w, i) <=> Has(job[w], i)
BY DEF InHand, Has, Working, Calling

LEMMA HandIsPassNext ==
    \A w \in Workers : \A i : InHand(w, i)' <=> Has(job'[w], i)
BY DEF InHand, Has, Working, Calling

\* What a step keeps of a row in hand.
Kept(old, new) ==
    /\ new.state = old.state /\ new.claimed = old.claimed /\ new.stale = old.stale
    /\ new.attempts = old.attempts /\ (old.revived => new.revived)

\* What a step keeps of the issues there are.
Same(board, board2) ==
    \A k \in 1 .. Len(board) :
        /\ k \in 1 .. Len(board2)
        /\ board2[k].by = board[k].by /\ board2[k].over = board[k].over

\* A pass stays good as long as its rows are kept and open nothing.
LEMMA GoodStays ==
    ASSUME NEW t, NEW old, NEW new, NEW board, NEW board2,
           Good(t, old, board), Len(old) \in Nat, Len(new) \in Nat, Len(new) >= Len(old),
           Same(board, board2),
           \A i \in 1 .. Len(old) : Has(t, i) =>
               /\ Kept(old[i], new[i])
               /\ MayOpen(old, board, i) => MayOpen(new, board2, i)
    PROVE  Good(t, new, board2)
<1>1. ASSUME NEW r, Held(old, r), Has(t, r.id)
      PROVE  Held(new, r) /\ (MayOpen(old, board, r.id) => MayOpen(new, board2, r.id))
  BY <1>1 DEF Held, Kept
<1>2. \A r \in t.rows : Working(t) => Held(old, r) /\ Has(t, r.id)
  BY DEF Good, HoldsRows, Has
<1>3. Calling(t) => Held(old, t.row) /\ Has(t, t.row.id)
  BY DEF Good, HoldsRows, Has
<1>4. HoldsRows(t, new)
  BY <1>1, <1>2, <1>3 DEF Good, HoldsRows
<1>5. t.pc \in {"call", "label"} => Calling(t)
  BY DEF Calling, Working
<1>6. Searches(t, new, board2)
  BY <1>1, <1>2, <1>3, <1>5 DEF Good, Searches, Same
<1> QED BY <1>4, <1>6 DEF Good

\* What is in hand is a row of the outbox.
LEMMA HeldRows ==
    ASSUME HandsInv, NEW w \in Workers, NEW i, Has(job[w], i)
    PROVE  /\ i \in 1 .. Len(outbox) /\ outbox[i].state = "pending"
           /\ outbox[i].claimed /\ ~outbox[i].stale
BY DEF HandsInv, Good, HoldsRows, Has, Held

\* A step of the outbox and of Jira that no worker takes.
LEMMA NobodyMoves ==
    ASSUME HandsInv, job' = job, episode' \in Nat,
           outbox' \in Seq(Row), issues' \in Seq(Issue),
           Len(outbox') >= Len(outbox), Len(issues') = Len(issues),
           \A k \in 1 .. Len(issues) : /\ issues'[k].by = issues[k].by
                                       /\ issues'[k].over = issues[k].over
                                       /\ issues'[k].labelled = issues[k].labelled
                                       /\ issues[k].status = "gone" => issues'[k].status = "gone",
           \A i \in 1 .. Len(outbox) :
               /\ outbox[i].revived => outbox'[i].revived
               /\ outbox'[i].attempts = outbox[i].attempts \/ outbox'[i].revived,
           \A i \in 1 .. Len(outbox) : (\E w \in Workers : Has(job[w], i))
               => Kept(outbox[i], outbox'[i])
    PROVE  HandsInv'
<1>0. /\ Len(outbox) \in Nat /\ Len(outbox') \in Nat /\ Len(issues) \in Nat
      /\ \A k \in 1 .. Len(issues) : issues[k].by \in 1 .. Len(outbox)
  BY RowFacts, LenProperties DEF HandsInv, OpensOnce
<1>1. \A i : Opened(issues', i) \subseteq Opened(issues, i)
  BY DEF Opened
<1>2. \A i \in 1 .. Len(outbox) :
         MayOpen(outbox, issues, i) => MayOpen(outbox', issues', i)
  BY <1>1 DEF MayOpen
<1>3. ASSUME NEW w \in Workers PROVE Good(job[w], outbox', issues')
  <2>1. Good(job[w], outbox, issues)
    BY DEF HandsInv
  <2>2. Same(issues, issues')
    BY DEF Same
  <2> QED BY <1>0, <1>2, <2>1, <2>2, GoodStays
<1>4. OpensOnce(outbox', issues')
  <2>1. \A k \in 1 .. Len(issues') : issues'[k].by \in 1 .. Len(outbox')
    BY <1>0
  <2>2. ASSUME NEW i \in 1 .. Len(outbox')
        PROVE  /\ outbox'[i].attempts > 0 \/ MayOpen(outbox', issues', i)
               /\ outbox'[i].revived \/ \A j, k \in Opened(issues', i) : j = k
    <3>1. CASE i \in 1 .. Len(outbox)
      BY <1>1, <1>2, <3>1 DEF HandsInv, OpensOnce, MayOpen
    <3>2. CASE i \notin 1 .. Len(outbox)
      <4>1. Opened(issues', i) = {}
        BY <1>0, <1>1, <3>2 DEF Opened
      <4> QED BY <4>1 DEF MayOpen
    <3> QED BY <3>1, <3>2
  <2> QED BY <2>1, <2>2 DEF OpensOnce
<1>5. OneHandPerRow'
  <2>1. \A i : \A v, w \in Workers : Has(job[v], i) /\ Has(job[w], i) => v = w
    BY HandIsPass, HeldRows DEF HandsInv, OneHandPerRow, Ids
  <2> QED BY <2>1, HandIsPassNext DEF OneHandPerRow
<1> QED BY <1>3, <1>4, <1>5 DEF HandsInv, Shape

\* A step of worker w, to the pass p: rows others have in hand are kept and open
\* nothing, and p has no row of theirs.
LEMMA WorkerMoves ==
    ASSUME HandsInv, NEW w \in Workers, NEW p, job' = [job EXCEPT ![w] = p],
           episode' = episode,
           outbox' \in Seq(Row), issues' \in Seq(Issue), Len(outbox') = Len(outbox),
           Same(issues, issues'), Good(p, outbox', issues'), OpensOnce(outbox', issues'),
           \A i \in 1 .. Len(outbox) : (\E x \in Workers \ {w} : Has(job[x], i)) =>
               /\ Kept(outbox[i], outbox'[i]) /\ ~Has(p, i)
               /\ MayOpen(outbox, issues, i) => MayOpen(outbox', issues', i)
    PROVE  HandsInv'
<1>0. Len(outbox) \in Nat /\ job = [x \in Workers |-> job[x]]
  BY RowFacts
<1>1. /\ job'[w] = p /\ \A x \in Workers \ {w} : job'[x] = job[x]
      /\ job' = [x \in Workers |-> job'[x]]
  BY <1>0
<1>2. ASSUME NEW x \in Workers PROVE Good(job'[x], outbox', issues')
  <2>1. CASE x = w
    BY <1>1, <2>1
  <2>2. CASE x # w
    <3>1. Good(job[x], outbox, issues)
      BY DEF HandsInv
    <3>2. Good(job[x], outbox', issues')
      BY <1>0, <2>2, <3>1, GoodStays
    <3> QED BY <1>1, <2>2, <3>2
  <2> QED BY <2>1, <2>2
<1>3. OneHandPerRow'
  <2>1. \A i : \A v, x \in Workers : Has(job[v], i) /\ Has(job[x], i) => v = x
    BY HandIsPass, HeldRows DEF HandsInv, OneHandPerRow, Ids
  <2>2. ASSUME NEW i, NEW x \in Workers \ {w} PROVE ~(Has(job'[x], i) /\ Has(job'[w], i))
    <3>1. Has(job[x], i) => i \in 1 .. Len(outbox)
      BY HeldRows
    <3> QED BY <1>1, <3>1
  <2>3. \A i : \A v, x \in Workers : Has(job'[v], i) /\ Has(job'[x], i) => v = x
    BY <1>1, <2>1, <2>2
  <2> QED BY <2>3, HandIsPassNext DEF OneHandPerRow
<1> QED BY <1>1, <1>2, <1>3 DEF HandsInv, Shape

-----------------------------------------------------------------------------
(* Steps that no worker takes.                                                 *)

LEMMA EnqueueKeeps ==
    ASSUME HandsInv, NEW kind \in {"alarm_raised", "alarm_escalated", "alarm_cleared"},
           NEW of \in Nat, Enqueue(kind, of),
           episode' \in Nat
    PROVE  HandsInv'
<1> DEFINE row == [kind |-> kind, of |-> of, state |-> "pending", claimed |-> FALSE,
                   stale |-> FALSE, due |-> TRUE, attempts |-> 0, revived |-> FALSE]
<1>1. row \in Row
  BY DEF Row
<1>2. /\ outbox' = outbox \/ outbox' = Append(outbox, row)
      /\ issues' = issues /\ job' = job
  BY DEF Enqueue
<1> HIDE DEF row
<1>3. outbox \in Seq(Row) /\ Len(outbox) \in Nat /\ issues \in Seq(Issue)
  BY RowFacts
<1>4. /\ outbox' \in Seq(Row) /\ Len(outbox') >= Len(outbox)
      /\ \A i \in 1 .. Len(outbox) : outbox'[i] = outbox[i]
  <2>1. CASE outbox' = outbox
    BY <1>3, <2>1
  <2>2. CASE outbox' = Append(outbox, row)
    <3>1. /\ outbox' \in Seq(Row) /\ Len(outbox') = Len(outbox) + 1
          /\ \A i \in 1 .. Len(outbox) : outbox'[i] = outbox[i]
      BY <1>1, <1>3, <2>2, AppendProperties
    <3> QED BY <1>3, <3>1
  <2> QED BY <1>2, <2>1, <2>2
<1> QED BY <1>2, <1>3, <1>4, NobodyMoves DEF Kept

LEMMA AlarmKeeps == ASSUME HandsInv, Alarm PROVE HandsInv'
<1>0. episode \in Nat /\ episode + 1 \in Nat
  BY RowFacts
<1>1. CASE RaiseAlarm
  BY <1>1, <1>0, EnqueueKeeps DEF alarm, RaiseAlarm
<1>2. CASE Escalate
  BY <1>2, <1>0, EnqueueKeeps DEF alarm, Escalate
<1>3. CASE ClearAlarm
  BY <1>3, <1>0, EnqueueKeeps DEF alarm, ClearAlarm
<1> QED BY <1>1, <1>2, <1>3 DEF Alarm

\* Without stalls only a row that nobody has goes stale.
LEMMA TimeKeeps == ASSUME HandsInv, "stall" \notin Faults, Time PROVE HandsInv'
<1>0. /\ outbox \in [1 .. Len(outbox) -> Row] /\ Ids = 1 .. Len(outbox)
      /\ issues \in Seq(Issue) /\ Len(outbox) \in Nat /\ episode \in Nat
  BY RowFacts
<1>1. ASSUME NEW i \in Ids, FallsDue(i) PROVE HandsInv'
  <2>1. outbox' = [outbox EXCEPT ![i].due = TRUE] /\ job' = job /\ issues' = issues
        /\ episode' = episode
    BY <1>1 DEF FallsDue, alarm
  <2>2. outbox' \in [1 .. Len(outbox) -> Row]
    BY <1>0, <2>1 DEF Row
  <2>3. outbox' \in Seq(Row) /\ Len(outbox') = Len(outbox)
    BY <1>0, <2>2, LenProperties
  <2>4. \A j \in 1 .. Len(outbox) : Kept(outbox[j], outbox'[j])
    BY <1>0, <2>1 DEF Kept, Row
  <2> QED BY <1>0, <2>1, <2>3, <2>4, NobodyMoves DEF Kept
<1>2. ASSUME NEW i \in Ids, GoesStale(i) PROVE HandsInv'
  <2>1. /\ outbox' = [outbox EXCEPT ![i].stale = TRUE] /\ job' = job /\ issues' = issues
        /\ episode' = episode
        /\ \A w \in Workers : ~Has(job[w], i)
    BY <1>2, HandIsPass DEF GoesStale, alarm
  <2>2. outbox' \in [1 .. Len(outbox) -> Row]
    BY <1>0, <2>1 DEF Row
  <2>3. outbox' \in Seq(Row) /\ Len(outbox') = Len(outbox)
    BY <1>0, <2>2, LenProperties
  <2>4. \A j \in 1 .. Len(outbox) :
          /\ outbox'[j].attempts = outbox[j].attempts /\ outbox'[j].revived = outbox[j].revived
          /\ j # i => Kept(outbox[j], outbox'[j])
    BY <1>0, <2>1 DEF Kept, Row
  <2> QED BY <1>0, <2>1, <2>3, <2>4, NobodyMoves
<1> QED BY <1>1, <1>2 DEF Time

\* People take issues away and put rows that were given up back.
LEMMA PeopleKeep ==
    ASSUME HandsInv, WindowPasses \/ Switch \/ (\E k \in Keys : Touch(k))
                     \/ (\E i \in Ids : Revive(i))
    PROVE  HandsInv'
<1>0. /\ outbox \in [1 .. Len(outbox) -> Row] /\ Ids = 1 .. Len(outbox)
      /\ issues \in [1 .. Len(issues) -> Issue] /\ Keys = 1 .. Len(issues)
      /\ outbox \in Seq(Row) /\ issues \in Seq(Issue)
      /\ Len(outbox) \in Nat /\ Len(issues) \in Nat /\ episode \in Nat
  BY RowFacts
<1>1. CASE WindowPasses \/ Switch
  BY <1>0, <1>1, NobodyMoves DEF WindowPasses, Switch, Kept, alarm
<1>2. ASSUME NEW k \in Keys, Touch(k) PROVE HandsInv'
  <2>1. PICK t \in Touches : /\ issues[k].status = t.from
                             /\ issues' = [issues EXCEPT ![k].status = t.to]
    BY <1>2 DEF Touch
  <2>2. outbox' = outbox /\ job' = job /\ episode' = episode
    BY <1>2 DEF Touch, alarm
  <2>3. t.from # "gone" /\ t.to \in {"open", "done", "gone"}
    BY DEF Touches
  <2>4. issues' \in [1 .. Len(issues) -> Issue]
    BY <1>0, <2>1, <2>3 DEF Issue
  <2>5. issues' \in Seq(Issue) /\ Len(issues') = Len(issues)
    BY <1>0, <2>4, LenProperties
  <2>6. \A j \in 1 .. Len(issues) :
          /\ issues'[j].by = issues[j].by /\ issues'[j].over = issues[j].over
          /\ issues'[j].labelled = issues[j].labelled
          /\ issues[j].status = "gone" => issues'[j].status = "gone"
    BY <1>0, <2>1, <2>3 DEF Issue
  <2> QED BY <1>0, <2>2, <2>5, <2>6, NobodyMoves DEF Kept
<1>3. ASSUME NEW i \in Ids, Revive(i) PROVE HandsInv'
  <2>1. /\ outbox[i].state = "dead" /\ issues' = issues /\ job' = job
        /\ episode' = episode
        /\ outbox' = [outbox EXCEPT ![i].state = "pending", ![i].attempts = 0,
                                    ![i].revived = TRUE]
    BY <1>3 DEF Revive, alarm
  <2>2. outbox' \in [1 .. Len(outbox) -> Row]
    <3>1. [outbox[i] EXCEPT !.state = "pending", !.attempts = 0, !.revived = TRUE] \in Row
      BY <1>0 DEF Row
    <3> QED BY <1>0, <2>1, <3>1
  <2>3. outbox' \in Seq(Row) /\ Len(outbox') = Len(outbox)
    BY <1>0, <2>2, LenProperties
  <2>4. \A w \in Workers : ~Has(job[w], i)
    BY <2>1, HeldRows
  <2>5. \A j \in 1 .. Len(outbox) :
          /\ j # i => Kept(outbox[j], outbox'[j]) /\ outbox'[j] = outbox[j]
          /\ j = i => outbox'[j].revived
    BY <1>0, <2>1 DEF Kept, Row
  <2> QED BY <1>0, <2>1, <2>3, <2>4, <2>5, NobodyMoves
<1> QED BY <1>1, <1>2, <1>3

-----------------------------------------------------------------------------
(* Steps of a worker.                                                          *)

\* What the invariant says of a worker's pass.
LEMMA PassFacts ==
    ASSUME HandsInv, NEW w \in Workers
    PROVE  /\ DOMAIN job[w] = {"pc", "rows", "row", "link", "update"}
           /\ HoldsRows(job[w], outbox) /\ Searches(job[w], outbox, issues)
           /\ \A i, x : x \in Workers \ {w} /\ Has(job[x], i) => ~Has(job[w], i)
<1>1. Good(job[w], outbox, issues)
  BY DEF HandsInv
<1>2. ASSUME NEW i, NEW x \in Workers \ {w}, Has(job[x], i), Has(job[w], i) PROVE FALSE
  BY <1>2, HandIsPass, HeldRows DEF HandsInv, OneHandPerRow, Ids
<1> QED BY <1>1, <1>2 DEF Good

\* A pass in which nothing is in hand.
LEMMA Idle ==
    ASSUME NEW p, DOMAIN p = {"pc", "rows", "row", "link", "update"}, ~Working(p),
           NEW rows, NEW board
    PROVE  Good(p, rows, board) /\ \A i : ~Has(p, i)
BY DEF Good, HoldsRows, Searches, Has, Calling, Working

LEMMA FreeIsIdle == DOMAIN Free = {"pc", "rows", "row", "link", "update"} /\ ~Working(Free)
BY DEF Free, Working

\* A step that changes the worker's pass only.
LEMMA PassMoves ==
    ASSUME HandsInv, NEW w \in Workers, NEW p, job' = [job EXCEPT ![w] = p],
           episode' = episode, outbox' = outbox, issues' = issues,
           Good(p, outbox, issues), \A i : Has(p, i) => Has(job[w], i)
    PROVE  HandsInv'
<1>1. outbox \in Seq(Row) /\ issues \in Seq(Issue)
  BY RowFacts
<1>2. OpensOnce(outbox, issues)
  BY DEF HandsInv
<1> QED BY <1>1, <1>2, PassFacts, WorkerMoves DEF Kept, Same

\* A step that lets go of a row, which is written.
LEMMA RowLeaves ==
    ASSUME HandsInv, NEW w \in Workers, NEW p, job' = [job EXCEPT ![w] = p],
           NEW i, Has(job[w], i), NEW row \in Row, outbox' = [outbox EXCEPT ![i] = row],
           episode' = episode, issues' = issues, row.revived = outbox[i].revived,
           row.attempts > 0 \/ MayOpen(outbox, issues, i),
           Good(p, outbox, issues), ~Has(p, i), \A j : Has(p, j) => Has(job[w], j)
    PROVE  HandsInv'
<1>1. /\ outbox \in [1 .. Len(outbox) -> Row] /\ issues \in Seq(Issue)
      /\ Len(outbox) \in Nat /\ outbox \in Seq(Row)
  BY RowFacts
<1>2. i \in 1 .. Len(outbox)
  BY HeldRows
<1>3. outbox' \in Seq(Row) /\ Len(outbox') = Len(outbox)
  <2>1. outbox' \in [1 .. Len(outbox) -> Row]
    BY <1>1, <1>2
  <2> QED BY <1>1, <2>1, LenProperties
<1>4. \A j \in 1 .. Len(outbox) :
        /\ j # i => outbox'[j] = outbox[j]
        /\ j = i => outbox'[j] = row
        /\ MayOpen(outbox, issues, j) => MayOpen(outbox', issues, j)
  BY <1>1, <1>2 DEF MayOpen
<1>5. Good(p, outbox', issues')
  <2>1. \A j \in 1 .. Len(outbox) : Has(p, j) =>
          /\ Kept(outbox[j], outbox'[j])
          /\ MayOpen(outbox, issues, j) => MayOpen(outbox', issues', j)
    BY <1>4 DEF Kept
  <2>2. Good(p, outbox, issues) /\ Len(outbox') \in Nat /\ Len(outbox') >= Len(outbox)
    BY <1>1, <1>3
  <2> QED BY <1>1, <2>1, <2>2, GoodStays DEF Same
<1>6. OpensOnce(outbox', issues')
  BY <1>1, <1>2, <1>3, <1>4 DEF HandsInv, OpensOnce, MayOpen
<1>7. \A j \in 1 .. Len(outbox) : (\E x \in Workers \ {w} : Has(job[x], j)) =>
          /\ Kept(outbox[j], outbox'[j]) /\ ~Has(p, j)
          /\ MayOpen(outbox, issues, j) => MayOpen(outbox', issues', j)
  BY <1>4, PassFacts DEF Kept
<1> QED BY <1>1, <1>3, <1>5, <1>6, <1>7, WorkerMoves DEF Same

\* The rows left after the one in hand.
LEMMA OnwardsFacts ==
    ASSUME HandsInv, NEW w \in Workers, Working(job[w]), NEW p,
           DOMAIN p = {"pc", "rows", "row", "link", "update"},
           p.rows \subseteq job[w].rows
    PROVE  /\ Good(Onwards(p), outbox, issues)
           /\ \A i : Has(Onwards(p), i) => \E r \in p.rows : r.id = i
<1>1. CASE p.rows = {}
  BY <1>1, FreeIsIdle, Idle DEF Onwards
<1>2. CASE p.rows # {}
  <2> DEFINE q == [p EXCEPT !.pc = "next", !.row = 0]
  <2>1. Onwards(p) = q
    BY <1>2 DEF Onwards
  <2>2. q.pc = "next" /\ q.rows = p.rows /\ DOMAIN q = {"pc", "rows", "row", "link", "update"}
    OBVIOUS
  <2> HIDE DEF q
  <2>3. Working(q) /\ ~Calling(q)
    BY <2>2 DEF Working, Calling
  <2>4. Good(q, outbox, issues)
    BY <2>2, <2>3, PassFacts DEF Good, HoldsRows, Searches
  <2>5. \A i : Has(q, i) => \E r \in p.rows : r.id = i
    BY <2>2, <2>3 DEF Has
  <2> QED BY <2>1, <2>4, <2>5
<1> QED BY <1>1, <1>2

\* A row that is claimed.
LEMMA RowClaimed ==
    ASSUME NEW r \in Row
    PROVE  LET q == [r EXCEPT !.claimed = TRUE, !.stale = FALSE, !.attempts = r.attempts + 1]
           IN  q \in Row /\ q.claimed /\ ~q.stale /\ q.attempts = r.attempts + 1
               /\ q.state = r.state /\ q.revived = r.revived
<1> DEFINE n == r.attempts + 1
           q == [r EXCEPT !.claimed = TRUE, !.stale = FALSE, !.attempts = n]
<1>1. n \in Nat
  BY DEF Row
<1> HIDE DEF n
<1>2. /\ q.claimed = TRUE /\ q.stale = FALSE /\ q.attempts = n
      /\ q.state = r.state /\ q.revived = r.revived
  BY DEF Row
<1>3. q \in Row
  BY <1>1 DEF Row
<1> QED BY <1>2, <1>3 DEF n

\* Claiming: what is due and not in anybody's hand, or was for too long.
LEMMA ClaimKeeps ==
    ASSUME HandsInv, NEW w \in Workers, Claim(w) PROVE HandsInv'
<1> DEFINE due == {i \in Ids : Claimable(Released, i)}
           taken == [i \in Ids |-> IF i \notin due THEN Released[i]
                       ELSE [Released[i] EXCEPT !.claimed = TRUE, !.stale = FALSE,
                                                !.attempts = Released[i].attempts + 1]]
           hand == {[id |-> i, attempts |-> taken[i].attempts] : i \in due}
           p == [Free EXCEPT !.pc = "claimed", !.rows = hand]
<1>0. /\ outbox \in [1 .. Len(outbox) -> Row] /\ Ids = 1 .. Len(outbox)
      /\ Len(outbox) \in Nat /\ outbox \in Seq(Row)
      /\ issues \in Seq(Issue)
  BY RowFacts
<1>1. outbox' = taken /\ job' = [job EXCEPT ![w] = p] /\ issues' = issues
      /\ episode' = episode
  BY DEF Claim, alarm
<1>2. /\ p.pc = "claimed" /\ p.rows = hand /\ Working(p) /\ ~Calling(p)
      /\ DOMAIN p = {"pc", "rows", "row", "link", "update"}
  BY DEF Free, Working, Calling
<1>3. \A i \in Ids : /\ Released[i] \in Row /\ Released[i].state = outbox[i].state
                     /\ Released[i].attempts = outbox[i].attempts
                     /\ Released[i].revived = outbox[i].revived
                     /\ ~outbox[i].stale => Released[i] = outbox[i]
  BY <1>0 DEF Released, Row
<1>4. \A i \in due : /\ taken[i].state = "pending" /\ taken[i].claimed /\ ~taken[i].stale
                     /\ taken[i].attempts = outbox[i].attempts + 1
                     /\ taken[i].revived = outbox[i].revived /\ taken[i] \in Row
  <2> SUFFICES ASSUME NEW i \in due
               PROVE  /\ taken[i].state = "pending" /\ taken[i].claimed /\ ~taken[i].stale
                      /\ taken[i].attempts = outbox[i].attempts + 1
                      /\ taken[i].revived = outbox[i].revived /\ taken[i] \in Row
    OBVIOUS
  <2>1. i \in Ids /\ Released[i].state = "pending"
    BY DEF Claimable
  <2>2. taken[i] = [Released[i] EXCEPT !.claimed = TRUE, !.stale = FALSE,
                                       !.attempts = Released[i].attempts + 1]
    BY <2>1
  <2> HIDE DEF taken
  <2>3. Released[i] \in Row /\ Released[i].attempts = outbox[i].attempts
        /\ Released[i].revived = outbox[i].revived
    BY <1>3, <2>1
  <2> QED BY <2>1, <2>2, <2>3, RowClaimed
<1>5. \A i \in Ids \ due : taken[i] = Released[i]
  OBVIOUS
<1>6. \A i \in Ids : (\E x \in Workers : Has(job[x], i)) =>
         i \notin due /\ taken[i] = outbox[i]
  BY <1>0, <1>3, <1>5, HeldRows DEF Claimable
<1>7. taken \in [1 .. Len(outbox) -> Row]
  BY <1>0, <1>3, <1>4, <1>5
<1> HIDE DEF due, taken
<1>8. outbox' \in Seq(Row) /\ Len(outbox') = Len(outbox)
  BY <1>0, <1>1, <1>7, LenProperties
<1>9. \A i \in Ids : /\ outbox[i].attempts \in Nat /\ outbox'[i].revived = outbox[i].revived
                     /\ outbox'[i].attempts >= outbox[i].attempts
                     /\ outbox[i].attempts > 0 \/ MayOpen(outbox, issues, i)
                     /\ MayOpen(outbox, issues, i) => MayOpen(outbox', issues', i)
  <2>1. \A i \in Ids : outbox[i].attempts \in Nat
    BY <1>0 DEF Row
  <2> QED BY <1>0, <1>1, <1>3, <1>4, <1>5, <2>1 DEF MayOpen, HandsInv, OpensOnce
<1>10. OpensOnce(outbox', issues')
  <2>1. OpensOnce(outbox, issues)
    BY DEF HandsInv
  <2>2. \A i \in Ids : outbox'[i].attempts > 0 \/ MayOpen(outbox', issues', i)
    <3>1. \A i \in Ids : outbox[i].attempts > 0 => outbox'[i].attempts > 0
      BY <1>0, <1>1, <1>7, <1>9 DEF Row
    <3> QED BY <1>9, <3>1
  <2> QED BY <1>0, <1>1, <1>8, <1>9, <2>1, <2>2 DEF OpensOnce
<1>11. Good(p, outbox', issues')
  <2>1. \A r \in hand : /\ r.id \in due /\ r = [id |-> r.id, attempts |-> taken[r.id].attempts]
    OBVIOUS
  <2>2. due \subseteq Ids
    BY DEF due
  <2>3. \A r \in hand : Held(outbox', r)
    BY <1>0, <1>1, <1>4, <1>8, <1>9, <2>1, <2>2 DEF Held
  <2>4. \A r, s \in hand : r.id = s.id => r = s
    BY <2>1
  <2>5. \A r \in hand : r.attempts > 1 \/ MayOpen(outbox', issues', r.id)
    BY <1>1, <1>4, <1>9, <2>1, <2>2
  <2> QED BY <1>2, <2>3, <2>4, <2>5 DEF Good, HoldsRows, Searches
<1>12. \A i : Has(p, i) => i \in due
  BY <1>2 DEF Has
<1>13. \A i \in 1 .. Len(outbox) : (\E x \in Workers \ {w} : Has(job[x], i)) =>
          /\ Kept(outbox[i], outbox'[i]) /\ ~Has(p, i)
          /\ MayOpen(outbox, issues, i) => MayOpen(outbox', issues', i)
  BY <1>0, <1>1, <1>6, <1>9, <1>12 DEF Kept
<1> HIDE DEF p
<1> QED BY <1>0, <1>1, <1>8, <1>10, <1>11, <1>13, WorkerMoves DEF Same

\* Rows that are settled or put off.
LEMMA RowWritten ==
    ASSUME NEW i \in Ids, outbox[i] \in Row
    PROVE  /\ \A st \in {"done", "dead"} :
                /\ Settled(i, st) \in Row /\ Settled(i, st).revived = outbox[i].revived
                /\ Settled(i, st).attempts = outbox[i].attempts
           /\ \A n \in Nat :
                /\ PutOff(i, n) \in Row /\ PutOff(i, n).revived = outbox[i].revived
                /\ PutOff(i, n).attempts = n
<1>1. ASSUME NEW st \in {"done", "dead"}
      PROVE  /\ Settled(i, st) \in Row /\ Settled(i, st).revived = outbox[i].revived
             /\ Settled(i, st).attempts = outbox[i].attempts
  BY DEF Settled, Row
<1>2. ASSUME NEW n \in Nat
      PROVE  /\ PutOff(i, n) \in Row /\ PutOff(i, n).revived = outbox[i].revived
             /\ PutOff(i, n).attempts = n
  BY DEF PutOff, Row
<1> QED BY <1>1, <1>2

LEMMA OpenKeeps ==
    ASSUME HandsInv, NEW w \in Workers, Open(w) PROVE HandsInv'
<1>0. /\ outbox \in [1 .. Len(outbox) -> Row] /\ Ids = 1 .. Len(outbox)
      /\ Len(outbox) \in Nat /\ issues \in Seq(Issue) /\ outbox \in Seq(Row)
  BY RowFacts
<1>1. /\ job[w].pc = "claimed" /\ issues' = issues /\ episode' = episode
      /\ Working(job[w])
  BY DEF Open, alarm, Working
<1>2. CASE enabled
  <2> DEFINE p == [job[w] EXCEPT !.pc = "next", !.link = link]
  <2>1. job' = [job EXCEPT ![w] = p] /\ outbox' = outbox
    BY <1>2 DEF Open
  <2>2. p.pc = "next" /\ p.rows = job[w].rows
        /\ DOMAIN p = {"pc", "rows", "row", "link", "update"}
    BY PassFacts
  <2> HIDE DEF p
  <2>3. Working(p) /\ ~Calling(p)
    BY <2>2 DEF Working, Calling
  <2>4. Good(p, outbox, issues)
    BY <1>1, <2>2, <2>3, PassFacts DEF Good, HoldsRows, Searches
  <2>5. \A i : Has(p, i) => Has(job[w], i)
    BY <1>1, <2>2, <2>3 DEF Has
  <2> QED BY <1>1, <2>1, <2>4, <2>5, PassMoves
<1>3. CASE ~enabled
  <2> DEFINE mine(i) == \E r \in job[w].rows : r.id = i
  <2>1. /\ job' = [job EXCEPT ![w] = Free]
        /\ outbox' = [i \in Ids |-> IF mine(i) THEN Settled(i, "done") ELSE outbox[i]]
    BY <1>3 DEF Open
  <2>2. \A i \in Ids : /\ outbox'[i] \in Row /\ outbox'[i].revived = outbox[i].revived
                       /\ outbox'[i].attempts = outbox[i].attempts
                       /\ ~mine(i) => outbox'[i] = outbox[i]
    BY <1>0, <2>1, RowWritten
  <2>3. outbox' \in Seq(Row) /\ Len(outbox') = Len(outbox)
    <3>1. outbox' \in [1 .. Len(outbox) -> Row]
      BY <1>0, <2>1, <2>2
    <3> QED BY <1>0, <3>1, LenProperties
  <2>4. \A i \in Ids : mine(i) => Has(job[w], i)
    BY <1>1 DEF Has
  <2> HIDE DEF mine
  <2>5. OpensOnce(outbox', issues')
    BY <1>0, <1>1, <2>2, <2>3 DEF HandsInv, OpensOnce, MayOpen
  <2>6. Good(Free, outbox', issues') /\ \A i : ~Has(Free, i)
    BY FreeIsIdle, Idle
  <2>7. \A i \in Ids : MayOpen(outbox, issues, i) => MayOpen(outbox', issues', i)
    BY <1>1, <2>2 DEF MayOpen
  <2>8. \A i \in 1 .. Len(outbox) : (\E x \in Workers \ {w} : Has(job[x], i)) =>
            /\ Kept(outbox[i], outbox'[i]) /\ ~Has(Free, i)
            /\ MayOpen(outbox, issues, i) => MayOpen(outbox', issues', i)
    BY <1>0, <2>2, <2>4, <2>6, <2>7, PassFacts DEF Kept
  <2> QED BY <1>0, <1>1, <2>1, <2>3, <2>5, <2>6, <2>8, WorkerMoves DEF Same
<1> QED BY <1>2, <1>3

LEMMA PickKeeps ==
    ASSUME HandsInv, NEW w \in Workers, Pick(w) PROVE HandsInv'
<1>0. outbox \in [1 .. Len(outbox) -> Row] /\ Ids = 1 .. Len(outbox)
  BY RowFacts
<1>1. job[w].pc = "next" /\ Working(job[w])
  BY DEF Pick, Working
<1>2. PICK r \in job[w].rows, waited \in BOOLEAN :
        LET pass == [job[w] EXCEPT !.rows = job[w].rows \ {r}, !.row = r] IN
        IF Creating(pass, r.id) /\ waited /\ Over(r.id)
        THEN /\ outbox' = [outbox EXCEPT ![r.id] = Settled(r.id, "done")]
             /\ job' = [job EXCEPT ![w] = Onwards(pass)]
        ELSE /\ job' = [job EXCEPT ![w] = [pass EXCEPT
                  !.pc = IF pass.link = None /\ r.attempts > 1 THEN "search" ELSE "call"]]
             /\ UNCHANGED outbox
  BY DEF Pick
<1> DEFINE pass == [job[w] EXCEPT !.rows = job[w].rows \ {r}, !.row = r]
<1>3. /\ DOMAIN pass = {"pc", "rows", "row", "link", "update"}
      /\ pass.rows = job[w].rows \ {r} /\ pass.row = r /\ pass.link = job[w].link
  BY PassFacts
<1>4. /\ Held(outbox, r) /\ r.id \in Ids /\ Has(job[w], r.id)
      /\ \A s \in job[w].rows \ {r} : s.id # r.id
      /\ r.attempts > 1 \/ MayOpen(outbox, issues, r.id)
  BY <1>0, <1>1, PassFacts DEF HoldsRows, Searches, Has, Held
<1>5. issues' = issues /\ episode' = episode
  BY DEF Pick, alarm
<1>6. CASE /\ outbox' = [outbox EXCEPT ![r.id] = Settled(r.id, "done")]
           /\ job' = [job EXCEPT ![w] = Onwards(pass)]
  <2> HIDE DEF pass
  <2> DEFINE q == Onwards(pass)
  <2>1. Good(q, outbox, issues) /\ \A i : Has(q, i) => \E s \in pass.rows : s.id = i
    BY <1>1, <1>3, OnwardsFacts
  <2> HIDE DEF q
  <2>2. ~Has(q, r.id) /\ \A i : Has(q, i) => Has(job[w], i)
    BY <1>1, <1>3, <1>4, <2>1 DEF Has
  <2> DEFINE row == Settled(r.id, "done")
  <2>3. /\ row \in Row /\ row.revived = outbox[r.id].revived
        /\ row.attempts > 0
    BY <1>0, <1>4, RowWritten DEF Held
  <2>4. job' = [job EXCEPT ![w] = q]
    BY <1>6 DEF q
  <2>5. outbox' = [outbox EXCEPT ![r.id] = row]
    BY <1>6
  <2> HIDE DEF row
  <2> QED BY <1>4, <1>5, <2>1, <2>2, <2>3, <2>4, <2>5, RowLeaves
<1>7. CASE /\ outbox' = outbox
           /\ job' = [job EXCEPT ![w] = [pass EXCEPT
                  !.pc = IF pass.link = None /\ r.attempts > 1 THEN "search" ELSE "call"]]
  <2> DEFINE q == [pass EXCEPT
                  !.pc = IF pass.link = None /\ r.attempts > 1 THEN "search" ELSE "call"]
  <2>1. /\ DOMAIN q = {"pc", "rows", "row", "link", "update"}
        /\ q.rows = pass.rows /\ q.row = r /\ q.link = pass.link
        /\ q.pc = IF pass.link = None /\ r.attempts > 1 THEN "search" ELSE "call"
    BY <1>3
  <2> HIDE DEF q, pass
  <2>2. Working(q) /\ Calling(q)
    BY <2>1 DEF Working, Calling
  <2>3. HoldsRows(q, outbox)
    BY <1>1, <1>3, <1>4, <2>1, <2>2, PassFacts DEF HoldsRows
  <2>4. Searches(q, outbox, issues)
    BY <1>1, <1>3, <1>4, <2>1, <2>2, PassFacts DEF Searches
  <2>5. \A i : Has(q, i) => Has(job[w], i)
    BY <1>1, <1>3, <1>4, <2>1, <2>2 DEF Has
  <2>6. Good(q, outbox, issues)
    BY <2>1, <2>3, <2>4 DEF Good
  <2>7. job' = [job EXCEPT ![w] = q]
    BY <1>7 DEF q
  <2> QED BY <1>5, <1>7, <2>5, <2>6, <2>7, PassMoves
<1> QED BY <1>2, <1>6, <1>7

\* The storm brake gives an attempt back: a row that opened an issue is on its
\* second at least.
LEMMA HoldKeeps ==
    ASSUME HandsInv, NEW w \in Workers, Hold(w) PROVE HandsInv'
<1>0. outbox \in [1 .. Len(outbox) -> Row] /\ Ids = 1 .. Len(outbox)
  BY RowFacts
<1>1. /\ job[w].pc = "next" /\ Working(job[w]) /\ job' = [job EXCEPT ![w] = Free]
      /\ issues' = issues /\ episode' = episode
  BY DEF Hold, Working, alarm
<1>2. PICK r \in job[w].rows :
        outbox' = [outbox EXCEPT ![r.id] = PutOff(r.id, outbox[r.id].attempts - 1)]
  BY DEF Hold
<1>3. /\ Held(outbox, r) /\ r.id \in Ids /\ Has(job[w], r.id)
      /\ r.attempts > 1 \/ MayOpen(outbox, issues, r.id)
  BY <1>0, <1>1, PassFacts DEF HoldsRows, Searches, Has, Held
<1> DEFINE n == outbox[r.id].attempts - 1
           row == PutOff(r.id, n)
<1>4. n \in Nat /\ (n > 0 \/ MayOpen(outbox, issues, r.id))
  BY <1>0, <1>3 DEF Held, Row
<1> HIDE DEF n
<1>5. row \in Row /\ row.revived = outbox[r.id].revived /\ row.attempts = n
  BY <1>0, <1>3, <1>4, RowWritten
<1>6. outbox' = [outbox EXCEPT ![r.id] = row]
  BY <1>2 DEF n
<1>7. Good(Free, outbox, issues) /\ \A i : ~Has(Free, i)
  BY FreeIsIdle, Idle
<1> HIDE DEF row
<1> QED BY <1>1, <1>3, <1>4, <1>5, <1>6, <1>7, RowLeaves

\* A set of issues has a newest.
LEMMA NewestIsAKey ==
    ASSUME NEW n \in Nat, NEW S \in SUBSET (1 .. n), S # {}
    PROVE  Max(S) \in S
<1> DEFINE T == {n - k : k \in S}
<1>1. T \subseteq Nat /\ T # {}
  <2>1. \A k \in S : n - k \in Nat
    OBVIOUS
  <2>2. T # {}
    <3> PICK k \in S : TRUE
      OBVIOUS
    <3> n - k \in T
      OBVIOUS
    <3> QED OBVIOUS
  <2> QED BY <2>1, <2>2
<1>2. PICK k \in S : \A y \in T : ~(<<y, n - k>> \in OpToRel(<, Nat))
  <2>1. \E x \in T : \A y \in T : ~(<<y, x>> \in OpToRel(<, Nat))
    <3> HIDE DEF T
    <3> QED BY <1>1, NatLessThanWellFounded, WFMin
  <2> QED BY <2>1
<1>3. ASSUME NEW j \in S PROVE k >= j
  <2>1. n - j \in T /\ n - j \in Nat /\ n - k \in Nat
    OBVIOUS
  <2>2. ~(n - j < n - k)
    BY <1>2, <2>1 DEF OpToRel
  <2> QED BY <2>2
<1> QED BY <1>3 DEF Max

\* The search finds no issue only if there is none.
LEMMA SearchKeeps ==
    ASSUME HandsInv, NEW w \in Workers, Search(w) PROVE HandsInv'
<1>0. Len(issues) \in Nat /\ Keys = 1 .. Len(issues)
  BY RowFacts
<1> DEFINE found == IF Found = {} THEN None
                    ELSE [key |-> Max(Found), closed |-> FALSE, old |-> FALSE, wont |-> FALSE]
           p == [job[w] EXCEPT !.pc = "call", !.link = found]
<1>1. /\ job[w].pc = "search" /\ Working(job[w]) /\ Calling(job[w])
      /\ job' = [job EXCEPT ![w] = p]
      /\ outbox' = outbox /\ issues' = issues /\ episode' = episode
  BY DEF Search, Working, Calling, alarm
<1>2. found = None => Found = {}
  <2>1. Found \in SUBSET (1 .. Len(issues))
    BY <1>0 DEF Found
  <2>2. Found # {} => Max(Found) \in Nat
    <3>1. \A S \in SUBSET (1 .. Len(issues)) : S # {} => Max(S) \in S
      BY <1>0, NewestIsAKey
    <3>2. Found # {} => Max(Found) \in Found
      BY <2>1, <3>1
    <3>3. \A k \in Found : k \in Nat
      BY <1>0, <2>1
    <3> QED BY <3>2, <3>3
  <2>3. \A k \in Nat : [key |-> k, closed |-> FALSE, old |-> FALSE, wont |-> FALSE] \in Link
    BY DEF Link
  <2>4. None \notin Link
    BY TicketsAssumption
  <2> QED BY <2>2, <2>3, <2>4
<1>3. found = None => \A i : MayOpen(outbox, issues, i)
  BY <1>0, <1>2 DEF Found, MayOpen, Opened
<1> HIDE DEF found
<1>4. /\ DOMAIN p = {"pc", "rows", "row", "link", "update"}
      /\ p.pc = "call" /\ p.rows = job[w].rows /\ p.row = job[w].row /\ p.link = found
  BY PassFacts
<1> HIDE DEF p
<1>5. Working(p) /\ Calling(p)
  BY <1>4 DEF Working, Calling
<1>6. Good(p, outbox, issues)
  BY <1>1, <1>3, <1>4, <1>5, PassFacts DEF Good, HoldsRows, Searches
<1>7. \A i : Has(p, i) => Has(job[w], i)
  BY <1>1, <1>4, <1>5 DEF Has
<1> QED BY <1>1, <1>6, <1>7, PassMoves

\* What becomes of the issues when Jira does what a row asks: one more, opened by
\* the row, or one that changes between open and done.
LEMMA EffectFacts ==
    ASSUME HandsInv, NEW pass, NEW desk \in BOOLEAN, Effect(pass, desk), ~Missing(pass),
           pass.row.id \in 1 .. Len(outbox)
    PROVE  /\ issues' \in Seq(Issue)
           /\ \/ /\ Ask(pass) # "create" /\ Len(issues') = Len(issues)
                 /\ \A k \in 1 .. Len(issues) :
                      /\ issues'[k].by = issues[k].by /\ issues'[k].over = issues[k].over
                      /\ issues'[k].labelled = issues[k].labelled
                      /\ issues[k].status = "gone" => issues'[k].status = "gone"
              \/ /\ Len(issues') = Len(issues) + 1
                 /\ issues'[Len(issues) + 1].labelled = ~desk
                 /\ \A k \in 1 .. Len(issues) : issues'[k] = issues[k]
                 /\ issues'[Len(issues) + 1].by = pass.row.id
                 /\ pass.link # None => issues'[Len(issues) + 1].over
<1>0. /\ issues \in Seq(Issue) /\ issues \in [1 .. Len(issues) -> Issue]
      /\ Len(issues) \in Nat /\ Len(outbox) \in Nat
  BY RowFacts
<1> DEFINE key == pass.link.key
<1>1. CASE Ask(pass) = "create"
  <2> DEFINE issue == [status |-> "open", by |-> pass.row.id, over |-> pass.link # None,
                      labelled |-> ~desk]
  <2>1. issues' = Append(issues, issue)
    BY <1>1 DEF Effect
  <2>2. issue \in Issue
    BY <1>0 DEF Issue
  <2>3. /\ issue.by = pass.row.id /\ (pass.link # None => issue.over)
        /\ issue.labelled = ~desk
    OBVIOUS
  <2> HIDE DEF issue
  <2>4. /\ issues' \in Seq(Issue) /\ Len(issues') = Len(issues) + 1
        /\ \A k \in 1 .. Len(issues) : issues'[k] = issues[k]
        /\ issues'[Len(issues) + 1] = issue
    BY <1>0, <2>1, <2>2, AppendProperties
  <2> QED BY <2>3, <2>4
<1>2. CASE Ask(pass) # "create" /\ issues' = issues
  BY <1>0, <1>2
<1>3. CASE /\ Ask(pass) # "create"
           /\ \E turned \in {"open", "done"} :
                /\ issues' = [issues EXCEPT ![key].status = turned]
                /\ issues[key].status # "gone"
  <2>1. PICK turned \in {"open", "done"} :
              /\ issues' = [issues EXCEPT ![key].status = turned]
              /\ issues[key].status # "gone"
    BY <1>3
  <2>2. issues' \in [1 .. Len(issues) -> Issue]
    BY <1>0, <2>1 DEF Issue
  <2>3. issues' \in Seq(Issue) /\ Len(issues') = Len(issues)
    BY <1>0, <2>2, LenProperties
  <2>4. \A k \in 1 .. Len(issues) :
          /\ issues'[k].by = issues[k].by /\ issues'[k].over = issues[k].over
          /\ issues'[k].labelled = issues[k].labelled
          /\ issues[k].status = "gone" => issues'[k].status = "gone"
    BY <1>0, <2>1 DEF Issue
  <2> QED BY <1>3, <2>3, <2>4
<1>4. QED
  BY <1>1, <1>2, <1>3 DEF Effect, Status, Missing

\* The row's issue is its first; the pass goes on to what came of it.
LEMMA EffectKeeps ==
    ASSUME HandsInv, NEW w \in Workers, job[w].pc = "call", NEW desk \in BOOLEAN,
           Effect(job[w], desk), ~Missing(job[w]), outbox' = outbox, episode' = episode,
           NEW p, job' = [job EXCEPT ![w] = p], p.pc \in {"commit", "label", "retry"},
           p.pc = "label" =>
               desk /\ Ask(job[w]) = "create" /\ p.update.key = Len(issues) + 1,
           DOMAIN p = {"pc", "rows", "row", "link", "update"},
           p.rows = job[w].rows, p.row = job[w].row
    PROVE  HandsInv'
<1> DEFINE i == job[w].row.id
           t == job[w]
<1>0. /\ Len(outbox) \in Nat /\ Len(issues) \in Nat /\ outbox \in Seq(Row)
      /\ OpensOnce(outbox, issues)
  BY RowFacts DEF HandsInv
<1>1. Working(t) /\ Calling(t) /\ Working(p) /\ Calling(p) /\ p.pc # "call"
  BY DEF Working, Calling
<1>2. /\ Held(outbox, t.row) /\ i \in 1 .. Len(outbox) /\ outbox[i].attempts > 0
      /\ Has(t, i) /\ \A s \in t.rows : s.id # i
      /\ t.link = None => MayOpen(outbox, issues, i)
  BY <1>1, PassFacts DEF HoldsRows, Searches, Held, Has
<1> HIDE DEF i, t
<1>3. /\ issues' \in Seq(Issue) /\ Len(issues') \in Nat
      /\ \A k \in 1 .. Len(issues') : issues'[k].by \in 1 .. Len(outbox)
      /\ \A j \in 1 .. Len(outbox) \ {i} : Opened(issues', j) \subseteq Opened(issues, j)
      /\ outbox[i].revived \/ \A j, k \in Opened(issues', i) : j = k
      /\ Same(issues, issues')
      /\ p.pc = "label" =>
           /\ p.update.key \in 1 .. Len(issues') /\ issues'[p.update.key].by = i
           /\ issues'[p.update.key].over \/ MayOpen(outbox, issues', i)
  <2>1. /\ issues' \in Seq(Issue)
        /\ \/ /\ Ask(t) # "create" /\ Len(issues') = Len(issues)
              /\ \A k \in 1 .. Len(issues) :
                   /\ issues'[k].by = issues[k].by /\ issues'[k].over = issues[k].over
                   /\ issues'[k].labelled = issues[k].labelled
                   /\ issues[k].status = "gone" => issues'[k].status = "gone"
           \/ /\ Len(issues') = Len(issues) + 1
              /\ \A k \in 1 .. Len(issues) : issues'[k] = issues[k]
              /\ issues'[Len(issues) + 1].by = i
              /\ issues'[Len(issues) + 1].labelled = ~desk
              /\ t.link # None => issues'[Len(issues) + 1].over
    BY <1>2, EffectFacts DEF i, t
  <2>2. \A k \in 1 .. Len(issues) : issues[k].by \in 1 .. Len(outbox)
    BY <1>0 DEF OpensOnce
  <2>3. outbox[i].revived \/ \A j, k \in Opened(issues, i) : j = k
    BY <1>0, <1>2 DEF OpensOnce
  <2>4. CASE Len(issues') = Len(issues) + 1
    <3>1. \A k \in 1 .. Len(issues') :
            k \in 1 .. Len(issues) \/ k = Len(issues) + 1
      BY <1>0, <2>4
    <3>2. \A j : Opened(issues', j) \subseteq
                   Opened(issues, j) \cup
                   {k \in {Len(issues) + 1} : j = i /\ t.link = None /\ ~desk}
      BY <1>0, <2>1, <2>4, <3>1 DEF Opened
    <3>3. outbox[i].revived \/ \A j, k \in Opened(issues', i) : j = k
      <4>1. CASE t.link = None
        <5>1. outbox[i].revived \/ Opened(issues, i) = {}
          BY <1>2, <4>1 DEF MayOpen
        <5> QED BY <3>2, <5>1
      <4>2. CASE t.link # None
        BY <2>3, <3>2, <4>2
      <4> QED BY <4>1, <4>2
    <3>4. \A k \in 1 .. Len(issues') : issues'[k].by \in 1 .. Len(outbox)
      BY <1>0, <1>2, <2>1, <2>2, <2>4, <3>1
    <3>5. p.pc = "label" =>
            /\ p.update.key \in 1 .. Len(issues') /\ issues'[p.update.key].by = i
            /\ issues'[p.update.key].over \/ MayOpen(outbox, issues', i)
      <4>1. desk => Opened(issues', i) \subseteq Opened(issues, i)
        BY <3>2
      <4>2. desk /\ MayOpen(outbox, issues, i) => MayOpen(outbox, issues', i)
        BY <4>1 DEF MayOpen
      <4> QED BY <1>0, <1>2, <2>1, <2>4, <4>2
    <3>6. Same(issues, issues')
      BY <1>0, <2>1, <2>4 DEF Same
    <3> QED BY <1>0, <2>1, <2>4, <3>2, <3>3, <3>4, <3>5, <3>6
  <2>5. CASE Len(issues') = Len(issues)
    <3>1. \A k \in 1 .. Len(issues) :
            /\ issues'[k].by = issues[k].by /\ issues'[k].over = issues[k].over
            /\ issues'[k].labelled = issues[k].labelled
            /\ issues[k].status = "gone" => issues'[k].status = "gone"
      BY <1>0, <2>1, <2>5
    <3>2. \A j : Opened(issues', j) \subseteq Opened(issues, j)
      BY <2>5, <3>1 DEF Opened
    <3>3. Same(issues, issues')
      BY <2>5, <3>1 DEF Same
    <3>4. p.pc # "label"
      BY <1>0, <2>1, <2>5 DEF t
    <3> QED BY <1>0, <2>1, <2>2, <2>3, <2>5, <3>1, <3>2, <3>3, <3>4
  <2> QED BY <2>1, <2>4, <2>5
<1>4. \A j \in 1 .. Len(outbox) \ {i} :
        MayOpen(outbox, issues, j) => MayOpen(outbox, issues', j)
  BY <1>3 DEF MayOpen
<1>5. OpensOnce(outbox', issues')
  <2>1. \A j \in 1 .. Len(outbox) : outbox[j].attempts > 0 \/ MayOpen(outbox, issues', j)
    BY <1>0, <1>2, <1>4 DEF OpensOnce
  <2>2. \A j \in 1 .. Len(outbox) :
          outbox[j].revived \/ \A k, l \in Opened(issues', j) : k = l
    BY <1>0, <1>3 DEF OpensOnce
  <2> QED BY <1>3, <2>1, <2>2 DEF OpensOnce
<1>6. Good(p, outbox', issues')
  <2>1. HoldsRows(p, outbox)
    BY <1>1, PassFacts DEF HoldsRows, t
  <2>2. \A r \in p.rows : r.attempts > 1 \/ MayOpen(outbox, issues', r.id)
    <3>1. \A r \in p.rows : /\ r.attempts > 1 \/ MayOpen(outbox, issues, r.id)
                            /\ r.id \in 1 .. Len(outbox) /\ r.id # i
      BY <1>1, <1>2, PassFacts DEF Searches, HoldsRows, Held, t
    <3> QED BY <1>4, <3>1
  <2> QED BY <1>1, <1>3, <2>1, <2>2 DEF Good, Searches, i, t
<1>7. \A j \in 1 .. Len(outbox) : (\E x \in Workers \ {w} : Has(job[x], j)) =>
        /\ Kept(outbox[j], outbox'[j]) /\ ~Has(p, j)
        /\ MayOpen(outbox, issues, j) => MayOpen(outbox', issues', j)
  <2>1. \A j : Has(p, j) => Has(t, j)
    BY <1>1 DEF Has, t
  <2>2. \A j, x : x \in Workers \ {w} /\ Has(job[x], j) => ~Has(t, j)
    BY PassFacts DEF t
  <2> QED BY <1>2, <1>4, <2>1, <2>2 DEF Kept
<1> QED BY <1>0, <1>3, <1>5, <1>6, <1>7, WorkerMoves

\* A step in which the pass keeps its rows, and does not look for the issue anew.
LEMMA PassGoesOn ==
    ASSUME HandsInv, NEW w \in Workers, Calling(job[w]), NEW p,
           job' = [job EXCEPT ![w] = p], p.pc \in {"commit", "retry", "dead"},
           DOMAIN p = {"pc", "rows", "row", "link", "update"},
           p.rows = job[w].rows, p.row = job[w].row,
           episode' = episode, outbox' = outbox, issues' = issues
    PROVE  HandsInv'
<1>1. Working(job[w]) /\ Working(p) /\ Calling(p) /\ p.pc # "call"
  BY DEF Working, Calling
<1>2. Good(p, outbox, issues)
  BY <1>1, PassFacts DEF Good, HoldsRows, Searches
<1>3. \A i : Has(p, i) => Has(job[w], i)
  BY <1>1 DEF Has
<1> QED BY <1>2, <1>3, PassMoves

LEMMA CallKeeps ==
    ASSUME HandsInv, NEW w \in Workers, Call(w) \/ CallMissing(w) \/ CallFails(w)
    PROVE  HandsInv'
<1>0. /\ job[w].pc \in {"search", "call"} /\ Calling(job[w])
      /\ outbox' = outbox /\ episode' = episode
  BY DEF Call, CallMissing, CallFails, Calling, Working, alarm
<1> DEFINE p(pc) == [job[w] EXCEPT !.pc = pc]
           q(u, pc) == [job[w] EXCEPT !.update = u, !.pc = pc]
<1>1. \A pc : /\ DOMAIN p(pc) = {"pc", "rows", "row", "link", "update"} /\ p(pc).pc = pc
              /\ p(pc).rows = job[w].rows /\ p(pc).row = job[w].row
  BY PassFacts
<1>2. \A u, pc : /\ DOMAIN q(u, pc) = {"pc", "rows", "row", "link", "update"}
                 /\ q(u, pc).pc = pc /\ q(u, pc).update = u
                 /\ q(u, pc).rows = job[w].rows /\ q(u, pc).row = job[w].row
  BY PassFacts
<1> DEFINE asked(desk) ==
             IF Ask(job[w]) = "create" /\ desk THEN "label" ELSE "commit"
<1>3. \/ /\ job[w].pc = "call" /\ ~Missing(job[w])
         /\ \E desk \in BOOLEAN :
              /\ Effect(job[w], desk)
              /\ \/ job' = [job EXCEPT ![w] = p("retry")]
                 \/ job' = [job EXCEPT ![w] = q(Update(job[w]), asked(desk))]
      \/ /\ issues' = issues
         /\ \/ \E pc \in {"retry", "dead"} : job' = [job EXCEPT ![w] = p(pc)]
            \/ job' = [job EXCEPT ![w] = q(None, "commit")]
  BY TicketsAssumption DEF Call, CallMissing, CallFails
<1> HIDE DEF p, q
<1>4. ASSUME NEW desk \in BOOLEAN, job[w].pc = "call", ~Missing(job[w]),
             Effect(job[w], desk)
      PROVE  /\ job' = [job EXCEPT ![w] = p("retry")] => HandsInv'
             /\ job' = [job EXCEPT ![w] = q(Update(job[w]), asked(desk))] => HandsInv'
  <2>1. Ask(job[w]) = "create" => Update(job[w]).key = Len(issues) + 1
    BY DEF Update
  <2>2. ASSUME job' = [job EXCEPT ![w] = p("retry")] PROVE HandsInv'
    BY <1>0, <1>1, <1>4, <2>2, EffectKeeps
  <2>3. ASSUME job' = [job EXCEPT ![w] = q(Update(job[w]), asked(desk))] PROVE HandsInv'
    <3> DEFINE pc == asked(desk)
               u == Update(job[w])
               t == q(u, pc)
    <3>1. /\ pc \in {"commit", "label"}
          /\ pc = "label" => Ask(job[w]) = "create" /\ desk
      OBVIOUS
    <3>2. /\ DOMAIN t = {"pc", "rows", "row", "link", "update"} /\ t.pc = pc
          /\ t.update = u /\ t.rows = job[w].rows /\ t.row = job[w].row
      BY <1>2
    <3> HIDE DEF asked, pc, u, t
    <3>3. job' = [job EXCEPT ![w] = t]
      BY <2>3 DEF t, u, pc
    <3>4. Ask(job[w]) = "create" => u.key = Len(issues) + 1
      BY <2>1 DEF u
    <3> QED BY <1>0, <1>4, <3>1, <3>2, <3>3, <3>4, EffectKeeps
  <2> QED BY <2>2, <2>3
<1>5. CASE /\ issues' = issues
           /\ \/ \E pc \in {"retry", "dead"} : job' = [job EXCEPT ![w] = p(pc)]
              \/ job' = [job EXCEPT ![w] = q(None, "commit")]
  BY <1>0, <1>1, <1>2, <1>5, PassGoesOn
<1> QED BY <1>3, <1>4, <1>5

\* The label is put on an issue of the row, which has no other.
LEMMA LabelKeeps ==
    ASSUME HandsInv, NEW w \in Workers, Label(w) \/ LabelFails(w) PROVE HandsInv'
<1> DEFINE t == job[w]
           i == job[w].row.id
           key == job[w].update.key
           p == [job[w] EXCEPT !.pc = "commit"]
<1>0. /\ Len(outbox) \in Nat /\ Len(issues) \in Nat /\ outbox \in Seq(Row)
      /\ issues \in [1 .. Len(issues) -> Issue] /\ OpensOnce(outbox, issues)
  BY RowFacts DEF HandsInv
<1>1. /\ t.pc = "label" /\ Working(t) /\ Calling(t) /\ job' = [job EXCEPT ![w] = p]
      /\ outbox' = outbox /\ episode' = episode
  BY DEF Label, LabelFails, Working, Calling, alarm
<1>2. /\ DOMAIN p = {"pc", "rows", "row", "link", "update"} /\ p.pc = "commit"
      /\ p.rows = t.rows /\ p.row = t.row
  BY PassFacts
<1>3. CASE issues' = issues
  <2> HIDE DEF p
  <2> QED BY <1>1, <1>2, <1>3, PassGoesOn
<1>4. CASE issues' = [issues EXCEPT ![key].labelled = TRUE]
  <2>1. /\ Held(outbox, t.row) /\ i \in 1 .. Len(outbox) /\ outbox[i].attempts > 0
        /\ Has(t, i) /\ \A s \in t.rows : s.id # i
        /\ key \in 1 .. Len(issues) /\ issues[key].by = i
        /\ issues[key].over \/ MayOpen(outbox, issues, i)
    BY <1>1, PassFacts DEF HoldsRows, Searches, Held, Has
  <2> HIDE DEF t, i, key, p
  <2>2. issues' \in [1 .. Len(issues) -> Issue]
    BY <1>0, <1>4 DEF Issue
  <2>3. issues' \in Seq(Issue) /\ Len(issues') = Len(issues)
    BY <1>0, <2>2, LenProperties
  <2>4. \A k \in 1 .. Len(issues) :
          /\ issues'[k].by = issues[k].by /\ issues'[k].over = issues[k].over
          /\ issues'[k].status = issues[k].status
          /\ k # key => issues'[k].labelled = issues[k].labelled
    BY <1>0, <1>4 DEF Issue
  <2>5. \A j : Opened(issues', j) \subseteq
                 Opened(issues, j) \cup {k \in {key} : j = i /\ ~issues[key].over}
    BY <2>1, <2>3, <2>4 DEF Opened
  <2>6. \A j \in 1 .. Len(outbox) \ {i} :
          MayOpen(outbox, issues, j) => MayOpen(outbox, issues', j)
    BY <2>5 DEF MayOpen
  <2>7. outbox[i].revived \/ \A j, k \in Opened(issues', i) : j = k
    BY <1>0, <2>1, <2>5 DEF OpensOnce, MayOpen
  <2>8. Same(issues, issues')
    BY <2>3, <2>4 DEF Same
  <2>9. OpensOnce(outbox', issues')
    <3>1. \A k \in 1 .. Len(issues') : issues'[k].by \in 1 .. Len(outbox)
      BY <1>0, <2>3, <2>4 DEF OpensOnce
    <3>2. \A j \in 1 .. Len(outbox) : outbox[j].attempts > 0 \/ MayOpen(outbox, issues', j)
      BY <1>0, <2>1, <2>6 DEF OpensOnce
    <3>3. \A j \in 1 .. Len(outbox) :
            outbox[j].revived \/ \A k, l \in Opened(issues', j) : k = l
      <4>1. \A j \in 1 .. Len(outbox) \ {i} : Opened(issues', j) \subseteq Opened(issues, j)
        BY <2>5
      <4> QED BY <1>0, <2>7, <4>1 DEF OpensOnce
    <3> QED BY <1>1, <3>1, <3>2, <3>3 DEF OpensOnce
  <2>10. Good(p, outbox', issues')
    <3>1. Working(p) /\ Calling(p)
      BY <1>2 DEF Working, Calling
    <3>2. HoldsRows(p, outbox)
      BY <1>1, <1>2, <3>1, PassFacts DEF HoldsRows, t
    <3>3. \A r \in p.rows : /\ r.attempts > 1 \/ MayOpen(outbox, issues, r.id)
                            /\ r.id \in 1 .. Len(outbox) /\ r.id # i
      BY <1>1, <1>2, <2>1, PassFacts DEF Searches, HoldsRows, Held, t
    <3>4. \A r \in p.rows : r.attempts > 1 \/ MayOpen(outbox, issues', r.id)
      BY <2>6, <3>3
    <3> QED BY <1>1, <1>2, <3>2, <3>4 DEF Good, Searches
  <2>11. \A j \in 1 .. Len(outbox) : (\E x \in Workers \ {w} : Has(job[x], j)) =>
          /\ Kept(outbox[j], outbox'[j]) /\ ~Has(p, j)
          /\ MayOpen(outbox, issues, j) => MayOpen(outbox', issues', j)
    <3>1. \A j : Has(p, j) => Has(t, j)
      BY <1>1, <1>2 DEF Has
    <3>2. \A j, x : x \in Workers \ {w} /\ Has(job[x], j) => ~Has(t, j)
      BY PassFacts DEF t
    <3> QED BY <1>1, <2>1, <2>6, <3>1, <3>2 DEF Kept
  <2> QED BY <1>0, <1>1, <2>3, <2>8, <2>9, <2>10, <2>11, WorkerMoves
<1> QED BY <1>3, <1>4 DEF Label, LabelFails

\* The row in hand is settled or put off.
LEMMA RowInHand ==
    ASSUME HandsInv, NEW w \in Workers, Calling(job[w])
    PROVE  /\ Has(job[w], job[w].row.id) /\ Held(outbox, job[w].row)
           /\ job[w].row.id \in Ids /\ outbox[job[w].row.id] \in Row
           /\ outbox[job[w].row.id].attempts \in Nat
           /\ \A s \in job[w].rows : s.id # job[w].row.id
<1>1. Working(job[w])
  BY DEF Calling
<1>2. /\ Has(job[w], job[w].row.id) /\ Held(outbox, job[w].row)
      /\ \A s \in job[w].rows : s.id # job[w].row.id
  BY <1>1, PassFacts DEF HoldsRows, Has
<1>3. job[w].row.id \in Ids /\ outbox[job[w].row.id] \in Row
  BY <1>2, RowFacts DEF Held
<1> QED BY <1>2, <1>3 DEF Row

LEMMA CommitKeeps ==
    ASSUME HandsInv, NEW w \in Workers, Commit(w) PROVE HandsInv'
<1> DEFINE i == job[w].row.id
           u == job[w].update
           pass == [job[w] EXCEPT !.update = None, !.link = IF u = None THEN job[w].link ELSE link']
           row == Settled(i, "done")
<1>1. /\ Calling(job[w]) /\ Working(job[w])
      /\ outbox' = [outbox EXCEPT ![i] = row]
      /\ job' = [job EXCEPT ![w] = Onwards(pass)]
      /\ issues' = issues /\ episode' = episode
  BY DEF Commit, Calling, Working, alarm
<1>2. /\ Has(job[w], i) /\ Held(outbox, job[w].row) /\ i \in Ids /\ outbox[i] \in Row
      /\ \A s \in job[w].rows : s.id # i
  BY <1>1, RowInHand
<1>3. row \in Row /\ row.revived = outbox[i].revived /\ row.attempts > 0
  BY <1>2, RowWritten DEF Held
<1>4. DOMAIN pass = {"pc", "rows", "row", "link", "update"} /\ pass.rows = job[w].rows
  BY PassFacts
<1> HIDE DEF i, u, pass, row
<1> DEFINE q == Onwards(pass)
<1>5. Good(q, outbox, issues) /\ \A j : Has(q, j) => \E r \in pass.rows : r.id = j
  BY <1>1, <1>4, OnwardsFacts
<1>6. ~Has(q, i) /\ \A j : Has(q, j) => Has(job[w], j)
  BY <1>1, <1>2, <1>4, <1>5 DEF Has
<1>7. job' = [job EXCEPT ![w] = q]
  BY <1>1
<1> HIDE DEF q
<1> QED BY <1>1, <1>2, <1>3, <1>5, <1>6, <1>7, RowLeaves

LEMMA ScheduleRetryKeeps ==
    ASSUME HandsInv, NEW w \in Workers, ScheduleRetry(w) PROVE HandsInv'
<1> DEFINE r == job[w].row
           row == IF job[w].pc = "dead" \/ r.attempts >= MaxAttempts
                  THEN Settled(r.id, "dead") ELSE PutOff(r.id, outbox[r.id].attempts)
<1>1. /\ Calling(job[w])
      /\ outbox' = [outbox EXCEPT ![r.id] = row]
      /\ job' = [job EXCEPT ![w] = Free]
      /\ issues' = issues /\ episode' = episode
  BY DEF ScheduleRetry, Calling, Working, alarm
<1>2. /\ Has(job[w], r.id) /\ Held(outbox, r) /\ r.id \in Ids /\ outbox[r.id] \in Row
      /\ outbox[r.id].attempts \in Nat
  BY <1>1, RowInHand
<1>3. row \in Row /\ row.revived = outbox[r.id].revived /\ row.attempts > 0
  BY <1>2, RowWritten DEF Held
<1>4. Good(Free, outbox, issues) /\ \A i : ~Has(Free, i)
  BY FreeIsIdle, Idle
<1> HIDE DEF r, row
<1> QED BY <1>1, <1>2, <1>3, <1>4, RowLeaves

\* A pass over the inbox, and no pass, have no row in hand.
LEMMA OtherPassesKeep ==
    ASSUME HandsInv, NEW w \in Workers, ClaimInbound(w) \/ ApplyInbound(w) \/ FailInbound(w)
                                            \/ Unusable(w) \/ Die(w)
    PROVE  HandsInv'
<1>1. outbox' = outbox /\ issues' = issues /\ episode' = episode
  BY DEF ClaimInbound, ApplyInbound, FailInbound, Unusable, Die, alarm
<1>2. PICK p : /\ job' = [job EXCEPT ![w] = p] /\ ~Working(p)
               /\ DOMAIN p = {"pc", "rows", "row", "link", "update"}
  <2>1. \A S : LET p == [Free EXCEPT !.pc = "inbound", !.rows = S]
               IN  ~Working(p) /\ DOMAIN p = {"pc", "rows", "row", "link", "update"}
    BY DEF Free, Working
  <2>2. \A S : LET p == [job[w] EXCEPT !.rows = S]
               IN  /\ job[w].pc = "inbound" => ~Working(p)
                   /\ DOMAIN p = {"pc", "rows", "row", "link", "update"}
    BY PassFacts DEF Working
  <2>3. CASE ClaimInbound(w)
    BY <2>1, <2>3 DEF ClaimInbound
  <2>4. CASE ApplyInbound(w) \/ FailInbound(w)
    BY <2>2, <2>4, FreeIsIdle DEF ApplyInbound, FailInbound, Rest
  <2>5. CASE Unusable(w) \/ Die(w)
    BY <2>5, FreeIsIdle DEF Unusable, Die
  <2> QED BY <2>3, <2>4, <2>5
<1>3. Good(p, outbox, issues) /\ \A i : ~Has(p, i)
  BY <1>2, Idle
<1> QED BY <1>1, <1>2, <1>3, PassMoves

-----------------------------------------------------------------------------
(* The theorems.                                                               *)

LEMMA HandsInitially == ASSUME Init PROVE HandsInv
<1>1. outbox = <<>> /\ issues = <<>> /\ episode = 0 /\ job = [w \in Workers |-> Free]
  BY DEF Init
<1>2. Len(outbox) = 0 /\ Len(issues) = 0 /\ outbox \in Seq(Row) /\ issues \in Seq(Issue)
  BY <1>1, EmptySeq
<1>3. Shape
  BY <1>1, <1>2 DEF Shape
<1>4. \A w \in Workers : Good(job[w], outbox, issues)
  BY <1>1, FreeIsIdle, Idle
<1>5. OpensOnce(outbox, issues) /\ OneHandPerRow
  BY <1>2 DEF OpensOnce, OneHandPerRow, Ids
<1> QED BY <1>3, <1>4, <1>5 DEF HandsInv

LEMMA HandsStep ==
    ASSUME HandsInv, "stall" \notin Faults, [Next]_vars PROVE HandsInv'
<1>1. CASE Alarm
  BY <1>1, AlarmKeeps
<1>2. CASE Time
  BY <1>2, TimeKeeps
<1>3. CASE WindowPasses \/ Switch \/ (\E k \in Keys : Touch(k)) \/ (\E i \in Ids : Revive(i))
  BY <1>3, PeopleKeep
<1>4. ASSUME NEW w \in Workers, Run(w) \/ Unusable(w) \/ Hold(w) \/ CallFails(w)
                                       \/ LabelFails(w) \/ Die(w)
      PROVE  HandsInv'
  <2>1. CASE Claim(w) \/ Open(w) \/ Pick(w) \/ Hold(w) \/ Search(w)
    BY <2>1, ClaimKeeps, OpenKeeps, PickKeeps, HoldKeeps, SearchKeeps
  <2>2. CASE Call(w) \/ CallMissing(w) \/ CallFails(w)
    BY <2>2, CallKeeps
  <2>3. CASE Commit(w) \/ ScheduleRetry(w)
    BY <2>3, CommitKeeps, ScheduleRetryKeeps
  <2>4. CASE \/ ClaimInbound(w) \/ ApplyInbound(w) \/ FailInbound(w)
             \/ Unusable(w) \/ Die(w)
    BY <2>4, OtherPassesKeep
  <2>5. CASE Label(w) \/ LabelFails(w)
    BY <2>5, LabelKeeps
  <2> QED BY <1>4, <2>1, <2>2, <2>3, <2>4, <2>5 DEF Run
<1>5. CASE UNCHANGED vars
  <2>1. UNCHANGED <<outbox, issues, job, episode>>
    BY <1>5 DEF vars, alarm
  <2> QED BY <2>1, RowFacts, NobodyMoves DEF Kept
<1> QED BY <1>1, <1>2, <1>3, <1>4, <1>5 DEF Next

\* repo.claim takes rows for this worker and nobody else's: as long as no worker
\* is slower than STALE_CLAIM_S, no row is in the hands of two at once.
THEOREM OneHandPerRowAlways ==
    ASSUME "stall" \notin Faults PROVE Spec => []OneHandPerRow
<1>1. Init => HandsInv
  BY HandsInitially
<1>2. HandsInv /\ [Next]_vars => HandsInv'
  BY HandsStep
<1>3. HandsInv => OneHandPerRow
  BY DEF HandsInv
<1> QED BY <1>1, <1>2, <1>3, PTL DEF Spec

\* Outside a service desk an issue is born with its label.
Labelled == \A k \in Keys : issues[k].labelled
LEMMA LabelledStep ==
    ASSUME HandsInv, Labelled, TRUE \notin Desks, [Next]_vars PROVE Labelled'
<1>0. /\ issues \in Seq(Issue) /\ issues \in [1 .. Len(issues) -> Issue]
      /\ Len(issues) \in Nat /\ Keys = 1 .. Len(issues)
  BY RowFacts
<1>1. CASE issues' = issues
  BY <1>1 DEF Labelled, Keys
<1>2. ASSUME NEW k \in Keys, Touch(k) PROVE Labelled'
  <2>1. PICK st : issues' = [issues EXCEPT ![k].status = st]
    BY <1>2 DEF Touch
  <2>2. DOMAIN issues' = 1 .. Len(issues) /\ Len(issues') = Len(issues)
    BY <1>0, <2>1
  <2>3. \A j \in 1 .. Len(issues) : issues'[j].labelled = issues[j].labelled
    BY <1>0, <2>1 DEF Issue
  <2> QED BY <1>0, <2>2, <2>3 DEF Labelled, Keys
<1>3. ASSUME NEW w \in Workers, Call(w) \/ CallFails(w), issues' # issues PROVE Labelled'
  <2>1. /\ job[w].pc = "call" /\ ~Missing(job[w])
        /\ \E desk \in BOOLEAN : Effect(job[w], desk) /\ ~desk
    BY <1>3, TicketsAssumption DEF Call, CallFails
  <2>2. job[w].row.id \in 1 .. Len(outbox)
    BY <2>1, PassFacts DEF HoldsRows, Held, Calling, Working
  <2>3. /\ issues' \in Seq(Issue)
        /\ \/ /\ Len(issues') = Len(issues)
              /\ \A k \in 1 .. Len(issues) : issues'[k].labelled = issues[k].labelled
           \/ /\ Len(issues') = Len(issues) + 1 /\ issues'[Len(issues) + 1].labelled
              /\ \A k \in 1 .. Len(issues) : issues'[k] = issues[k]
    BY <2>1, <2>2, EffectFacts
  <2> QED BY <1>0, <2>3 DEF Labelled, Keys
<1>4. ASSUME NEW w \in Workers, Label(w) PROVE Labelled'
  <2>1. issues' = [issues EXCEPT ![job[w].update.key].labelled = TRUE]
    BY <1>4 DEF Label
  <2>2. DOMAIN issues' = 1 .. Len(issues) /\ Len(issues') = Len(issues)
    BY <1>0, <2>1
  <2>3. \A j \in 1 .. Len(issues) : issues[j].labelled => issues'[j].labelled
    BY <1>0, <2>1 DEF Issue
  <2> QED BY <1>0, <2>2, <2>3 DEF Labelled, Keys
<1>5. \/ issues' = issues \/ \E k \in Keys : Touch(k)
      \/ \E w \in Workers : Call(w) \/ CallFails(w) \/ Label(w)
  BY DEF Next, Alarm, Time, RaiseAlarm, Escalate, ClearAlarm, Enqueue, FallsDue, GoesStale,
         WindowPasses, Switch, Revive, Run, Claim, Open, Pick, Search, CallMissing, Commit,
         ScheduleRetry, ClaimInbound, ApplyInbound, FailInbound, Unusable, Hold, LabelFails,
         Die, vars
<1> QED BY <1>1, <1>2, <1>3, <1>4, <1>5

\* Two issues that are one count for one.
LEMMA OneAtMost ==
    ASSUME NEW S, \A j, k \in S : j = k PROVE Cardinality(S) <= 1
<1>1. CASE S = {}
  BY <1>1, FS_EmptySet
<1>2. CASE S # {}
  <2>1. PICK k \in S : S = {k}
    BY <1>2
  <2>2. Cardinality({k}) = 1
    BY FS_Singleton
  <2> QED BY <2>1, <2>2
<1> QED BY <1>1, <1>2

\* However often a row is tried again, after lost answers and dead workers, it
\* leaves one labelled issue at most, as long as no worker is slower than
\* STALE_CLAIM_S, and whether or not a service desk opens its issues.
THEOREM RowOpensOneIssueAlways ==
    ASSUME "stall" \notin Faults PROVE Spec => []RowOpensOneIssue
<1>1. Init => HandsInv
  BY HandsInitially
<1>2. HandsInv /\ [Next]_vars => HandsInv'
  BY HandsStep
<1>3. HandsInv => RowOpensOneIssue
  <2> SUFFICES ASSUME HandsInv, NEW i \in Ids, ~outbox[i].revived
               PROVE  Cardinality({k \in OpenedBy(i) : issues[k].labelled}) <= 1
    BY DEF RowOpensOneIssue
  <2>1. \A j, k \in {k \in OpenedBy(i) : issues[k].labelled} : j = k
    BY RowFacts DEF HandsInv, OpensOnce, Opened, OpenedBy
  <2> QED BY <2>1, OneAtMost
<1> QED BY <1>1, <1>2, <1>3, PTL DEF Spec

\* Where no issue is opened on a service desk, that is one issue at all.
THEOREM RetryOpensNoTwinAlways ==
    ASSUME "stall" \notin Faults, TRUE \notin Desks PROVE Spec => []RetryOpensNoTwin
<1>1. Init => HandsInv /\ Labelled
  <2>1. Init => Labelled
    BY EmptySeq DEF Init, Labelled, Keys
  <2> QED BY <2>1, HandsInitially
<1>2. HandsInv /\ Labelled /\ [Next]_vars => HandsInv' /\ Labelled'
  BY HandsStep, LabelledStep
<1>3. HandsInv /\ Labelled => RetryOpensNoTwin
  <2> SUFFICES ASSUME HandsInv, Labelled, NEW i \in Ids, ~outbox[i].revived
               PROVE  Cardinality(OpenedBy(i)) <= 1
    BY DEF RetryOpensNoTwin
  <2>1. \A j, k \in OpenedBy(i) : j = k
    BY RowFacts DEF HandsInv, OpensOnce, Opened, OpenedBy, Labelled
  <2> QED BY <2>1, OneAtMost
<1> QED BY <1>1, <1>2, <1>3, PTL DEF Spec
=============================================================================
