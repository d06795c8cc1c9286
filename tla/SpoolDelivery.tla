--------------------------- MODULE SpoolDelivery ---------------------------
(***************************************************************************)
(* Store and forward: one spool partition, its replay reader               *)
(* (collector/internal/spool/replay.go), the gateway publisher's drain     *)
(* loop (collector/internal/publish/gateway.go) and the platform's batches *)
(* endpoint.                                                               *)
(***************************************************************************)
EXTENDS SpoolPartition, CollectorGateway

CONSTANT NoSlot

ASSUME NoSlotAssumption == NoSlot \notin Slots

VARIABLES
    cur,      \* reader.cur
    file,     \* the position of reader.f, Closed, or Ended
    saved,    \* the cursor file on disk
    hand,     \* the record the drain loop is sending, or Nothing
    waiting   \* the slot whose answer it waits for, or NoSlot

readerVars == <<cur, file, saved, hand, waiting>>
vars == <<partitionVars, gatewayVars, readerVars>>

Closed  == -1
Ended   == -2   \* end of file seen, the next segment not yet looked for
Nothing == Frame(0, 0)
Start   == [seg |-> 0, off |-> 0]
up      == flush # "down"

Init ==
    /\ PartitionInit /\ GatewayInit
    /\ cur = Start /\ saved = Start /\ file = Closed
    /\ hand = Nothing /\ waiting = NoSlot

-----------------------------------------------------------------------------
(* reader.next: the writer appends, rotates and sheds between its steps.   *)

Reading == up /\ hand = Nothing /\ file # Ended

\* The cursor's segment was shed: jump to the oldest one left.
CatchUp ==
    /\ Reading /\ cur.seg < Oldest
    /\ cur' = [seg |-> Oldest, off |-> 0] /\ file' = Closed
    /\ UNCHANGED <<partitionVars, gatewayVars, saved, hand, waiting>>

\* An open file is read on from where it is; else it is opened at the cursor.
Position == IF file = Closed THEN cur.off ELSE file
AtEnd == Position >= Readable(disk[cur.seg])

\* Mutant: the cursor is advanced and saved when the record is read.
ReadRecordSaves ==
    /\ Reading /\ cur.seg \in Segments /\ ~AtEnd
    /\ hand' = disk[cur.seg][Position + 1]
    /\ file' = Position + 1
    /\ saved' = [cur EXCEPT !.off = Position + 1]
    /\ UNCHANGED <<partitionVars, gatewayVars, cur, waiting>>

ReadRecord ==
    /\ Reading /\ cur.seg \in Segments /\ ~AtEnd
    /\ hand' = disk[cur.seg][Position + 1]
    /\ file' = Position + 1
    /\ UNCHANGED <<partitionVars, gatewayVars, cur, saved, waiting>>

EndOfFile ==
    /\ Reading /\ cur.seg \in Segments /\ AtEnd
    /\ file' = Ended
    /\ UNCHANGED <<partitionVars, gatewayVars, cur, saved, hand, waiting>>

\* os.Stat finds the next segment.
NextSegment ==
    /\ up /\ file = Ended
    /\ cur.seg + 1 \in Segments
    /\ cur' = [seg |-> cur.seg + 1, off |-> 0] /\ file' = Closed
    /\ UNCHANGED <<partitionVars, gatewayVars, saved, hand, waiting>>

\* Mutant: the reader that caught up stays at the end of the file.
CaughtUpKeepsFile ==
    /\ up /\ file = Ended
    /\ cur.seg + 1 \notin Segments
    /\ UNCHANGED vars

\* It does not: the reader has caught up, and the loop sleeps.
CaughtUp ==
    /\ up /\ file = Ended
    /\ cur.seg + 1 \notin Segments
    /\ file' = Closed
    /\ UNCHANGED <<partitionVars, gatewayVars, cur, saved, hand, waiting>>

-----------------------------------------------------------------------------
(* The drain loop's send and what becomes of it.                           *)

Send(s) ==
    /\ up /\ hand # Nothing /\ waiting = NoSlot
    /\ Arrive(s, hand.seq, hand.id)
    /\ waiting' = s
    /\ UNCHANGED <<partitionVars, cur, file, saved, hand>>

\* 2xx: Ack advances the cursor by the record's length and saves it.
Ack ==
    /\ cur' = [cur EXCEPT !.off = @ + 1]
    /\ saved' = cur'
    /\ hand' = Nothing /\ waiting' = NoSlot
    /\ UNCHANGED file

\* An error: log, sleep and go round the loop, which calls Next again.
SendFailed ==
    /\ hand' = Nothing /\ waiting' = NoSlot
    /\ UNCHANGED <<cur, file, saved>>

\* Mutant: any answer the platform gives acknowledges the record in hand.
AcceptedAny(s) == IF hand # Nothing THEN Ack ELSE UNCHANGED readerVars

\* The platform answers slot s; nobody reads the answer to an abandoned one.
Accepted(s) == IF waiting = s THEN Ack ELSE UNCHANGED readerVars
Rejected(s) == IF waiting = s THEN SendFailed ELSE UNCHANGED readerVars

Serve(s) ==
    /\ \/ (Check(s) \/ XAdd(s)) /\ UNCHANGED readerVars
       \/ (Duplicate(s) \/ Commit(s)) /\ Accepted(s)
    /\ UNCHANGED partitionVars

Disturb(s) ==
    /\ Refuse(s) \/ Die(s)
    /\ Rejected(s)
    /\ UNCHANGED partitionVars

\* The HTTP client gives up; the platform goes on serving the request.
Timeout ==
    /\ "timeout" \in Faults
    /\ up /\ waiting # NoSlot
    /\ SendFailed
    /\ UNCHANGED <<partitionVars, gatewayVars>>

-----------------------------------------------------------------------------
(* The collector process: the spool's own steps leave the reader alone,    *)
(* a crash takes it down, and Open starts it at the saved cursor.          *)

SpoolStep ==
    /\ \/ Append_ \/ FlushStart \/ Rotate \/ Write \/ FlushEnd
       \/ RotateError \/ SyncError
       \/ \E how \in {"clean", "partial"} : WriteError(how)
    /\ UNCHANGED <<gatewayVars, readerVars>>

\* The cursor file is renamed into place without an fsync, so a power loss may
\* undo it; a cursor that does not parse starts over.
CrashCollector ==
    /\ Crash
    /\ saved' \in IF "power" \in Crashes THEN {saved, Start} ELSE {saved}
    /\ file' = Closed /\ hand' = Nothing /\ waiting' = NoSlot
    /\ UNCHANGED <<gatewayVars, cur>>

OpenReader ==
    /\ OpenPartition
    /\ cur' = saved
    /\ UNCHANGED <<gatewayVars, file, saved, hand, waiting>>

Reader == CatchUp \/ ReadRecord \/ EndOfFile \/ NextSegment \/ CaughtUp

Next ==
    \/ SpoolStep \/ Reader
    \/ \E s \in Slots : Send(s) \/ Serve(s) \/ Disturb(s)
    \/ Timeout
    \/ Expire /\ UNCHANGED <<partitionVars, readerVars>>
    \/ CrashCollector \/ OpenReader

Spec == Init /\ [][Next]_vars

\* The flush loop and the drain loop run for as long as the process does, the
\* platform finishes the requests it serves, a dead collector is restarted.
Fairness ==
    /\ WF_vars(Flusher /\ UNCHANGED <<gatewayVars, readerVars>>)
    /\ WF_vars(Reader) /\ WF_vars(\E s \in Slots : Send(s))
    /\ \A s \in Slots : WF_vars(Serve(s))
    /\ WF_vars(OpenReader)

FairSpec == Spec /\ Fairness

-----------------------------------------------------------------------------
(* Properties.                                                             *)

DeliveryTypeOK ==
    /\ PartitionTypeOK /\ GatewayTypeOK
    /\ cur \in [seg : Nat, off : Nat] /\ saved \in [seg : Nat, off : Nat]
    /\ file \in Nat \cup {Closed, Ended} /\ hand \in Frames
    /\ waiting \in Slots \cup {NoSlot}

Delivered == {stream[n].id : n \in 1 .. Len(stream)}

\* The cursor advances past a record only once the platform holds it, or holds
\* a later one of its sequence numbers: an acknowledgement is never based on
\* a send that failed, timed out or was cut off.
AckMeansStored ==
    [][saved' # saved /\ up' =>
         \E n \in 1 .. Len(stream) : stream[n].seq >= hand.seq]_vars

\* The platform receives each record at most once and in the order of Append.
DeliveredInOrder ==
    \A n \in 2 .. Len(stream) : stream[n - 1].id < stream[n].id

\* What the saved cursor has passed, the platform has: "a crash between next and
\* ack replays the same record again rather than skipping one that was never
\* actually delivered" (replay.go).
Smaller(a, b) == IF a < b THEN a ELSE b
Passed(i) == IF i < saved.seg THEN Readable(disk[i])
             ELSE IF i = saved.seg THEN Smaller(saved.off, Readable(disk[i])) ELSE 0
NothingSkipped ==
    \A i \in Segments : \A n \in 1 .. Passed(i) : disk[i][n].id \in Delivered

\* Every record a reader could get from the disk reaches the platform.
SpooledIsDelivered ==
    \A id \in 1 .. MaxRecords : id \in ReadableRecords ~> id \in Delivered
=============================================================================
