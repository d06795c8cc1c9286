--------------------------- MODULE SpoolPartition ---------------------------
(***************************************************************************)
(* One partition of the collector's store-and-forward spool                *)
(* (collector/internal/spool): the in-memory tail, the segmented log on    *)
(* disk, flush, rotation, shedding, crashes and recovery.                  *)
(*                                                                         *)
(* A record is numbered by the order of Append.  Every frame has length 1, *)
(* so byte counts and offsets are counts of frames; a frame cut short by a *)
(* crash or a full disk is "torn" and ends what can be read of its         *)
(* segment (readRecord answers every malformed frame with                  *)
(* ErrUnexpectedEOF).                                                      *)
(***************************************************************************)
EXTENDS Integers, Sequences, FiniteSets, Functions

CONSTANTS
    SegMax,      \* segment_bytes, in frames
    Cap,         \* the partition's byte budget, in frames
    AgeLimit,    \* whether segments may also be shed for their age
    FlushCount,  \* records in memory that make Append flush inline
    IOErrors,    \* how a flush may fail: see IOErrorKinds
    Crashes,     \* a subset of {"kill", "power"}
    MaxRecords,  \* bound: records ever appended
    MaxCrashes,  \* bound: crashes
    MaxErrors    \* bound: failed writes

\* A write that fails with none or part of its frame on disk, a failed fsync,
\* a next segment that cannot be created.
IOErrorKinds == {"clean", "partial", "sync", "rotate"}

ASSUME SpoolAssumption ==
    /\ SegMax \in Nat \ {0} /\ Cap \in Nat /\ FlushCount \in Nat \ {0}
    /\ AgeLimit \in BOOLEAN
    /\ IOErrors \subseteq IOErrorKinds
    /\ Crashes \subseteq {"kill", "power"}
    /\ MaxRecords \in Nat /\ MaxCrashes \in Nat /\ MaxErrors \in Nat

VARIABLES
    made,        \* records handed to Append: 1 .. made
    mem,         \* memBulk / memReserved
    flush,       \* "idle", "writing" (in append), or "down" (no process)
    written,     \* records of mem the append in progress has written
    disk,        \* the segment files: index -> sequence of frames
    synced,      \* index -> frames of it that an fsync covered
    active,      \* partition.activeIndex
    activeBytes, \* partition.activeBytes
    handle,      \* partition.active: "open" or "closed"
    nextSeq,     \* partition.nextSeq
    shedBytes,   \* Spool.shedBytes
    lost,        \* history: records in a shed segment, or in memory at a crash
    crashes, errors  \* for the bounds

partitionVars == <<made, mem, flush, written, disk, synced, active,
                   activeBytes, handle, nextSeq, shedBytes, lost, crashes,
                   errors>>

Frame(seq, id) == [seq |-> seq, id |-> id, state |-> "whole"]
Torn(seq, id)  == [seq |-> seq, id |-> id, state |-> "torn"]
Frames == [seq : Nat, id : Nat, state : {"whole", "torn"}]

Segments == DOMAIN disk
Oldest == CHOOSE i \in Segments : \A j \in Segments : i <= j
Newest == CHOOSE i \in Segments : \A j \in Segments : j <= i

\* How many frames of segment s a reader gets before the end or a torn frame.
Readable(s) ==
    LET ends == {n \in 0 .. Len(s) : n = Len(s) \/ s[n + 1].state = "torn"}
    IN  CHOOSE n \in ends : \A m \in ends : n <= m

PartitionInit ==
    /\ made = 0 /\ mem = <<>> /\ flush = "idle" /\ written = 0
    /\ disk = [i \in {0} |-> <<>>] /\ synced = [i \in {0} |-> 0]
    /\ active = 0 /\ activeBytes = 0 /\ handle = "open" /\ nextSeq = 0
    /\ shedBytes = 0 /\ lost = {} /\ crashes = 0 /\ errors = 0

-----------------------------------------------------------------------------
(* Append and flushLocked.  One mutex covers both, so nothing is appended  *)
(* to memory while a flush is writing; the reader takes no lock.           *)

Append_ ==
    /\ flush = "idle" /\ made < MaxRecords
    /\ made' = made + 1
    /\ mem' = Append(mem, made + 1)
    /\ flush' = IF Len(mem) + 1 >= FlushCount THEN "writing" ELSE "idle"
    /\ UNCHANGED <<written, disk, synced, active, activeBytes, handle, nextSeq,
                   shedBytes, lost, crashes, errors>>

\* The flush loop's ticker, or Flush on a clean stop.
FlushStart ==
    /\ flush = "idle" /\ mem # <<>>
    /\ flush' = "writing"
    /\ UNCHANGED <<made, mem, written, disk, synced, active, activeBytes,
                   handle, nextSeq, shedBytes, lost, crashes, errors>>

Writing == flush = "writing" /\ written < Len(mem)
Full == activeBytes > 0 /\ activeBytes + 1 > SegMax

\* partition.rotate, between two records of a batch: the old file is closed
\* without an fsync, the new one created empty.
Rotate ==
    /\ Writing /\ Full /\ handle = "open"
    /\ active' = active + 1
    /\ activeBytes' = 0
    /\ disk' = [i \in Segments \cup {active + 1} |->
                   IF i = active + 1 THEN <<>> ELSE disk[i]]
    /\ synced' = [i \in Segments \cup {active + 1} |->
                     IF i = active + 1 THEN 0 ELSE synced[i]]
    /\ UNCHANGED <<made, mem, flush, written, handle, nextSeq, shedBytes, lost,
                   crashes, errors>>

\* append returned an error: memory keeps the whole batch.
KeepBatch ==
    /\ flush' = "idle" /\ written' = 0
    /\ UNCHANGED <<made, mem, synced, active, activeBytes, shedBytes, lost,
                   crashes>>

\* The old file is closed and the new one cannot be created; from then on
\* rotate fails at closing the old file again.  Nothing is written any more
\* and a restart scans for nextSeq, so the further increments of it that the
\* retries make are left out (they would make the state space infinite).
RotateError ==
    /\ Writing /\ Full
    /\ \/ /\ handle = "open" /\ "rotate" \in IOErrors /\ errors < MaxErrors
          /\ errors' = errors + 1 /\ nextSeq' = nextSeq + 1
       \/ handle = "closed" /\ UNCHANGED <<errors, nextSeq>>
    /\ handle' = "closed"
    /\ KeepBatch /\ UNCHANGED disk

Write ==
    /\ Writing /\ ~Full
    /\ nextSeq' = nextSeq + 1
    /\ disk' = [disk EXCEPT ![active] = Append(@, Frame(nextSeq + 1, mem[written + 1]))]
    /\ activeBytes' = activeBytes + 1
    /\ written' = written + 1
    /\ UNCHANGED <<made, mem, flush, synced, active, handle, shedBytes, lost,
                   crashes, errors>>

\* Part of the frame that was to be written next is in the segment.
TearFrame == disk' = [disk EXCEPT ![active] = Append(@, Torn(nextSeq + 1, mem[written + 1]))]

WriteError(how) ==
    /\ how \in IOErrors /\ errors < MaxErrors
    /\ Writing /\ ~Full
    /\ errors' = errors + 1
    /\ nextSeq' = nextSeq + 1
    /\ IF how = "partial" THEN TearFrame ELSE UNCHANGED disk
    /\ KeepBatch /\ UNCHANGED handle

\* The fsync fails after the whole batch was written.
SyncError ==
    /\ "sync" \in IOErrors /\ errors < MaxErrors
    /\ flush = "writing" /\ written = Len(mem)
    /\ errors' = errors + 1
    /\ KeepBatch /\ UNCHANGED <<disk, handle, nextSeq>>

\* The frames on disk in the segments of a set, and the records in them.
Size(segs) == Cardinality(UNION {{i} \X (1 .. Len(disk[i])) : i \in segs})
Records(segs) == UNION {{disk[i][n].id : n \in 1 .. Len(disk[i])} : i \in segs}

\* Mutant: the segments are listed newest first.
Until(k) == {i \in Segments : i <= k}

Since(k) == {i \in Segments : i >= k}

\* Mutant: at most one segment is shed.
ShedOne(k) ==
    /\ Size(Segments) <= Cap => k = Oldest
    /\ Size(Segments) > Cap => k = Oldest + 1 \/ k = Newest
    /\ k \in Oldest .. Oldest + 1
    /\ disk' = [i \in Since(k) |-> disk[i]]
    /\ shedBytes' = shedBytes + Size(Segments \ Since(k))
    /\ lost' = lost \cup Records(Segments \ Since(k))

\* shed removes the oldest segments while the partition is over its byte
\* budget, or for as long as they are too old; never the newest.
Shed(k) ==
    /\ Size(Since(k)) <= Cap \/ k = Newest
    /\ AgeLimit \/ \A j \in {i \in Segments : i < k} : Size(Since(j)) > Cap
    /\ disk' = [i \in Since(k) |-> disk[i]]
    /\ shedBytes' = shedBytes + Size(Segments \ Since(k))
    /\ lost' = lost \cup Records(Segments \ Since(k))

\* The fsync: it covers the active segment only.
Sync(k) == synced' = [i \in Since(k) |-> IF i = active THEN Len(disk[i]) ELSE synced[i]]

\* The batch is written: fsync, forget memory, shed.
FlushEnd ==
    /\ flush = "writing" /\ written = Len(mem)
    /\ mem' = <<>> /\ written' = 0 /\ flush' = "idle"
    /\ \E k \in Segments : Shed(k) /\ Sync(k)
    /\ UNCHANGED <<made, active, activeBytes, handle, nextSeq, crashes, errors>>

-----------------------------------------------------------------------------
(* Crashes and recovery.                                                   *)

\* kill -9: memory is gone; a write in progress may leave part of its frame.
Kill(partial) ==
    /\ "kill" \in Crashes
    /\ partial => Writing /\ ~Full /\ handle = "open"
    /\ IF partial THEN TearFrame ELSE UNCHANGED disk
    /\ UNCHANGED synced

\* Power loss: besides, every frame no fsync covered may be missing.
PowerLoss(cut) ==
    /\ "power" \in Crashes
    /\ \A i \in Segments : cut[i] \in synced[i] .. Len(disk[i])
    /\ disk' = [i \in Segments |-> SubSeq(disk[i], 1, cut[i])]
    /\ synced' = cut

\* A segment may exceed SegMax by the torn frames append does not count.
Cuts == [Segments -> 0 .. SegMax + MaxErrors + MaxCrashes]

Crash ==
    /\ crashes < MaxCrashes /\ flush # "down"
    /\ \/ \E partial \in BOOLEAN : Kill(partial)
       \/ \E cut \in Cuts : PowerLoss(cut)
    /\ crashes' = crashes + 1
    /\ lost' = lost \cup Range(mem)
    /\ mem' = <<>> /\ written' = 0 /\ flush' = "down"
    /\ UNCHANGED <<made, active, activeBytes, handle, nextSeq, shedBytes, errors>>

\* scanMaxSeq of the newest segment: 0 when nothing in it can be read.
ScanMaxSeq(s) == IF Readable(s) = 0 THEN 0
                 ELSE LET seqs == {s[n].seq : n \in 1 .. Readable(s)}
                      IN  CHOOSE q \in seqs : \A r \in seqs : r <= q

\* openPartition: sequence numbers and the append position come from the
\* newest segment, which is reopened as it is.
OpenPartition ==
    /\ flush = "down"
    /\ flush' = "idle"
    /\ nextSeq' = ScanMaxSeq(disk[Newest]) + 1
    /\ active' = Newest
    /\ activeBytes' = Len(disk[Newest])
    /\ handle' = "open"
    /\ shedBytes' = 0
    /\ UNCHANGED <<made, mem, written, disk, synced, lost, crashes, errors>>

PartitionNext ==
    \/ Append_ \/ FlushStart \/ Rotate \/ Write \/ FlushEnd
    \/ RotateError \/ SyncError
    \/ \E how \in {"clean", "partial"} : WriteError(how)
    \/ Crash \/ OpenPartition

PartitionSpec == PartitionInit /\ [][PartitionNext]_partitionVars

\* The flush loop runs for as long as the process does, and the disk
\* does not refuse every write for ever.
Flusher == FlushStart \/ Rotate \/ RotateError \/ Write \/ FlushEnd
FairPartitionSpec == PartitionSpec /\ WF_partitionVars(Flusher)

-----------------------------------------------------------------------------
(* Properties of the partition alone.                                      *)

PartitionTypeOK ==
    /\ made \in 0 .. MaxRecords /\ mem \in Seq(1 .. made)
    /\ flush \in {"idle", "writing", "down"} /\ written \in 0 .. Len(mem)
    /\ Segments \subseteq Nat /\ Segments # {}
    /\ \A i \in Segments : disk[i] \in Seq(Frames)
    /\ DOMAIN synced = Segments
    /\ \A i \in Segments : synced[i] \in 0 .. Len(disk[i])
    /\ active \in Nat /\ activeBytes \in Nat /\ handle \in {"open", "closed"}
    /\ nextSeq \in Nat /\ shedBytes \in Nat /\ lost \subseteq 1 .. made
    /\ crashes \in 0 .. MaxCrashes /\ errors \in 0 .. MaxErrors

\* The segment files are consecutive and end with the one being written:
\* shedding leaves no hole for the reader to wait at, and never takes the
\* active file away from under the writer.
SegmentsContiguous == Segments = Oldest .. active

\* Inside a segment the sequence numbers a reader meets increase, across any
\* crashes, failed writes and reopenings.
SeqsIncreaseInSegment ==
    \A i \in Segments : \A n \in 2 .. Readable(disk[i]) :
        disk[i][n - 1].seq < disk[i][n].seq

\* A segment holds at most SegMax frames besides the torn ones: rotation is
\* decided record by record, so one flush cannot make a segment too large to
\* shed (the comment on partition.append).
SegmentsBounded ==
    \A i \in Segments :
        Cardinality({n \in 1 .. Len(disk[i]) : disk[i][n].state = "whole"}) <= SegMax

\* A flush that completes leaves the partition within its byte budget, or with
\* a single segment.
FlushRestoresBudget ==
    [][FlushEnd => Size(Segments)' <= Cap \/ Cardinality(Segments') = 1]_partitionVars

\* The records a reader can get from the log.
ReadableRecords ==
    UNION {{disk[i][n].id : n \in 1 .. Readable(disk[i])} : i \in Segments}

\* "kill -9 loses at most the in-memory tail" (spool.go): a record is in memory,
\* readable on disk, was in memory at a crash, or was shed.
CrashLosesOnlyMemory ==
    flush = "idle" => 1 .. made \subseteq Range(mem) \cup ReadableRecords \cup lost

\* There is one sequence authority (gateway.go): for as long as the process
\* lives, numbers increase along the whole log whatever writes fail, so the
\* platform never takes a record for a duplicate of an earlier one.
SeqsIncrease ==
    crashes = 0 => \A i, j \in Segments :
        \A n \in 1 .. Readable(disk[i]), m \in 1 .. Readable(disk[j]) :
            i < j \/ (i = j /\ n < m) => disk[i][n].seq < disk[j][m].seq

\* "Append queues one record for eventual disk durability" (spool.go): what is in
\* memory does not stay there.
MemoryIsFlushed == mem # <<>> ~> mem = <<>>
=============================================================================
