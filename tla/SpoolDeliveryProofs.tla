------------------------- MODULE SpoolDeliveryProofs -------------------------
(***************************************************************************)
(* The path from Append to the stream, for every segment size, budget,     *)
(* pattern of crashes and failed writes, number of concurrent requests and *)
(* platform fault: first the log by itself, then the endpoint under any    *)
(* client, then the two together with the reader and the drain loop.       *)
(***************************************************************************)
EXTENDS SpoolDelivery, SequenceTheorems, FiniteSetTheorems, WellFoundedInduction, TLAPS

-----------------------------------------------------------------------------
(* The log.                                                                *)

\* The segments form an interval that ends at the active one.
Interval == active \in Nat /\ \E lo \in 0 .. active : Segments = lo .. active

\* In an interval, the newest segment is the active one and the oldest its
\* lower end.
LEMMA IntervalEnds ==
    ASSUME active \in Nat, NEW lo \in 0 .. active, Segments = lo .. active
    PROVE  Newest = active /\ Oldest = lo
<1>1. active \in Segments /\ \A j \in Segments : j <= active
  OBVIOUS
<1>2. lo \in Segments /\ \A j \in Segments : lo <= j
  OBVIOUS
<1>3. Newest \in Segments /\ \A j \in Segments : j <= Newest
  BY <1>1 DEF Newest
<1>4. Oldest \in Segments /\ \A j \in Segments : Oldest <= j
  BY <1>2 DEF Oldest
<1> QED BY <1>1, <1>2, <1>3, <1>4

\* What a step can do to the set of segments and to the active index.
LEMMA IntervalStep == Interval /\ [PartitionNext]_partitionVars => Interval'
<1> SUFFICES ASSUME Interval, [PartitionNext]_partitionVars PROVE Interval'
  OBVIOUS
<1> PICK lo \in 0 .. active : Segments = lo .. active
  BY DEF Interval
<1>0. active \in Nat
  BY DEF Interval
<1>1. ASSUME active' = active, DOMAIN disk' = DOMAIN disk PROVE Interval'
  BY <1>0, <1>1 DEF Interval, Segments
<1>2. CASE Rotate
  <2>1. active' = active + 1 /\ DOMAIN disk' = (lo .. active) \cup {active + 1}
    BY <1>2 DEF Rotate, Segments
  <2>2. DOMAIN disk' = lo .. active' /\ lo \in 0 .. active' /\ active' \in Nat
    BY <1>0, <2>1
  <2> QED BY <2>2 DEF Interval, Segments
<1>3. CASE FlushEnd
  <2> PICK k \in Segments : Shed(k) /\ Sync(k)
    BY <1>3 DEF FlushEnd
  <2>1. active' = active /\ DOMAIN disk' = {i \in lo .. active : i >= k}
    BY <1>3 DEF FlushEnd, Shed, Since, Segments
  <2>2. k \in lo .. active
    BY DEF Segments
  <2>3. DOMAIN disk' = k .. active' /\ k \in 0 .. active' /\ active' \in Nat
    BY <1>0, <2>1, <2>2
  <2> QED BY <2>3 DEF Interval, Segments
<1>4. CASE OpenPartition
  <2>1. active' = active /\ disk' = disk
    BY <1>0, <1>4, IntervalEnds DEF OpenPartition
  <2> QED BY <1>1, <2>1
<1>5. CASE Crash
  <2>1. active' = active
    BY <1>5 DEF Crash
  <2>2. DOMAIN disk' = DOMAIN disk
    BY <1>5 DEF Crash, Kill, TearFrame, PowerLoss, Segments
  <2> QED BY <1>1, <2>1, <2>2
<1>6. CASE Write
  BY <1>1, <1>6 DEF Write
<1>7. ASSUME NEW how \in {"clean", "partial"}, WriteError(how) PROVE Interval'
  BY <1>1, <1>7 DEF WriteError, TearFrame, KeepBatch
<1>8. CASE Append_ \/ FlushStart \/ RotateError \/ SyncError \/ UNCHANGED partitionVars
  BY <1>1, <1>8 DEF Append_, FlushStart, RotateError, SyncError, KeepBatch,
                    partitionVars
<1> QED BY <1>2, <1>3, <1>4, <1>5, <1>6, <1>7, <1>8 DEF PartitionNext

LEMMA IntervalInvariance == PartitionSpec => []Interval
<1>1. PartitionInit => Interval
  <2> SUFFICES ASSUME PartitionInit PROVE Interval
    OBVIOUS
  <2>1. active = 0 /\ DOMAIN disk = {0}
    BY DEF PartitionInit
  <2>2. 0 \in 0 .. 0 /\ {0} = 0 .. 0
    OBVIOUS
  <2> QED BY <2>1, <2>2 DEF Interval, Segments
<1> QED BY <1>1, IntervalStep, PTL DEF PartitionSpec

\* No flush, rotation, crash, recovery or shedding leaves a hole in the log or
\* deletes the segment being written.
THEOREM LogStaysContiguous == PartitionSpec => []SegmentsContiguous
<1>1. Interval => SegmentsContiguous
  BY IntervalEnds DEF Interval, SegmentsContiguous
<1> QED BY <1>1, IntervalInvariance, PTL

\* Every flush that completes brings the partition back within its byte budget
\* or down to the active segment, whatever was shed for its age besides.
THEOREM FlushKeepsBudget == PartitionSpec => FlushRestoresBudget
<1>1. ASSUME Interval, FlushEnd
      PROVE  Size(Segments)' <= Cap \/ Cardinality(Segments') = 1
  <2> PICK lo \in 0 .. active : Segments = lo .. active
    BY <1>1 DEF Interval
  <2> PICK k \in Segments : Shed(k)
    BY <1>1 DEF FlushEnd
  <2>1. disk' = [i \in Since(k) |-> disk[i]] /\ Segments' = Since(k)
    BY DEF Shed, Segments
  <2>2. CASE Size(Since(k)) <= Cap
    <3>1. UNION {{i} \X (1 .. Len(disk'[i])) : i \in Segments'}
            = UNION {{i} \X (1 .. Len(disk[i])) : i \in Since(k)}
      BY <2>1
    <3> QED BY <2>2, <3>1 DEF Size
  <2>3. CASE k = Newest
    <3>1. k = active /\ active \in Nat
      BY <1>1, <2>3, IntervalEnds DEF Interval
    <3>2. Segments' = {active}
      BY <2>1, <3>1 DEF Since
    <3> QED BY <3>2, FS_Singleton
  <2> QED BY <2>2, <2>3 DEF Shed
<1>2. Interval /\ [PartitionNext]_partitionVars
        => [FlushEnd => Size(Segments)' <= Cap \/ Cardinality(Segments') = 1]_partitionVars
  BY <1>1
<1> QED BY <1>2, IntervalInvariance, PTL DEF PartitionSpec, FlushRestoresBudget

-----------------------------------------------------------------------------
(* What the log holds.  A log is a function from segments to sequences of  *)
(* frames; the steps append a frame to one segment, add an empty segment,  *)
(* drop segments, or cut segments short.                                   *)

\* Frames that Append numbered: their sequence numbers start at 1 and their
\* records are among the first m made.
GoodLog(d, m) ==
    \A i \in DOMAIN d :
        /\ d[i] \in Seq(Frames)
        /\ \A n \in 1 .. Len(d[i]) : d[i][n].seq > 0 /\ d[i][n].id \in 1 .. m

LEMMA LeastOf ==
    ASSUME NEW S \in SUBSET Nat, S # {}
    PROVE  \E x \in S : \A y \in S : x <= y
<1>1. PICK x \in S : \A y \in S : ~ (<<y, x>> \in OpToRel(<, Nat))
  BY NatLessThanWellFounded, WFMin
<1>2. \A y \in S : ~ (y < x)
  BY <1>1 DEF OpToRel
<1>3. \A y \in S : x <= y
  BY <1>2
<1> QED BY <1>3

\* A reader gets the frames before the first torn one.
LEMMA ReadablePrefix ==
    ASSUME NEW s \in Seq(Frames)
    PROVE  /\ Readable(s) \in 0 .. Len(s)
           /\ \A n \in 1 .. Readable(s) : s[n].state # "torn"
           /\ Readable(s) = Len(s) \/ s[Readable(s) + 1].state = "torn"
<1> DEFINE ends == {n \in 0 .. Len(s) : n = Len(s) \/ s[n + 1].state = "torn"}
<1>1. Len(s) \in Nat /\ Len(s) \in ends /\ ends \subseteq Nat
  OBVIOUS
<1>2. \E n \in ends : \A m \in ends : n <= m
  <2> HIDE DEF ends
  <2> QED BY <1>1, LeastOf
<1>3. Readable(s) \in ends /\ \A m \in ends : Readable(s) <= m
  BY <1>2 DEF Readable
<1>4. ASSUME NEW n \in 1 .. Readable(s), s[n].state = "torn" PROVE FALSE
  <2>1. n - 1 \in ends
    BY <1>1, <1>3, <1>4
  <2>2. Readable(s) <= n - 1 /\ n <= Readable(s) /\ n \in Nat /\ Readable(s) \in Nat
    BY <1>1, <1>3, <2>1
  <2> QED BY <2>2
<1> QED BY <1>3, <1>4

\* What is readable does not change while frames are appended after it.
LEMMA ReadableFrom ==
    ASSUME NEW s \in Seq(Frames), NEW k \in 0 .. Len(s),
           \A n \in 1 .. k : s[n].state # "torn",
           k = Len(s) \/ s[k + 1].state = "torn"
    PROVE  Readable(s) = k
<1>1. /\ Readable(s) \in 0 .. Len(s)
      /\ \A n \in 1 .. Readable(s) : s[n].state # "torn"
      /\ Readable(s) = Len(s) \/ s[Readable(s) + 1].state = "torn"
  BY ReadablePrefix
<1>2. CASE Readable(s) < k
  <2>1. Readable(s) + 1 \in 1 .. k /\ s[Readable(s) + 1].state = "torn"
    BY <1>1, <1>2
  <2> QED BY <2>1
<1>3. CASE k < Readable(s)
  <2>1. k + 1 \in 1 .. Readable(s) /\ s[k + 1].state = "torn"
    BY <1>1, <1>3
  <2> QED BY <1>1, <2>1
<1> QED BY <1>1, <1>2, <1>3

LEMMA FrameTypes ==
    ASSUME NEW s \in Seq(Frames)
    PROVE  /\ Len(s) \in Nat
           /\ \A n \in 1 .. Len(s) : s[n] \in Frames /\ s[n].seq \in Nat /\ s[n].id \in Nat
<1>1. \A n \in 1 .. Len(s) : s[n] \in Frames
  BY ElementOfSeq
<1> QED BY <1>1 DEF Frames

\* A sequence of numbered frames has a largest number in every prefix.
LEMMA LargestSeq ==
    ASSUME NEW s \in Seq(Frames), NEW k \in 1 .. Len(s)
    PROVE  \E n \in 1 .. k : \A m \in 1 .. k : s[m].seq <= s[n].seq
<1> DEFINE Has(j) == \E n \in 1 .. j : \A m \in 1 .. j : s[m].seq <= s[n].seq
           lack == {j \in 1 .. Len(s) : ~ Has(j)}
<1>0. Len(s) \in Nat /\ \A n \in 1 .. Len(s) : s[n].seq \in Nat
  BY FrameTypes
<1>1. CASE lack = {}
  BY <1>1
<1>2. CASE lack # {}
  <2>1. lack \in SUBSET Nat
    OBVIOUS
  <2>2. PICK j \in lack : \A i \in lack : j <= i
    <3> HIDE DEF lack
    <3> QED BY <1>2, <2>1, LeastOf
  <2>3. j \in 1 .. Len(s) /\ ~ Has(j)
    OBVIOUS
  <2>4. CASE j = 1
    <3>1. Has(1)
      BY <1>0, <2>3, <2>4
    <3> QED BY <2>3, <2>4, <3>1
  <2>5. CASE j # 1
    <3>0. j \in 1 .. Len(s) /\ Len(s) \in Nat /\ j # 1
      BY <1>0, <2>3, <2>5
    <3>1. j - 1 \in 1 .. Len(s) /\ j - 1 \notin lack
      <4> HIDE DEF lack
      <4>1. j - 1 \in 1 .. Len(s) /\ ~ (j <= j - 1)
        BY <3>0
      <4> QED BY <2>2, <4>1
    <3>2. PICK n \in 1 .. j - 1 : \A m \in 1 .. j - 1 : s[m].seq <= s[n].seq
      BY <3>1
    <3>3. /\ n \in 1 .. j /\ s[n].seq \in Nat /\ s[j].seq \in Nat /\ j \in 1 .. j
          /\ \A m \in 1 .. j : s[m].seq \in Nat /\ (m \in 1 .. j - 1 \/ m = j)
      <4>1. n \in 1 .. Len(s) /\ n \in 1 .. j /\ j \in 1 .. j
        BY <3>0
      <4>2. \A m \in 1 .. j : m \in 1 .. Len(s) /\ (m \in 1 .. j - 1 \/ m = j)
        BY <3>0
      <4> QED BY <1>0, <3>0, <4>1, <4>2
    <3>4. CASE s[j].seq <= s[n].seq
      BY <2>3, <3>2, <3>3, <3>4
    <3>5. CASE s[n].seq <= s[j].seq
      <4>1. \A m \in 1 .. j : s[m].seq <= s[j].seq
        <5> TAKE m \in 1 .. j
        <5> HIDE DEF lack
        <5>0. s[n].seq \in Nat /\ s[j].seq \in Nat
          BY <3>3
        <5>1. CASE m = j
          BY <5>0, <5>1
        <5>2. CASE m \in 1 .. j - 1
          <6>1. s[m].seq <= s[n].seq /\ s[m].seq \in Nat
            BY <3>2, <3>3, <5>2
          <6> QED BY <3>5, <5>0, <6>1
        <5> QED BY <3>3, <5>1, <5>2
      <4> QED BY <2>3, <3>3, <4>1
    <3>6. s[j].seq <= s[n].seq \/ s[n].seq <= s[j].seq
      <4> HIDE DEF lack
      <4>1. s[n].seq \in Nat /\ s[j].seq \in Nat
        BY <3>3
      <4> QED BY <4>1
    <3> QED BY <3>4, <3>5, <3>6
  <2> QED BY <2>4, <2>5
<1> QED BY <1>1, <1>2

LEMMA ScanMaxSeqType ==
    ASSUME NEW s \in Seq(Frames)
    PROVE  /\ ScanMaxSeq(s) \in Nat
           /\ \A n \in 1 .. Readable(s) : s[n].seq <= ScanMaxSeq(s)
<1>1. Readable(s) \in 0 .. Len(s) /\ Len(s) \in Nat
  BY ReadablePrefix
<1>2. CASE Readable(s) = 0
  BY <1>2 DEF ScanMaxSeq
<1>3. CASE Readable(s) # 0
  <2> DEFINE seqs == {s[n].seq : n \in 1 .. Readable(s)}
  <2>1. \E q \in seqs : \A r \in seqs : r <= q
    <3>1. Readable(s) \in 1 .. Len(s)
      BY <1>1, <1>3
    <3>2. PICK n \in 1 .. Readable(s) : \A m \in 1 .. Readable(s) : s[m].seq <= s[n].seq
      BY <3>1, LargestSeq
    <3> QED BY <3>2
  <2>2. ScanMaxSeq(s) \in seqs /\ \A r \in seqs : r <= ScanMaxSeq(s)
    BY <1>3, <2>1 DEF ScanMaxSeq
  <2>3. seqs \subseteq Nat
    <3> SUFFICES ASSUME NEW n \in 1 .. Readable(s) PROVE s[n].seq \in Nat
      OBVIOUS
    <3>1. n \in 1 .. Len(s)
      BY <1>1
    <3> QED BY <3>1, FrameTypes
  <2> QED BY <2>2, <2>3
<1> QED BY <1>2, <1>3

\* A frame is appended to one segment.
LEMMA FrameAppended ==
    ASSUME NEW m \in Nat, NEW d, GoodLog(d, m), NEW a \in DOMAIN d,
           NEW f \in Frames, f.seq > 0, f.id \in 1 .. m,
           NEW e, e = [d EXCEPT ![a] = Append(@, f)]
    PROVE  /\ GoodLog(e, m) /\ DOMAIN e = DOMAIN d
           /\ \A i \in DOMAIN d : Len(d[i]) <= Len(e[i])
<1>1. \A i \in DOMAIN d : d[i] \in Seq(Frames) /\ Len(d[i]) \in Nat
  BY DEF GoodLog
<1>2. DOMAIN e = DOMAIN d /\ e[a] = Append(d[a], f)
      /\ \A i \in DOMAIN d : i # a => e[i] = d[i]
  OBVIOUS
<1>3. /\ e[a] \in Seq(Frames) /\ Len(e[a]) = Len(d[a]) + 1
      /\ \A n \in 1 .. Len(d[a]) : e[a][n] = d[a][n]
      /\ e[a][Len(d[a]) + 1] = f
  BY <1>1, <1>2, AppendProperties
<1>4. \A n \in 1 .. Len(e[a]) : e[a][n].seq > 0 /\ e[a][n].id \in 1 .. m
  <2> TAKE n \in 1 .. Len(e[a])
  <2>1. n \in 1 .. Len(d[a]) \/ n = Len(d[a]) + 1
    BY <1>1, <1>3
  <2> QED BY <1>3, <2>1 DEF GoodLog
<1>5. GoodLog(e, m)
  BY <1>2, <1>3, <1>4 DEF GoodLog
<1>6. \A i \in DOMAIN d : Len(d[i]) <= Len(e[i])
  BY <1>1, <1>2, <1>3
<1> QED BY <1>2, <1>5, <1>6

\* Records made later leave a log good.
LEMMA MadeMore ==
    ASSUME NEW m \in Nat, NEW d, GoodLog(d, m)
    PROVE  GoodLog(d, m + 1)
BY DEF GoodLog

\* An empty segment is created.
LEMMA SegmentAdded ==
    ASSUME NEW m \in Nat, NEW d, GoodLog(d, m), NEW a,
           NEW e, e = [i \in DOMAIN d \cup {a} |-> IF i = a THEN <<>> ELSE d[i]]
    PROVE  GoodLog(e, m)
<1>1. <<>> \in Seq(Frames) /\ Len(<<>>) = 0
  OBVIOUS
<1> QED BY <1>1 DEF GoodLog

\* Segments are shed.
LEMMA SegmentsDropped ==
    ASSUME NEW m \in Nat, NEW d, GoodLog(d, m), NEW S \in SUBSET DOMAIN d
    PROVE  GoodLog([i \in S |-> d[i]], m)
BY DEF GoodLog

\* Segments lose frames at their ends.
LEMMA SegmentsCut ==
    ASSUME NEW m \in Nat, NEW d, GoodLog(d, m), NEW cut,
           \A i \in DOMAIN d : cut[i] \in 0 .. Len(d[i]),
           NEW e, e = [i \in DOMAIN d |-> SubSeq(d[i], 1, cut[i])]
    PROVE  GoodLog(e, m) /\ \A i \in DOMAIN d : Len(e[i]) = cut[i]
<1> SUFFICES ASSUME NEW i \in DOMAIN d
             PROVE  /\ e[i] \in Seq(Frames) /\ Len(e[i]) = cut[i]
                    /\ \A n \in 1 .. Len(e[i]) : e[i][n].seq > 0 /\ e[i][n].id \in 1 .. m
  BY DEF GoodLog
<1>1. d[i] \in Seq(Frames) /\ Len(d[i]) \in Nat /\ cut[i] \in 0 .. Len(d[i])
      /\ e[i] = SubSeq(d[i], 1, cut[i])
  BY DEF GoodLog
<1>2. \A n \in 1 .. cut[i] : d[i][n] \in Frames
  BY <1>1, ElementOfSeq
<1>3. /\ e[i] \in Seq(Frames) /\ Len(e[i]) = IF 1 <= cut[i] THEN cut[i] - 1 + 1 ELSE 0
      /\ \A n \in 1 .. cut[i] - 1 + 1 : e[i][n] = d[i][1 + n - 1]
  BY <1>1, <1>2, SubSeqProperties
<1>4. Len(e[i]) = cut[i] /\ \A n \in 1 .. cut[i] : e[i][n] = d[i][n]
  BY <1>1, <1>3
<1> QED BY <1>1, <1>3, <1>4 DEF GoodLog

\* A partition has a finite size.
LEMMA SizeType ==
    ASSUME NEW m \in Nat, GoodLog(disk, m), NEW segs \in SUBSET Segments, IsFiniteSet(segs)
    PROVE  Size(segs) \in Nat
<1> DEFINE part(i) == {i} \X (1 .. Len(disk[i]))
           parts == {part(i) : i \in segs}
           f == [i \in segs |-> part(i)]
<1>1. ASSUME NEW i \in segs PROVE IsFiniteSet(part(i))
  <2>1. Len(disk[i]) \in Nat
    BY DEF GoodLog, Segments
  <2>2. IsFiniteSet({i}) /\ IsFiniteSet(1 .. Len(disk[i]))
    <3>1. IsFiniteSet(1 .. Len(disk[i]))
      BY <2>1, FS_Interval
    <3>2. IsFiniteSet({i})
      BY FS_Singleton
    <3> QED BY <3>1, <3>2
  <2> QED BY <2>2, FS_Product
<1>2. f \in Surjection(segs, parts)
  BY DEF Surjection
<1>3. IsFiniteSet(parts)
  <2> HIDE DEF f, parts
  <2> QED BY <1>2, FS_Surjection
<1>4. \A T \in parts : IsFiniteSet(T)
  BY <1>1
<1>5. IsFiniteSet(UNION parts)
  <2> HIDE DEF parts
  <2> QED BY <1>3, <1>4, FS_UNION
<1> QED BY <1>5, FS_CardinalityType DEF Size

-----------------------------------------------------------------------------
(* The log's type is kept by every step.                                   *)

LogInv == Interval /\ PartitionTypeOK /\ GoodLog(disk, made)

\* Frames an fsync covered are on disk.
Covered(sy, d) ==
    DOMAIN sy = DOMAIN d /\ \A i \in DOMAIN d : sy[i] \in 0 .. Len(d[i])

\* The tail in memory and the records lost.
TailOK == mem \in Seq(1 .. made) /\ written \in 0 .. Len(mem) /\ lost \subseteq 1 .. made

\* The rest of the type invariant.
ScalarsOK ==
    /\ made \in 0 .. MaxRecords /\ flush \in {"idle", "writing", "down"}
    /\ active \in Nat /\ activeBytes \in Nat /\ handle \in {"open", "closed"}
    /\ nextSeq \in Nat /\ shedBytes \in Nat
    /\ crashes \in 0 .. MaxCrashes /\ errors \in 0 .. MaxErrors

LEMMA LogParts ==
    LogInv <=> Interval /\ GoodLog(disk, made) /\ Covered(synced, disk) /\ TailOK /\ ScalarsOK
<1>1. Interval => Segments \subseteq Nat /\ Segments # {}
  <2> SUFFICES ASSUME Interval PROVE Segments \subseteq Nat /\ Segments # {}
    OBVIOUS
  <2> PICK lo \in 0 .. active : Segments = lo .. active
    BY DEF Interval
  <2>1. lo \in lo .. active /\ lo .. active \subseteq Nat
    BY DEF Interval
  <2> QED BY <2>1
<1>2. GoodLog(disk, made) => \A i \in Segments : disk[i] \in Seq(Frames)
  BY DEF GoodLog, Segments
<1> QED BY <1>1, <1>2 DEF LogInv, PartitionTypeOK, Covered, TailOK, ScalarsOK, Segments

LEMMA LogPartsNext ==
    Interval' /\ GoodLog(disk, made)' /\ Covered(synced, disk)' /\ TailOK' /\ ScalarsOK'
      => LogInv'
BY LogParts, PTL

LEMMA LogInitially == PartitionInit => LogInv
<1> SUFFICES ASSUME PartitionInit PROVE LogInv
  OBVIOUS
<1>1. Interval
  <2>1. active = 0 /\ DOMAIN disk = {0} /\ 0 \in 0 .. 0 /\ {0} = 0 .. 0
    BY DEF PartitionInit
  <2> QED BY <2>1 DEF Interval, Segments
<1>2. GoodLog(disk, made) /\ Covered(synced, disk)
  <2>1. <<>> \in Seq(Frames) /\ Len(<<>>) = 0
    OBVIOUS
  <2> QED BY <2>1 DEF PartitionInit, GoodLog, Covered
<1>3. TailOK
  <2>1. <<>> \in Seq(1 .. made) /\ Len(<<>>) = 0
    OBVIOUS
  <2> QED BY <2>1 DEF PartitionInit, TailOK
<1>4. ScalarsOK
  BY SpoolAssumption DEF PartitionInit, ScalarsOK
<1> QED BY <1>1, <1>2, <1>3, <1>4, LogParts

\* The frame a write puts, whole or in part, at the end of the active segment.
LEMMA FrameWritten ==
    ASSUME LogInv, Writing, NEW f,
           f = Frame(nextSeq + 1, mem[written + 1]) \/ f = Torn(nextSeq + 1, mem[written + 1]),
           disk' = [disk EXCEPT ![active] = Append(@, f)]
    PROVE  /\ GoodLog(disk', made) /\ DOMAIN disk' = DOMAIN disk
           /\ \A i \in DOMAIN disk : Len(disk[i]) <= Len(disk'[i])
           /\ written + 1 \in 0 .. Len(mem)
<1>1. TailOK /\ ScalarsOK /\ GoodLog(disk, made) /\ Interval
  BY LogParts
<1>2. written + 1 \in 1 .. Len(mem) /\ mem \in Seq(1 .. made) /\ Len(mem) \in Nat
  BY <1>1 DEF TailOK, Writing
<1>3. mem[written + 1] \in 1 .. made
  BY <1>2, ElementOfSeq
<1>4. made \in Nat /\ nextSeq + 1 \in Nat /\ nextSeq + 1 > 0
  BY <1>1 DEF ScalarsOK
<1>5. f \in Frames /\ f.seq > 0 /\ f.id \in 1 .. made
  BY <1>3, <1>4 DEF Frame, Torn, Frames
<1>6. active \in DOMAIN disk
  <2> PICK lo \in 0 .. active : Segments = lo .. active
    BY <1>1 DEF Interval
  <2> QED BY <1>1 DEF Interval, Segments
<1>7. GoodLog(disk', made) /\ DOMAIN disk' = DOMAIN disk
      /\ \A i \in DOMAIN disk : Len(disk[i]) <= Len(disk'[i])
  BY <1>1, <1>4, <1>5, <1>6, FrameAppended
<1> QED BY <1>2, <1>7

\* A log that only grew is covered as far as before.
LEMMA StillCovered ==
    ASSUME NEW d, NEW e, NEW sy, NEW m, GoodLog(d, m), GoodLog(e, m), Covered(sy, d),
           DOMAIN e = DOMAIN d, \A i \in DOMAIN d : Len(d[i]) <= Len(e[i])
    PROVE  Covered(sy, e)
<1>1. \A i \in DOMAIN d : Len(d[i]) \in Nat /\ Len(e[i]) \in Nat
  BY DEF GoodLog
<1> QED BY <1>1 DEF Covered

LEMMA LogStep ==
    ASSUME LogInv, [PartitionNext]_partitionVars
    PROVE  LogInv'
<1>p. Interval /\ GoodLog(disk, made) /\ Covered(synced, disk) /\ TailOK /\ ScalarsOK
  BY LogParts
<1>i. Interval'
  BY <1>p, IntervalStep
<1>q. ASSUME GoodLog(disk, made)', Covered(synced, disk)', TailOK', ScalarsOK'
      PROVE  LogInv'
  BY <1>i, <1>q, LogPartsNext
<1>n. made \in Nat /\ active \in Nat
  BY <1>p DEF ScalarsOK
<1>s. PICK lo \in 0 .. active : Segments = lo .. active
  BY <1>p DEF Interval
<1>g. active \in Segments /\ Newest = active /\ IsFiniteSet(Segments)
  BY <1>n, <1>s, IntervalEnds, FS_Interval
<1>1. CASE Append_
  <2>1. mem \in Seq(1 .. made) /\ made + 1 \in 1 .. made + 1 /\ written \in 0 .. Len(mem)
        /\ lost \subseteq 1 .. made
    BY <1>p, <1>n DEF TailOK
  <2>2. mem \in Seq(1 .. made + 1)
    BY <1>n, <2>1, SeqMonotonic
  <2>3. Append(mem, made + 1) \in Seq(1 .. made + 1)
        /\ Len(Append(mem, made + 1)) = Len(mem) + 1
    BY <2>1, <2>2, AppendProperties
  <2>4. TailOK'
    BY <1>1, <1>n, <2>1, <2>3 DEF Append_, TailOK
  <2>5. GoodLog(disk, made)'
    <3>1. GoodLog(disk, made + 1)
      BY <1>p, <1>n, MadeMore
    <3> QED BY <1>1, <3>1 DEF Append_
  <2>6. Covered(synced, disk)' /\ ScalarsOK'
    BY <1>1, <1>p, SpoolAssumption DEF Append_, Covered, ScalarsOK
  <2> QED BY <1>q, <2>4, <2>5, <2>6
<1>2. CASE FlushStart
  BY <1>2, <1>p, <1>q DEF FlushStart, Covered, TailOK, ScalarsOK
<1>3. CASE Rotate
  <2>1. GoodLog(disk, made)'
    <3>1. GoodLog(disk', made)
      BY <1>3, <1>n, <1>p, SegmentAdded DEF Rotate, Segments
    <3> QED BY <1>3, <3>1 DEF Rotate
  <2>2. Covered(synced, disk)'
    <3>1. Len(<<>>) = 0
      OBVIOUS
    <3> QED BY <1>3, <1>p, <3>1 DEF Rotate, Covered, Segments
  <2>3. TailOK' /\ ScalarsOK'
    BY <1>3, <1>p DEF Rotate, TailOK, ScalarsOK
  <2> QED BY <1>q, <2>1, <2>2, <2>3
<1>4. CASE Write
  <2> DEFINE f == Frame(nextSeq + 1, mem[written + 1])
  <2>1. Writing /\ disk' = [disk EXCEPT ![active] = Append(@, f)]
    BY <1>4 DEF Write
  <2>2. /\ GoodLog(disk', made) /\ DOMAIN disk' = DOMAIN disk
        /\ \A i \in DOMAIN disk : Len(disk[i]) <= Len(disk'[i])
        /\ written + 1 \in 0 .. Len(mem)
    <3> HIDE DEF f
    <3>1. f = Frame(nextSeq + 1, mem[written + 1])
      BY DEF f
    <3> QED BY <2>1, <3>1, FrameWritten
  <2>3. Covered(synced, disk')
    BY <1>p, <2>2, StillCovered
  <2>4. TailOK' /\ ScalarsOK'
    BY <1>4, <1>p, <2>2 DEF Write, TailOK, ScalarsOK
  <2>5. made' = made /\ synced' = synced
    BY <1>4 DEF Write
  <2> QED BY <1>q, <2>2, <2>3, <2>4, <2>5
<1>e. <<>> \in Seq(1 .. made) /\ Len(<<>>) = 0
  OBVIOUS
<1>t. ASSUME TearFrame, Writing
      PROVE  GoodLog(disk', made) /\ Covered(synced, disk')
  <2> DEFINE f == Torn(nextSeq + 1, mem[written + 1])
  <2>1. disk' = [disk EXCEPT ![active] = Append(@, f)]
    BY <1>t DEF TearFrame
  <2>2. /\ GoodLog(disk', made) /\ DOMAIN disk' = DOMAIN disk
        /\ \A i \in DOMAIN disk : Len(disk[i]) <= Len(disk'[i])
    <3> HIDE DEF f
    <3>1. f = Torn(nextSeq + 1, mem[written + 1])
      BY DEF f
    <3> QED BY <1>t, <2>1, <3>1, FrameWritten
  <2> QED BY <1>p, <2>2, StillCovered
<1>k. ASSUME KeepBatch PROVE made' = made /\ synced' = synced /\ TailOK'
  BY <1>k, <1>p, <1>e DEF KeepBatch, TailOK
<1>5. ASSUME NEW how \in {"clean", "partial"}, WriteError(how) PROVE LogInv'
  <2>1. GoodLog(disk', made) /\ Covered(synced, disk')
    <3>1. CASE TearFrame
      BY <1>5, <1>t, <3>1 DEF WriteError
    <3>2. CASE disk' = disk
      BY <1>p, <3>2
    <3> QED BY <1>5, <3>1, <3>2 DEF WriteError
  <2>2. made' = made /\ synced' = synced /\ TailOK'
    BY <1>5, <1>k DEF WriteError
  <2>3. ScalarsOK'
    BY <1>5, <1>p, SpoolAssumption DEF WriteError, KeepBatch, ScalarsOK
  <2> QED BY <1>q, <2>1, <2>2, <2>3
<1>6. CASE RotateError \/ SyncError
  <2>1. disk' = disk /\ KeepBatch
    BY <1>6 DEF RotateError, SyncError
  <2>2. made' = made /\ synced' = synced /\ TailOK'
    BY <2>1, <1>k
  <2>3. ScalarsOK'
    BY <1>6, <1>p, SpoolAssumption DEF RotateError, SyncError, KeepBatch, ScalarsOK
  <2> QED BY <1>p, <1>q, <2>1, <2>2, <2>3
<1>7. CASE FlushEnd
  <2> PICK k \in Segments : Shed(k) /\ Sync(k)
    BY <1>7 DEF FlushEnd
  <2>1. Since(k) \subseteq DOMAIN disk /\ Since(k) \subseteq Segments
        /\ disk' = [i \in Since(k) |-> disk[i]] /\ made' = made
    BY <1>7 DEF FlushEnd, Shed, Since, Segments
  <2>2. GoodLog(disk, made)'
    <3>1. GoodLog([i \in Since(k) |-> disk[i]], made)
      BY <1>n, <1>p, <2>1, SegmentsDropped
    <3> QED BY <2>1, <3>1
  <2>3. Covered(synced, disk)'
    <3>1. synced' = [i \in Since(k) |-> IF i = active THEN Len(disk[i]) ELSE synced[i]]
      BY DEF Sync
    <3>2. \A i \in DOMAIN disk : Len(disk[i]) \in Nat /\ synced[i] \in 0 .. Len(disk[i])
      BY <1>p DEF GoodLog, Covered
    <3>3. ASSUME NEW i \in Since(k) PROVE synced'[i] \in 0 .. Len(disk'[i])
      BY <2>1, <3>1, <3>2
    <3> QED BY <2>1, <3>1, <3>3 DEF Covered
  <2>4. IsFiniteSet(Segments \ Since(k)) /\ Segments \ Since(k) \in SUBSET Segments
    BY <1>g, FS_Difference
  <2>5. Size(Segments \ Since(k)) \in Nat
    BY <1>n, <1>p, <2>4, SizeType
  <2>6. Records(Segments \ Since(k)) \subseteq 1 .. made
    BY <1>p DEF Records, GoodLog, Segments
  <2>7. TailOK'
    <3>1. lost' = lost \cup Records(Segments \ Since(k)) /\ mem' = <<>> /\ written' = 0
      BY <1>7 DEF FlushEnd, Shed
    <3>2. lost' \subseteq 1 .. made
      BY <1>p, <2>6, <3>1 DEF TailOK
    <3>3. mem' = <<>> /\ written' = 0 /\ made' = made
      BY <2>1, <3>1
    <3> QED BY <3>2, <3>3 DEF TailOK
  <2>8. ScalarsOK'
    <3>1. shedBytes' = shedBytes + Size(Segments \ Since(k))
      BY DEF Shed
    <3>2. shedBytes' \in Nat
      BY <1>p, <2>5, <3>1 DEF ScalarsOK
    <3> QED BY <1>7, <1>p, <3>2 DEF FlushEnd, ScalarsOK
  <2> QED BY <1>q, <2>2, <2>3, <2>7, <2>8
<1>8. CASE Crash
  <2>1. GoodLog(disk', made) /\ Covered(synced', disk')
    <3>1. ASSUME NEW partial \in BOOLEAN, Kill(partial)
          PROVE  GoodLog(disk', made) /\ Covered(synced', disk')
      <4>1. synced' = synced
        BY <3>1 DEF Kill
      <4>2. CASE partial
        BY <1>t, <3>1, <4>1, <4>2 DEF Kill
      <4>3. CASE ~partial
        BY <1>p, <3>1, <4>1, <4>3 DEF Kill
      <4> QED BY <4>2, <4>3
    <3>2. ASSUME NEW cut \in Cuts, PowerLoss(cut)
          PROVE  GoodLog(disk', made) /\ Covered(synced', disk')
      <4>1. \A i \in DOMAIN disk : Len(disk[i]) \in Nat /\ synced[i] \in 0 .. Len(disk[i])
        BY <1>p DEF GoodLog, Covered
      <4>2. \A i \in DOMAIN disk : cut[i] \in 0 .. Len(disk[i])
        <5> TAKE i \in DOMAIN disk
        <5>1. cut[i] \in synced[i] .. Len(disk[i])
          BY <3>2 DEF PowerLoss, Segments
        <5> QED BY <4>1, <5>1
      <4>3. disk' = [i \in DOMAIN disk |-> SubSeq(disk[i], 1, cut[i])] /\ synced' = cut
            /\ DOMAIN cut = DOMAIN disk
        BY <3>2 DEF PowerLoss, Cuts, Segments
      <4>4. GoodLog(disk', made) /\ \A i \in DOMAIN disk : Len(disk'[i]) = cut[i]
        <5>1. disk' = [i \in DOMAIN disk |-> SubSeq(disk[i], 1, cut[i])]
          BY <4>3
        <5>2. made \in Nat /\ GoodLog(disk, made)
          BY <1>n, <1>p
        <5> HIDE DEF GoodLog
        <5> QED BY <4>2, <5>1, <5>2, SegmentsCut
      <4>5. Covered(synced', disk')
        <5>1. DOMAIN synced' = DOMAIN disk' /\ DOMAIN disk' = DOMAIN disk
          BY <4>3
        <5>2. \A i \in DOMAIN disk : cut[i] \in 0 .. cut[i]
          BY <4>1, <4>2
        <5> QED BY <4>3, <4>4, <5>1, <5>2 DEF Covered
      <4> QED BY <4>4, <4>5
    <3> QED BY <1>8, <3>1, <3>2 DEF Crash
  <2>2. made' = made
    BY <1>8 DEF Crash
  <2>3. TailOK'
    <3>1. Range(mem) \subseteq 1 .. made
      BY <1>p, RangeOfSeq DEF TailOK, Range
    <3>2. mem' = <<>> /\ written' = 0 /\ lost' \subseteq 1 .. made
      BY <1>8, <1>p, <3>1 DEF Crash, TailOK
    <3> QED BY <2>2, <3>2 DEF TailOK
  <2>4. ScalarsOK'
    BY <1>8, <1>p, SpoolAssumption DEF Crash, ScalarsOK
  <2> QED BY <1>q, <2>1, <2>2, <2>3, <2>4
<1>9. CASE OpenPartition
  <2>1. disk[active] \in Seq(Frames)
    BY <1>p, <1>g DEF GoodLog, Segments
  <2>2. ScanMaxSeq(disk[active]) + 1 \in Nat /\ Len(disk[active]) \in Nat
    BY <2>1, ScanMaxSeqType
  <2>3. ScalarsOK'
    BY <1>9, <1>g, <1>p, <2>2 DEF OpenPartition, ScalarsOK
  <2>4. disk' = disk /\ made' = made /\ synced' = synced /\ TailOK'
    BY <1>9, <1>p DEF OpenPartition, TailOK
  <2> QED BY <1>p, <1>q, <2>3, <2>4
<1>10. CASE UNCHANGED partitionVars
  BY <1>10, <1>p, <1>q DEF partitionVars, TailOK, ScalarsOK
<1> QED BY <1>1, <1>2, <1>3, <1>4, <1>5, <1>6, <1>7, <1>8, <1>9, <1>10 DEF PartitionNext

LEMMA LogInvariance == PartitionSpec => []LogInv
<1>1. LogInv /\ [PartitionNext]_partitionVars => LogInv'
  BY LogStep
<1> QED BY <1>1, LogInitially, PTL DEF PartitionSpec

-----------------------------------------------------------------------------
(* The sequence numbers inside a segment.                                  *)

\* The readable numbers of a segment increase; they stay within a bound.
Ascending(s) == \A m, n \in 1 .. Readable(s) : m < n => s[m].seq < s[n].seq
AtMost(s, k) == \A n \in 1 .. Readable(s) : s[n].seq <= k

\* While the process lives, the active segment holds no number beyond the
\* counter; a restart takes the counter from what it can read there.
SeqInv ==
    /\ \A i \in Segments : Ascending(disk[i])
    /\ flush # "down" => AtMost(disk[active], nextSeq)

\* Appending a frame adds at most that frame to what is readable.
LEMMA ReadableAppend ==
    ASSUME NEW s \in Seq(Frames), NEW f \in Frames
    PROVE  LET e == Append(s, f)
           IN  /\ e \in Seq(Frames) /\ Readable(s) \in 0 .. Len(s)
               /\ \A n \in 1 .. Readable(s) : e[n] = s[n]
               /\ \/ Readable(e) = Readable(s)
                  \/ Readable(e) = Readable(s) + 1 /\ e[Readable(s) + 1] = f
<1> DEFINE e == Append(s, f)
           k == Readable(s)
<1>1. /\ e \in Seq(Frames) /\ Len(e) = Len(s) + 1 /\ e[Len(s) + 1] = f
      /\ \A n \in 1 .. Len(s) : e[n] = s[n]
  BY AppendProperties
<1>2. /\ k \in 0 .. Len(s) /\ Len(s) \in Nat
      /\ \A n \in 1 .. k : s[n].state # "torn"
      /\ k = Len(s) \/ s[k + 1].state = "torn"
  BY ReadablePrefix
<1> HIDE DEF e, k
<1>3. \A n \in 1 .. k : e[n] = s[n] /\ e[n].state # "torn"
  BY <1>1, <1>2
<1>4. CASE k # Len(s)
  <2>1. k \in 0 .. Len(e) /\ k + 1 \in 1 .. Len(s) /\ e[k + 1].state = "torn"
    BY <1>1, <1>2, <1>4
  <2>2. Readable(e) = k
    BY <1>1, <1>3, <2>1, ReadableFrom
  <2> QED BY <1>1, <1>2, <1>3, <2>2 DEF e, k
<1>5. CASE k = Len(s) /\ f.state = "torn"
  <2>1. k \in 0 .. Len(e) /\ e[k + 1].state = "torn"
    BY <1>1, <1>2, <1>5
  <2>2. Readable(e) = k
    BY <1>1, <1>3, <2>1, ReadableFrom
  <2> QED BY <1>1, <1>2, <1>3, <2>2 DEF e, k
<1>6. CASE k = Len(s) /\ f.state # "torn"
  <2>1. k + 1 \in 0 .. Len(e) /\ k + 1 = Len(e)
        /\ \A n \in 1 .. k + 1 : n \in 1 .. k \/ n = k + 1
    BY <1>1, <1>2, <1>6
  <2>2. \A n \in 1 .. k + 1 : e[n].state # "torn"
    BY <1>1, <1>3, <1>6, <2>1
  <2>3. Readable(e) = k + 1
    BY <1>1, <2>1, <2>2, ReadableFrom
  <2> QED BY <1>1, <1>2, <1>3, <1>6, <2>3 DEF e, k
<1> QED BY <1>4, <1>5, <1>6

LEMMA AscendingAppend ==
    ASSUME NEW s \in Seq(Frames), NEW k \in Nat, Ascending(s), AtMost(s, k),
           NEW f \in Frames, f.seq = k + 1
    PROVE  Ascending(Append(s, f)) /\ AtMost(Append(s, f), k + 1)
<1> DEFINE e == Append(s, f)
           r == Readable(s)
<1>1. /\ e \in Seq(Frames) /\ r \in 0 .. Len(s) /\ Len(s) \in Nat
      /\ \A n \in 1 .. r : e[n] = s[n]
      /\ Readable(e) = r \/ (Readable(e) = r + 1 /\ e[r + 1] = f)
  BY ReadableAppend
<1>2. \A n \in 1 .. r : s[n].seq \in Nat /\ s[n].seq <= k
  BY <1>1, FrameTypes DEF AtMost
<1> HIDE DEF e, r
<1>3. \A n \in 1 .. Readable(e) : n \in 1 .. r \/ (n = r + 1 /\ e[n] = f)
  BY <1>1
<1>4. \A n \in 1 .. r : e[n].seq \in Nat /\ e[n].seq <= k
  BY <1>1, <1>2
<1>5. AtMost(e, k + 1)
  BY <1>3, <1>4 DEF AtMost
<1>6. Ascending(e)
  <2> SUFFICES ASSUME NEW m \in 1 .. Readable(e), NEW n \in 1 .. Readable(e), m < n
               PROVE  e[m].seq < e[n].seq
    BY DEF Ascending
  <2>1. m \in 1 .. r
    BY <1>1, <1>3
  <2>2. CASE n \in 1 .. r
    <3>1. s[m].seq < s[n].seq
      BY <2>1, <2>2 DEF Ascending, r
    <3> QED BY <1>1, <2>1, <2>2, <3>1
  <2>3. CASE n = r + 1 /\ e[n] = f
    BY <1>4, <2>1, <2>3
  <2> QED BY <1>3, <2>2, <2>3
<1> QED BY <1>5, <1>6 DEF e

\* Cutting a segment short leaves a part of what was readable.
LEMMA AscendingCut ==
    ASSUME NEW s \in Seq(Frames), NEW c \in 0 .. Len(s), Ascending(s)
    PROVE  Ascending(SubSeq(s, 1, c))
<1> DEFINE e == SubSeq(s, 1, c)
           r == Readable(s)
<1>1. /\ r \in 0 .. Len(s) /\ Len(s) \in Nat
      /\ \A n \in 1 .. r : s[n].state # "torn"
      /\ r = Len(s) \/ s[r + 1].state = "torn"
  BY ReadablePrefix
<1>2. \A n \in 1 .. c : s[n] \in Frames
  BY FrameTypes
<1>3. /\ e \in Seq(Frames) /\ Len(e) = IF 1 <= c THEN c - 1 + 1 ELSE 0
      /\ \A n \in 1 .. c - 1 + 1 : e[n] = s[1 + n - 1]
  BY <1>1, <1>2, SubSeqProperties
<1>4. e \in Seq(Frames) /\ Len(e) = c /\ \A n \in 1 .. c : e[n] = s[n]
  BY <1>1, <1>3
<1> HIDE DEF e
<1>5. Readable(e) <= r /\ Readable(e) <= c
  <2>1. CASE r < c
    <3>1. r \in 0 .. Len(e) /\ r + 1 \in 1 .. c /\ \A n \in 1 .. r : n \in 1 .. c
      BY <1>1, <1>4, <2>1
    <3>2. r # Len(s)
      BY <1>1, <2>1
    <3>3. e[r + 1].state = "torn" /\ \A n \in 1 .. r : e[n].state # "torn"
      BY <1>1, <1>4, <3>1, <3>2
    <3> HIDE DEF r
    <3>4. Readable(e) = r
      BY <1>4, <3>1, <3>3, ReadableFrom
    <3> QED BY <1>1, <2>1, <3>4
  <2>2. CASE c <= r
    <3>1. Readable(e) \in 0 .. Len(e)
      BY <1>4, ReadablePrefix
    <3> QED BY <1>1, <1>4, <2>2, <3>1
  <2> QED BY <1>1, <2>1, <2>2
<1>6. ASSUME NEW m \in 1 .. Readable(e), NEW n \in 1 .. Readable(e), m < n
      PROVE  e[m].seq < e[n].seq
  <2>1. Readable(e) \in 0 .. Len(e)
    BY <1>4, ReadablePrefix
  <2>2. m \in 1 .. r /\ n \in 1 .. r /\ m \in 1 .. c /\ n \in 1 .. c
    BY <1>1, <1>4, <1>5, <2>1
  <2>3. s[m].seq < s[n].seq
    BY <1>6, <2>2 DEF Ascending
  <2> QED BY <1>4, <2>2, <2>3
<1> QED BY <1>6 DEF Ascending, e

LEMMA ReadableEmpty == Readable(<<>>) = 0
<1>1. <<>> \in Seq(Frames) /\ Len(<<>>) = 0
  OBVIOUS
<1>2. Readable(<<>>) \in 0 .. Len(<<>>)
  BY <1>1, ReadablePrefix
<1> QED BY <1>1, <1>2

LEMMA SeqInitially == PartitionInit => SeqInv
<1> SUFFICES ASSUME PartitionInit PROVE SeqInv
  OBVIOUS
<1>1. disk[0] = <<>> /\ Segments = {0} /\ active = 0
  BY DEF PartitionInit, Segments
<1> QED BY <1>1, ReadableEmpty DEF SeqInv, Ascending, AtMost

\* A frame, whole or torn, is written behind the last.
LEMMA SeqWritten ==
    ASSUME LogInv, SeqInv, flush # "down", NEW f \in Frames, f.seq = nextSeq + 1,
           NEW d, d = [disk EXCEPT ![active] = Append(@, f)]
    PROVE  /\ \A i \in DOMAIN disk : Ascending(d[i])
           /\ AtMost(d[active], nextSeq + 1)
<1>1. active \in DOMAIN disk /\ nextSeq \in Nat /\ disk[active] \in Seq(Frames)
  <2>1. Interval /\ PartitionTypeOK /\ GoodLog(disk, made)
    BY DEF LogInv
  <2> PICK lo \in 0 .. active : Segments = lo .. active
    BY <2>1 DEF Interval
  <2>2. active \in DOMAIN disk
    BY <2>1 DEF Interval, Segments
  <2> QED BY <2>1, <2>2 DEF PartitionTypeOK, GoodLog
<1>2. Ascending(disk[active]) /\ AtMost(disk[active], nextSeq)
  BY <1>1 DEF SeqInv, Segments
<1>3. Ascending(Append(disk[active], f)) /\ AtMost(Append(disk[active], f), nextSeq + 1)
  BY <1>1, <1>2, AscendingAppend
<1>4. d[active] = Append(disk[active], f) /\ \A i \in DOMAIN disk : i # active => d[i] = disk[i]
  BY <1>1
<1> QED BY <1>3, <1>4 DEF SeqInv, Segments

LEMMA SeqStep ==
    ASSUME LogInv, SeqInv, [PartitionNext]_partitionVars
    PROVE  SeqInv'
<1>p. Interval /\ PartitionTypeOK /\ GoodLog(disk, made) /\ Interval'
  BY IntervalStep DEF LogInv
<1>n. active \in Nat /\ nextSeq \in Nat /\ made \in Nat
  BY <1>p DEF PartitionTypeOK
<1>s. PICK lo \in 0 .. active : Segments = lo .. active
  BY <1>p DEF Interval
<1>g. active \in DOMAIN disk /\ Newest = active /\ disk[active] \in Seq(Frames)
  <2>1. active \in DOMAIN disk
    BY <1>n, <1>s DEF Segments
  <2> QED BY <1>n, <1>p, <1>s, <2>1, IntervalEnds DEF GoodLog
<1>u. /\ \A i \in DOMAIN disk : Ascending(disk[i])
      /\ flush # "down" => AtMost(disk[active], nextSeq)
  BY DEF SeqInv, Segments
\* Readable numbers stay within a counter that grew.
<1>m. ASSUME flush # "down" PROVE AtMost(disk[active], nextSeq + 1)
  <2>1. AtMost(disk[active], nextSeq) /\ Readable(disk[active]) \in 0 .. Len(disk[active])
        /\ Len(disk[active]) \in Nat
    BY <1>m, <1>u, <1>g, ReadablePrefix
  <2>2. \A n \in 1 .. Readable(disk[active]) : disk[active][n].seq \in Nat
    BY <1>g, <2>1, FrameTypes
  <2> QED BY <1>n, <2>1, <2>2 DEF AtMost
<1>q. ASSUME DOMAIN disk' = DOMAIN disk, \A i \in DOMAIN disk : Ascending(disk'[i]),
             flush' # "down" => AtMost(disk'[active'], nextSeq')
      PROVE  SeqInv'
  BY <1>q DEF SeqInv, Segments
<1>1. ASSUME disk' = disk, active' = active, flush # "down",
             nextSeq' = nextSeq \/ nextSeq' = nextSeq + 1
      PROVE  SeqInv'
  BY <1>1, <1>m, <1>q, <1>u
<1>2. CASE Append_ \/ FlushStart \/ SyncError
  BY <1>1, <1>2 DEF Append_, FlushStart, SyncError, KeepBatch
<1>3. CASE RotateError
  <2>1. nextSeq' = nextSeq \/ nextSeq' = nextSeq + 1
    BY <1>3 DEF RotateError
  <2> QED BY <1>1, <1>3, <2>1 DEF RotateError, KeepBatch, Writing
<1>4. CASE Rotate
  <2>1. /\ active' = active + 1
        /\ disk' = [i \in DOMAIN disk \cup {active + 1} |->
                       IF i = active + 1 THEN <<>> ELSE disk[i]]
    BY <1>4 DEF Rotate, Segments
  <2>4. Ascending(<<>>) /\ AtMost(<<>>, nextSeq')
    BY ReadableEmpty DEF Ascending, AtMost
  <2> QED BY <1>u, <2>1, <2>4 DEF SeqInv, Segments
<1>f. ASSUME Writing
      PROVE  /\ Frame(nextSeq + 1, mem[written + 1]) \in Frames
             /\ Torn(nextSeq + 1, mem[written + 1]) \in Frames
             /\ Frame(nextSeq + 1, mem[written + 1]).seq = nextSeq + 1
             /\ Torn(nextSeq + 1, mem[written + 1]).seq = nextSeq + 1
             /\ flush # "down"
  <2>1. mem \in Seq(1 .. made) /\ written \in 0 .. Len(mem) /\ Len(mem) \in Nat
    BY <1>p DEF PartitionTypeOK
  <2>2. written + 1 \in 1 .. Len(mem)
    BY <1>f, <2>1 DEF Writing
  <2>3. mem[written + 1] \in Nat
    <3>1. mem[written + 1] \in 1 .. made
      BY <2>1, <2>2, ElementOfSeq
    <3> QED BY <1>n, <3>1
  <2> QED BY <1>f, <1>n, <2>3 DEF Writing, Frame, Torn, Frames
<1>5. CASE Write
  <2> DEFINE f == Frame(nextSeq + 1, mem[written + 1])
  <2>1. f \in Frames /\ f.seq = nextSeq + 1 /\ flush # "down"
    BY <1>5, <1>f DEF Write
  <2>2. /\ disk' = [disk EXCEPT ![active] = Append(@, f)]
        /\ nextSeq' = nextSeq + 1 /\ active' = active
    BY <1>5 DEF Write
  <2> HIDE DEF f
  <2>3. (\A i \in DOMAIN disk : Ascending(disk'[i])) /\ AtMost(disk'[active], nextSeq + 1)
    BY <2>1, <2>2, SeqWritten
  <2> QED BY <1>q, <2>2, <2>3
<1>t. ASSUME TearFrame, Writing
      PROVE  /\ DOMAIN disk' = DOMAIN disk /\ \A i \in DOMAIN disk : Ascending(disk'[i])
             /\ AtMost(disk'[active], nextSeq + 1)
  <2> DEFINE f == Torn(nextSeq + 1, mem[written + 1])
  <2>1. f \in Frames /\ f.seq = nextSeq + 1 /\ flush # "down"
    BY <1>t, <1>f
  <2>2. disk' = [disk EXCEPT ![active] = Append(@, f)]
    BY <1>t DEF TearFrame
  <2> HIDE DEF f
  <2> QED BY <2>1, <2>2, SeqWritten
<1>6. ASSUME NEW how \in {"clean", "partial"}, WriteError(how) PROVE SeqInv'
  <2>1. Writing /\ nextSeq' = nextSeq + 1 /\ active' = active /\ flush # "down"
    BY <1>6 DEF WriteError, KeepBatch, Writing
  <2>2. CASE TearFrame
    BY <1>q, <1>t, <2>1, <2>2
  <2>3. CASE disk' = disk
    BY <1>1, <2>1, <2>3
  <2> QED BY <1>6, <2>2, <2>3 DEF WriteError
<1>7. CASE FlushEnd
  <2> PICK k \in Segments : Shed(k)
    BY <1>7 DEF FlushEnd
  <2>1. /\ disk' = [i \in Since(k) |-> disk[i]] /\ Since(k) \subseteq DOMAIN disk
        /\ nextSeq' = nextSeq /\ active' = active /\ flush # "down"
    BY <1>7 DEF FlushEnd, Shed, Since, Segments
  <2>2. active \in Since(k)
    BY <1>g, <1>n, <1>s DEF Since, Segments
  <2> QED BY <1>u, <2>1, <2>2 DEF SeqInv, Segments
<1>8. CASE Crash
  <2>1. flush' = "down"
    BY <1>8 DEF Crash
  <2>2. ASSUME NEW partial \in BOOLEAN, Kill(partial) PROVE SeqInv'
    <3>1. CASE TearFrame /\ Writing
      BY <1>q, <1>t, <2>1, <3>1
    <3>2. CASE disk' = disk
      BY <1>q, <1>u, <2>1, <3>2
    <3> QED BY <2>2, <3>1, <3>2 DEF Kill
  <2>3. ASSUME NEW cut \in Cuts, PowerLoss(cut) PROVE SeqInv'
    <3>1. /\ disk' = [i \in DOMAIN disk |-> SubSeq(disk[i], 1, cut[i])]
          /\ \A i \in DOMAIN disk : cut[i] \in synced[i] .. Len(disk[i])
      BY <2>3 DEF PowerLoss, Segments
    <3>2. ASSUME NEW i \in DOMAIN disk PROVE Ascending(disk'[i])
      <4>1. disk[i] \in Seq(Frames) /\ Len(disk[i]) \in Nat /\ synced[i] \in 0 .. Len(disk[i])
        BY <1>p DEF GoodLog, PartitionTypeOK, Segments
      <4>2. cut[i] \in 0 .. Len(disk[i])
        BY <3>1, <4>1
      <4>3. Ascending(SubSeq(disk[i], 1, cut[i]))
        BY <1>u, <4>1, <4>2, AscendingCut
      <4> QED BY <3>1, <4>3
    <3> QED BY <1>q, <2>1, <3>1, <3>2
  <2> QED BY <1>8, <2>2, <2>3 DEF Crash
<1>9. CASE OpenPartition
  <2>1. /\ disk' = disk /\ active' = active
        /\ nextSeq' = ScanMaxSeq(disk[active]) + 1
    BY <1>9, <1>g DEF OpenPartition
  <2>2. /\ ScanMaxSeq(disk[active]) \in Nat
        /\ \A n \in 1 .. Readable(disk[active]) :
              disk[active][n].seq <= ScanMaxSeq(disk[active])
        /\ Readable(disk[active]) \in 0 .. Len(disk[active]) /\ Len(disk[active]) \in Nat
    BY <1>g, ScanMaxSeqType, ReadablePrefix
  <2>3. \A n \in 1 .. Readable(disk[active]) : disk[active][n].seq \in Nat
    BY <1>g, <2>2, FrameTypes
  <2>4. AtMost(disk[active], ScanMaxSeq(disk[active]) + 1)
    BY <2>2, <2>3 DEF AtMost
  <2> QED BY <1>q, <1>u, <2>1, <2>4
<1>10. CASE UNCHANGED partitionVars
  BY <1>10 DEF partitionVars, SeqInv, Segments, Ascending, AtMost
<1> QED BY <1>2, <1>3, <1>4, <1>5, <1>6, <1>7, <1>8, <1>9, <1>10 DEF PartitionNext

LEMMA SeqInvariance == PartitionSpec => []SeqInv
<1>1. LogInv /\ SeqInv /\ [PartitionNext]_partitionVars => SeqInv'
  BY SeqStep
<1> QED BY <1>1, SeqInitially, LogInvariance, PTL DEF PartitionSpec

\* A reader meets increasing numbers in every segment, whatever writes failed,
\* whatever a power loss cut off, however often the segment was reopened.
THEOREM SegmentNumbersIncrease == PartitionSpec => []SeqsIncreaseInSegment
<1>1. ASSUME LogInv, SeqInv PROVE SeqsIncreaseInSegment
  <2> SUFFICES ASSUME NEW i \in Segments, NEW n \in 2 .. Readable(disk[i])
               PROVE  disk[i][n - 1].seq < disk[i][n].seq
    BY DEF SeqsIncreaseInSegment
  <2>1. Ascending(disk[i]) /\ disk[i] \in Seq(Frames)
    BY <1>1 DEF SeqInv, LogInv, GoodLog, Segments
  <2>2. Readable(disk[i]) \in 0 .. Len(disk[i]) /\ Len(disk[i]) \in Nat
    BY <2>1, ReadablePrefix
  <2>3. n - 1 \in 1 .. Readable(disk[i]) /\ n \in 1 .. Readable(disk[i]) /\ n - 1 < n
    BY <2>2
  <2> QED BY <2>1, <2>3 DEF Ascending
<1>2. LogInv /\ SeqInv => SeqsIncreaseInSegment
  BY <1>1
<1> QED BY <1>2, SeqInvariance, LogInvariance, PTL

-----------------------------------------------------------------------------
(* The endpoint.                                                           *)

\* The number of a request past its XADD is in the stream: what its commit
\* will need.
AddedIsStored ==
    \A s \in Slots : reqs[s].stage = "added" =>
        \E n \in 1 .. Len(stream) : stream[n].seq = reqs[s].seq

GatewayInv == GatewayTypeOK /\ CommittedIsStored /\ AddedIsStored

\* The invariant holds before the first request.
LEMMA GatewayInitially == GatewayInit => GatewayInv
BY DEF GatewayInit, GatewayInv, GatewayTypeOK, CommittedIsStored,
       AddedIsStored, Requests, Stages, Free

\* The types are kept by every step.
LEMMA GatewayTypes == GatewayTypeOK /\ [GatewayNext]_gatewayVars => GatewayTypeOK'
<1> SUFFICES ASSUME GatewayTypeOK, [GatewayNext]_gatewayVars PROVE GatewayTypeOK'
  OBVIOUS
<1> USE DEF GatewayTypeOK, Requests, Stages
<1>1. ASSUME NEW s \in Slots, NEW seq \in SpoolSeqs, NEW id \in Nat, Arrive(s, seq, id)
      PROVE GatewayTypeOK'
  BY <1>1 DEF Arrive, SpoolSeqs
<1>2. ASSUME NEW s \in Slots, Duplicate(s) \/ Refuse(s) \/ Die(s)
      PROVE GatewayTypeOK'
  <2>1. Free \in Requests
    BY DEF Free
  <2>2. reqs' = [reqs EXCEPT ![s] = Free] /\ lastSeq' = lastSeq /\ stream' = stream
    BY <1>2 DEF Duplicate, Refuse, Die
  <2> QED BY <2>1, <2>2
<1>3. ASSUME NEW s \in Slots, Check(s) PROVE GatewayTypeOK'
  BY <1>3 DEF Check
<1>4. ASSUME NEW s \in Slots, XAdd(s) PROVE GatewayTypeOK'
  <2>1. [seq |-> reqs[s].seq, id |-> reqs[s].id] \in [seq : Nat, id : Nat]
    OBVIOUS
  <2> QED BY <1>4, <2>1 DEF XAdd
<1>5. ASSUME NEW s \in Slots, Commit(s) PROVE GatewayTypeOK'
  BY <1>5 DEF Commit, CommitSeq, Free
<1>6. ASSUME Expire PROVE GatewayTypeOK'
  BY <1>6 DEF Expire
<1>7. ASSUME UNCHANGED gatewayVars PROVE GatewayTypeOK'
  BY <1>7 DEF gatewayVars
<1> QED BY <1>1, <1>2, <1>3, <1>4, <1>5, <1>6, <1>7 DEF GatewayNext

\* The numbers in the stream stay there.
LEMMA StreamOnlyGrows ==
    ASSUME GatewayTypeOK, [GatewayNext]_gatewayVars, NEW seq \in Nat,
           \E n \in 1 .. Len(stream) : stream[n].seq = seq
    PROVE  \E n \in 1 .. Len(stream') : stream'[n].seq = seq
<1> PICK n \in 1 .. Len(stream) : stream[n].seq = seq
  OBVIOUS
<1>1. CASE stream' = stream
  BY <1>1
<1>2. ASSUME NEW s \in Slots, XAdd(s)
      PROVE \E m \in 1 .. Len(stream') : stream'[m].seq = seq
  <2>1. stream' = Append(stream, [seq |-> reqs[s].seq, id |-> reqs[s].id])
    BY <1>2 DEF XAdd
  <2>2. stream \in Seq([seq : Nat, id : Nat])
    BY DEF GatewayTypeOK
  <2>3. n \in 1 .. Len(stream') /\ stream'[n] = stream[n]
    BY <2>1, <2>2
  <2> QED BY <2>3
<1>3. stream' = stream \/ \E s \in Slots : XAdd(s)
  BY DEF GatewayNext, Arrive, Duplicate, Check, Refuse, Commit, Die, Expire, gatewayVars
<1> QED BY <1>1, <1>2, <1>3

\* The invariant is kept: the number that becomes committed, or that becomes
\* "added", is one whose entry is in the stream.
LEMMA GatewayStepKeepsInv == GatewayInv /\ [GatewayNext]_gatewayVars => GatewayInv'
<1> SUFFICES ASSUME GatewayInv, [GatewayNext]_gatewayVars PROVE GatewayInv'
  OBVIOUS
<1> USE DEF GatewayInv
<1>t. GatewayTypeOK'
  BY GatewayTypes
<1>c. CommittedIsStored'
  <2>1. lastSeq' = 0 \/ lastSeq' = lastSeq
          \/ \E s \in Slots : reqs[s].stage = "added" /\ lastSeq' = reqs[s].seq
    BY DEF GatewayNext, Arrive, Duplicate, Check, Refuse, XAdd, Commit, CommitSeq, Die,
           Expire, gatewayVars
  <2>2. lastSeq \in Nat /\ \A s \in Slots : reqs[s].seq \in Nat
    BY DEF GatewayTypeOK, Requests
  <2>3. lastSeq' # 0 => \E n \in 1 .. Len(stream) : stream[n].seq = lastSeq'
    BY <2>1 DEF CommittedIsStored, AddedIsStored
  <2>4. lastSeq' # 0 => \E n \in 1 .. Len(stream') : stream'[n].seq = lastSeq'
    BY <1>t, <2>3, StreamOnlyGrows DEF GatewayTypeOK
  <2> QED BY <2>4 DEF CommittedIsStored
<1>a. AddedIsStored'
  <2> SUFFICES ASSUME NEW s \in Slots, reqs'[s].stage = "added"
               PROVE \E n \in 1 .. Len(stream') : stream'[n].seq = reqs'[s].seq
    BY DEF AddedIsStored
  <2>1. CASE reqs[s].stage = "added" /\ reqs'[s] = reqs[s]
    <3>1. reqs[s].seq \in Nat
      BY DEF GatewayTypeOK, Requests
    <3>2. \E n \in 1 .. Len(stream) : stream[n].seq = reqs[s].seq
      BY <2>1 DEF AddedIsStored
    <3> QED BY <2>1, <3>1, <3>2, StreamOnlyGrows
  <2>2. CASE XAdd(s)
    <3>1. stream \in Seq([seq : Nat, id : Nat]) /\ reqs \in [Slots -> Requests]
      BY DEF GatewayTypeOK
    <3>2. stream' = Append(stream, [seq |-> reqs[s].seq, id |-> reqs[s].id])
      BY <2>2 DEF XAdd
    <3>3. reqs'[s].seq = reqs[s].seq
      BY <2>2, <3>1 DEF XAdd, Requests
    <3>4. Len(stream) + 1 \in 1 .. Len(stream')
          /\ stream'[Len(stream) + 1].seq = reqs[s].seq
      BY <3>1, <3>2
    <3> QED BY <3>3, <3>4
  <2>3. XAdd(s) \/ (reqs[s].stage = "added" /\ reqs'[s] = reqs[s])
    <3>1. reqs \in [Slots -> Requests]
      BY DEF GatewayTypeOK
    <3> DEFINE Goal == XAdd(s) \/ (reqs[s].stage = "added" /\ reqs'[s] = reqs[s])
    <3>2. ASSUME NEW t \in Slots, t # s, NEW r, reqs' = [reqs EXCEPT ![t] = r]
          PROVE Goal
      BY <3>1, <3>2
    <3>3. ASSUME NEW r, reqs' = [reqs EXCEPT ![s] = r], r.stage # "added" PROVE Goal
      BY <3>1, <3>3
    <3>4. ASSUME reqs' = reqs PROVE Goal
      BY <3>4
    <3>5. ASSUME NEW t \in Slots, t # s, XAdd(t) \/ Check(t) PROVE Goal
      BY <3>1, <3>5 DEF XAdd, Check
    <3>6. ASSUME Check(s) PROVE Goal
      BY <3>1, <3>6 DEF Check, Requests
    <3>7. ASSUME NEW t \in Slots, Duplicate(t) \/ Refuse(t) \/ Commit(t) \/ Die(t)
          PROVE Goal
      <4>1. reqs' = [reqs EXCEPT ![t] = Free] /\ Free.stage # "added"
        BY <3>7 DEF Duplicate, Refuse, Commit, Die, Free
      <4> QED BY <4>1, <3>2, <3>3
    <3>8. ASSUME NEW t \in Slots, NEW seq \in SpoolSeqs, NEW id \in Nat, Arrive(t, seq, id)
          PROVE Goal
      <4> DEFINE r == [stage |-> "new", seq |-> seq, id |-> id]
      <4>1. reqs' = [reqs EXCEPT ![t] = r] /\ r.stage # "added"
        BY <3>8 DEF Arrive
      <4> HIDE DEF r
      <4> QED BY <4>1, <3>2, <3>3
    <3> QED BY <3>4, <3>5, <3>6, <3>7, <3>8 DEF GatewayNext, Expire, gatewayVars
  <2> QED BY <2>1, <2>2, <2>3
<1> QED BY <1>t, <1>c, <1>a

LEMMA GatewayInvariance == GatewaySpec => []GatewayInv
BY GatewayInitially, GatewayStepKeepsInv, PTL DEF GatewaySpec

\* Commit follows XADD: the platform answers "duplicate" only with a batch of
\* the committed number in the stream, for any number of concurrent requests.
THEOREM CommittedSeqIsStored == GatewaySpec => []CommittedIsStored
<1>1. GatewayInv => CommittedIsStored
  BY DEF GatewayInv
<1> QED BY <1>1, GatewayInvariance, PTL

\* The compare-and-set of _commit_seq: no straggler moves the number back.
THEOREM CommittedSeqNeverRegresses == GatewaySpec => SeqNeverRegresses
<1>1. GatewayInv /\ [GatewayNext]_gatewayVars
        => [lastSeq' >= lastSeq \/ lastSeq' = 0]_gatewayVars
  <2> SUFFICES ASSUME GatewayInv, [GatewayNext]_gatewayVars
               PROVE lastSeq' >= lastSeq \/ lastSeq' = 0
    OBVIOUS
  <2>1. lastSeq \in Nat /\ \A s \in Slots : reqs[s].seq \in Nat
    BY DEF GatewayInv, GatewayTypeOK, Requests
  <2>2. ASSUME NEW s \in Slots, Commit(s) PROVE lastSeq' >= lastSeq
    BY <2>1, <2>2 DEF Commit, CommitSeq
  <2>3. lastSeq' = lastSeq \/ lastSeq' = 0 \/ \E s \in Slots : Commit(s)
    BY DEF GatewayNext, Arrive, Duplicate, Check, Refuse, XAdd, Die, Expire, gatewayVars
  <2> QED BY <2>1, <2>2, <2>3
<1> QED BY <1>1, GatewayInvariance, PTL DEF GatewaySpec, SeqNeverRegresses

-----------------------------------------------------------------------------
(* One request at a time, no death between XADD and commit, no expiry.     *)

Serial == /\ \A s, t \in Slots : s = t
          /\ "die" \notin Faults /\ "expire" \notin Faults

\* The numbers in the stream increase; all but that of an entry about to be
\* committed are covered by the committed number; a request that passed the
\* dedup check is beyond all of them.
SerialInv ==
    /\ GatewayTypeOK /\ StoredOnce
    /\ \A s \in Slots : reqs[s].stage # "free" => reqs[s].seq > 0
    /\ \A s \in Slots : reqs[s].stage \in {"free", "new", "checked"} =>
          \A n \in 1 .. Len(stream) : stream[n].seq <= lastSeq
    /\ \A s \in Slots : reqs[s].stage = "checked" => reqs[s].seq > lastSeq
    /\ \A s \in Slots : reqs[s].stage = "added" =>
          \A n \in 1 .. Len(stream) : stream[n].seq <= reqs[s].seq

LEMMA SerialInitially == GatewayInit => SerialInv
BY DEF GatewayInit, SerialInv, GatewayTypeOK, StoredOnce, Requests, Stages, Free

LEMMA SerialStep ==
    ASSUME Serial, SerialInv, [GatewayNext]_gatewayVars
    PROVE  SerialInv'
<1>t. GatewayTypeOK'
  BY GatewayTypes DEF SerialInv
<1>y. /\ reqs \in [Slots -> Requests] /\ lastSeq \in Nat
      /\ stream \in Seq([seq : Nat, id : Nat])
      /\ \A n \in 1 .. Len(stream) : stream[n].seq \in Nat
      /\ \A s \in Slots : reqs[s].seq \in Nat /\ reqs[s].stage \in Stages
  <2>1. /\ reqs \in [Slots -> Requests] /\ lastSeq \in Nat
        /\ stream \in Seq([seq : Nat, id : Nat])
    BY DEF SerialInv, GatewayTypeOK
  <2>2. \A n \in 1 .. Len(stream) : stream[n] \in [seq : Nat, id : Nat]
    BY <2>1, ElementOfSeq
  <2>3. \A s \in Slots : reqs[s] \in Requests
    BY <2>1
  <2> QED BY <2>1, <2>2, <2>3 DEF Requests
<1>1. ASSUME NEW s \in Slots, XAdd(s) PROVE SerialInv'
  <2>1. \A t \in Slots : t = s
    BY DEF Serial
  <2>2. /\ \A n \in 1 .. Len(stream) : stream[n].seq < reqs[s].seq
        /\ \A m, n \in 1 .. Len(stream) : m < n => stream[m].seq < stream[n].seq
    BY <1>1, <1>y DEF XAdd, SerialInv, StoredOnce
  <2>3. /\ Len(stream') = Len(stream) + 1
        /\ \A n \in 1 .. Len(stream) : stream'[n] = stream[n]
        /\ stream'[Len(stream) + 1].seq = reqs[s].seq
    BY <1>1, <1>y DEF XAdd
  <2>4. reqs'[s].stage = "added" /\ reqs'[s].seq = reqs[s].seq
    BY <1>1, <1>y DEF XAdd, Requests
  <2>5. StoredOnce'
    <3> SUFFICES ASSUME NEW m \in 1 .. Len(stream'), NEW n \in 1 .. Len(stream'),
                        m < n
                 PROVE  stream'[m].seq < stream'[n].seq
      BY DEF StoredOnce
    <3>1. Len(stream) \in Nat /\ m \in 1 .. Len(stream)
      BY <1>y, <2>3
    <3>2. CASE n \in 1 .. Len(stream)
      BY <2>2, <2>3, <3>1, <3>2
    <3>3. CASE n = Len(stream) + 1
      BY <2>2, <2>3, <3>1, <3>3
    <3> QED BY <2>3, <3>1, <3>2, <3>3
  <2>6. \A n \in 1 .. Len(stream') : stream'[n].seq <= reqs'[s].seq
    <3> SUFFICES ASSUME NEW n \in 1 .. Len(stream')
                 PROVE  stream'[n].seq <= reqs[s].seq
      BY <2>4
    <3>0. Len(stream) \in Nat /\ reqs[s].seq \in Nat
      BY <1>y
    <3>1. CASE n \in 1 .. Len(stream)
      <4>1. stream[n].seq < reqs[s].seq /\ stream[n].seq \in Nat
        BY <1>y, <2>2, <3>1
      <4> QED BY <2>3, <3>0, <3>1, <4>1
    <3>2. CASE n = Len(stream) + 1
      BY <2>3, <3>0, <3>2
    <3> QED BY <2>3, <3>0, <3>1, <3>2
  <2>7. reqs'[s].seq > 0
    BY <1>1, <2>4 DEF XAdd, SerialInv
  <2> QED BY <1>t, <2>1, <2>4, <2>5, <2>6, <2>7 DEF SerialInv
<1>2. ASSUME NEW s \in Slots, Commit(s) PROVE SerialInv'
  <2>1. \A t \in Slots : t = s
    BY DEF Serial
  <2>2. stream' = stream /\ reqs'[s].stage = "free"
    BY <1>2, <1>y DEF Commit, Free
  <2>3. \A n \in 1 .. Len(stream) : stream[n].seq <= reqs[s].seq
    BY <1>2 DEF Commit, SerialInv
  <2>4. (lastSeq' = lastSeq /\ reqs[s].seq <= lastSeq) \/ lastSeq' = reqs[s].seq
    BY <1>2 DEF Commit, CommitSeq
  <2>5. \A n \in 1 .. Len(stream') : stream'[n].seq <= lastSeq'
    BY <1>y, <2>2, <2>3, <2>4
  <2> QED BY <1>t, <2>1, <2>2, <2>5 DEF SerialInv, StoredOnce
<1>3. ASSUME NEW s \in Slots, Check(s) PROVE SerialInv'
  <2>1. \A t \in Slots : t = s
    BY DEF Serial
  <2>2. stream' = stream /\ lastSeq' = lastSeq
        /\ reqs'[s].stage = "checked" /\ reqs'[s].seq = reqs[s].seq
    BY <1>3, <1>y DEF Check, Requests
  <2>3. lastSeq = 0 \/ reqs[s].seq > lastSeq
    BY <1>3, <1>y DEF Check, Seen
  <2>4. reqs[s].stage = "new" /\ reqs[s].seq > 0
    BY <1>3 DEF Check, SerialInv
  <2>5. reqs'[s].seq > lastSeq'
    BY <1>y, <2>2, <2>3, <2>4
  <2>6. \A n \in 1 .. Len(stream') : stream'[n].seq <= lastSeq'
    BY <2>2, <2>4 DEF SerialInv
  <2>7. StoredOnce'
    BY <2>2 DEF SerialInv, StoredOnce
  <2> QED BY <1>t, <2>1, <2>2, <2>4, <2>5, <2>6, <2>7 DEF SerialInv
<1>4. ASSUME NEW s \in Slots, reqs[s].stage \in {"free", "new"},
             reqs'[s].stage = "free" \/ (reqs'[s].stage = "new" /\ reqs'[s].seq > 0),
             stream' = stream, lastSeq' = lastSeq
      PROVE  SerialInv'
  <2>1. \A t \in Slots : t = s
    BY DEF Serial
  <2>2. \A n \in 1 .. Len(stream') : stream'[n].seq <= lastSeq'
    BY <1>4 DEF SerialInv
  <2>3. StoredOnce'
    BY <1>4 DEF SerialInv, StoredOnce
  <2> QED BY <1>t, <1>4, <2>1, <2>2, <2>3 DEF SerialInv
<1>5. ASSUME NEW s \in Slots, NEW seq \in SpoolSeqs, NEW id \in Nat, Arrive(s, seq, id)
      PROVE  SerialInv'
  <2>1. seq \in Nat /\ seq > 0
    BY DEF SpoolSeqs
  <2>2. reqs'[s].stage = "new" /\ reqs'[s].seq = seq
    BY <1>5, <1>y DEF Arrive
  <2> QED BY <1>4, <1>5, <2>1, <2>2 DEF Arrive
<1>6. ASSUME NEW s \in Slots, Duplicate(s) \/ Refuse(s) PROVE SerialInv'
  <2>1. reqs'[s].stage = "free"
    BY <1>6, <1>y DEF Duplicate, Refuse, Free
  <2> QED BY <1>4, <1>6, <2>1 DEF Duplicate, Refuse
<1>7. ASSUME UNCHANGED gatewayVars PROVE SerialInv'
  <2>1. reqs' = reqs /\ stream' = stream /\ lastSeq' = lastSeq
    BY <1>7 DEF gatewayVars
  <2> QED BY <2>1 DEF SerialInv, GatewayTypeOK, StoredOnce
<1> QED BY <1>1, <1>2, <1>3, <1>5, <1>6, <1>7 DEF GatewayNext, Die, Expire, Serial

\* The dedup check and the commit make a serial client's batches arrive once
\* each and in order, whatever it repeats and whatever is refused.
THEOREM SerialClientStoredOnce == Serial /\ GatewaySpec => []StoredOnce
<1>1. SerialInv => StoredOnce
  BY DEF SerialInv
<1>2. Serial /\ SerialInv /\ [GatewayNext]_gatewayVars => SerialInv'
  BY SerialStep
<1> HIDE DEF Serial
<1>3. CASE Serial
  <2>1. SerialInv /\ [GatewayNext]_gatewayVars => SerialInv'
    BY <1>2, <1>3
  <2> QED BY <1>1, <2>1, SerialInitially, PTL DEF GatewaySpec
<1> QED BY <1>3

-----------------------------------------------------------------------------
(* The two together, with the reader and the drain loop between them.      *)

Cursors == [seg : Nat, off : Nat]

\* What the reader holds came out of the log, so it is numbered.
ReaderOK ==
    /\ cur \in Cursors /\ saved \in Cursors
    /\ file \in Nat \cup {Closed, Ended}
    /\ hand = Nothing \/ (hand \in Frames /\ hand.seq > 0)
    /\ waiting \in Slots \cup {NoSlot}

\* The request the drain loop waits for carries the record in hand.
AskedForHand ==
    waiting # NoSlot =>
        hand # Nothing /\ reqs[waiting].stage # "free" /\ reqs[waiting].seq = hand.seq

DeliveryInv == LogInv /\ GatewayInv /\ ReaderOK /\ AskedForHand

LEMMA DeliveryInitially == Init => DeliveryInv
<1> SUFFICES ASSUME Init PROVE DeliveryInv
  OBVIOUS
<1>1. LogInv /\ GatewayInv
  BY LogInitially, GatewayInitially DEF Init
<1>2. ReaderOK /\ AskedForHand
  BY DEF Init, ReaderOK, AskedForHand, Start, Cursors
<1> QED BY <1>1, <1>2 DEF DeliveryInv

\* Every step of the whole is a step of the log, or leaves it alone, and a step
\* of the endpoint under the client the drain loop is, or leaves it alone.
LEMMA DeliveryStepsProject ==
    ASSUME ReaderOK, [Next]_vars
    PROVE  [PartitionNext]_partitionVars /\ [GatewayNext]_gatewayVars
<1>1. [PartitionNext]_partitionVars
  BY DEF Next, vars, SpoolStep, Reader, CatchUp, ReadRecord, EndOfFile, NextSegment,
         CaughtUp, Send, Serve, Disturb, Timeout, CrashCollector, OpenReader, PartitionNext
<1>2. ASSUME NEW s \in Slots, Send(s) PROVE GatewayNext
  <2>1. hand \in Frames /\ hand.seq > 0 /\ Arrive(s, hand.seq, hand.id)
    BY <1>2 DEF Send, ReaderOK
  <2>2. hand.seq \in SpoolSeqs /\ hand.id \in Nat
    BY <2>1 DEF Frames, SpoolSeqs
  <2> QED BY <2>1, <2>2 DEF GatewayNext
<1>3. [GatewayNext]_gatewayVars
  BY <1>2 DEF Next, vars, SpoolStep, Reader, CatchUp, ReadRecord, EndOfFile, NextSegment,
              CaughtUp, Serve, Disturb, Timeout, CrashCollector, OpenReader, GatewayNext
<1> QED BY <1>1, <1>3

LEMMA ReaderStep ==
    ASSUME DeliveryInv, [Next]_vars
    PROVE  ReaderOK'
<1> USE DEF Cursors
<1>y. ReaderOK /\ LogInv
  BY DEF DeliveryInv
<1>n. Closed \in Int /\ Ended \in Int /\ Closed # Ended
  BY DEF Closed, Ended
<1>1. CASE UNCHANGED readerVars
  BY <1>1, <1>y DEF readerVars, ReaderOK
<1>2. CASE CatchUp
  <2>1. Oldest \in Nat
    <3> PICK lo \in 0 .. active : Segments = lo .. active
      BY <1>y DEF LogInv, Interval
    <3>1. active \in Nat
      BY <1>y DEF LogInv, Interval
    <3> QED BY <3>1, IntervalEnds
  <2> QED BY <1>2, <1>y, <2>1 DEF CatchUp, ReaderOK
<1>3. CASE ReadRecord
  <2> DEFINE s == disk[cur.seg]
  <2>1. s \in Seq(Frames) /\ \A n \in 1 .. Len(s) : s[n].seq > 0
    BY <1>3, <1>y DEF ReadRecord, LogInv, GoodLog, Segments
  <2>2. Readable(s) \in 0 .. Len(s) /\ Len(s) \in Nat
    BY <2>1, ReadablePrefix
  <2>3. Position \in Nat
    BY <1>3, <1>y DEF ReadRecord, Reading, Position, ReaderOK
  <2>4. Position < Readable(s) /\ hand' = s[Position + 1] /\ file' = Position + 1
    BY <1>3, <2>2, <2>3 DEF ReadRecord, AtEnd
  <2>5. Position + 1 \in 1 .. Len(s) /\ file' \in Nat
    BY <2>2, <2>3, <2>4
  <2>6. hand' \in Frames /\ hand'.seq > 0
    BY <2>1, <2>4, <2>5, ElementOfSeq
  <2> QED BY <1>3, <1>y, <2>5, <2>6 DEF ReadRecord, ReaderOK
<1>4. CASE EndOfFile \/ NextSegment \/ CaughtUp
  BY <1>4, <1>y DEF EndOfFile, NextSegment, CaughtUp, ReaderOK
<1>5. ASSUME NEW s \in Slots, Send(s) PROVE ReaderOK'
  BY <1>5, <1>y DEF Send, ReaderOK
<1>6. ASSUME Ack PROVE ReaderOK'
  BY <1>6, <1>y DEF Ack, ReaderOK
<1>7. ASSUME SendFailed PROVE ReaderOK'
  BY <1>7, <1>y DEF SendFailed, ReaderOK
<1>8. CASE CrashCollector
  <2>1. Start \in Cursors
    BY DEF Start
  <2> QED BY <1>8, <1>y, <2>1 DEF CrashCollector, ReaderOK
<1>9. CASE OpenReader
  BY <1>9, <1>y DEF OpenReader, ReaderOK
<1> QED BY <1>1, <1>2, <1>3, <1>4, <1>5, <1>6, <1>7, <1>8, <1>9
        DEF Next, vars, SpoolStep, Reader, Serve, Disturb, Accepted, Rejected, Timeout

\* A step of the endpoint on another slot leaves the awaited request alone; one
\* on its own slot that does not answer it keeps its number.
LEMMA AskedStep ==
    ASSUME DeliveryInv, [Next]_vars
    PROVE  AskedForHand'
<1>y. /\ AskedForHand /\ reqs \in [Slots -> Requests]
      /\ waiting \in Slots \cup {NoSlot} /\ NoSlot \notin Slots
  BY NoSlotAssumption DEF DeliveryInv, GatewayInv, GatewayTypeOK, ReaderOK
<1>1. ASSUME waiting' = NoSlot PROVE AskedForHand'
  BY <1>1 DEF AskedForHand
<1>2. ASSUME reqs' = reqs, waiting' = waiting, hand' = hand PROVE AskedForHand'
  BY <1>2, <1>y DEF AskedForHand
<1>3. ASSUME NEW s \in Slots, Send(s) PROVE AskedForHand'
  <2> DEFINE r == [stage |-> "new", seq |-> hand.seq, id |-> hand.id]
  <2>1. reqs' = [reqs EXCEPT ![s] = r] /\ r.stage = "new" /\ r.seq = hand.seq
    BY <1>3 DEF Send, Arrive
  <2>2. waiting' = s /\ hand' = hand /\ hand # Nothing
    BY <1>3 DEF Send
  <2> HIDE DEF r
  <2>3. reqs'[s] = r
    BY <1>y, <2>1
  <2> QED BY <2>1, <2>2, <2>3 DEF AskedForHand
<1>4. ASSUME NEW s \in Slots, Check(s) \/ XAdd(s), UNCHANGED readerVars
      PROVE  AskedForHand'
  <2>1. /\ reqs'[s].stage # "free" /\ reqs'[s].seq = reqs[s].seq
        /\ \A t \in Slots : t # s => reqs'[t] = reqs[t]
    BY <1>4, <1>y DEF Check, XAdd, Requests
  <2>2. waiting' = waiting /\ hand' = hand
    BY <1>4 DEF readerVars
  <2> QED BY <1>y, <2>1, <2>2 DEF AskedForHand
<1>5. ASSUME NEW s \in Slots, Duplicate(s) \/ Commit(s) \/ Refuse(s) \/ Die(s),
             waiting # s, UNCHANGED readerVars
      PROVE  AskedForHand'
  <2>1. reqs' = [reqs EXCEPT ![s] = Free]
    BY <1>5 DEF Duplicate, Commit, Refuse, Die
  <2>2. \A t \in Slots : t # s => reqs'[t] = reqs[t]
    BY <1>y, <2>1
  <2>3. waiting' = waiting /\ hand' = hand
    BY <1>5 DEF readerVars
  <2> QED BY <1>5, <1>y, <2>2, <2>3 DEF AskedForHand
<1>6. ASSUME NEW s \in Slots, Serve(s) \/ Disturb(s) PROVE AskedForHand'
  <2>1. CASE waiting = s /\ (Ack \/ SendFailed)
    BY <1>1, <2>1 DEF Ack, SendFailed
  <2>2. CASE (Check(s) \/ XAdd(s)) /\ UNCHANGED readerVars
    BY <1>4, <2>2
  <2>3. CASE /\ Duplicate(s) \/ Commit(s) \/ Refuse(s) \/ Die(s)
             /\ waiting # s /\ UNCHANGED readerVars
    BY <1>5, <2>3
  <2> QED BY <1>6, <2>1, <2>2, <2>3 DEF Serve, Disturb, Accepted, Rejected
<1>7. CASE Reader
  <2>1. reqs' = reqs /\ waiting' = waiting
    BY <1>7 DEF Reader, CatchUp, ReadRecord, EndOfFile, NextSegment, CaughtUp, gatewayVars
  <2>2. hand' = hand \/ hand = Nothing
    BY <1>7 DEF Reader, CatchUp, ReadRecord, Reading, EndOfFile, NextSegment, CaughtUp
  <2> QED BY <1>1, <1>2, <1>y, <2>1, <2>2 DEF AskedForHand
<1>8. CASE Timeout \/ CrashCollector
  BY <1>1, <1>8 DEF Timeout, SendFailed, CrashCollector
<1>9. ASSUME SpoolStep \/ OpenReader \/ (Expire /\ UNCHANGED <<partitionVars, readerVars>>)
             \/ UNCHANGED vars
      PROVE  AskedForHand'
  BY <1>2, <1>9 DEF SpoolStep, OpenReader, Expire, vars, gatewayVars, readerVars
<1> QED BY <1>3, <1>6, <1>7, <1>8, <1>9 DEF Next

LEMMA DeliveryStep ==
    ASSUME DeliveryInv, [Next]_vars
    PROVE  DeliveryInv'
<1>1. [PartitionNext]_partitionVars /\ [GatewayNext]_gatewayVars
  BY DeliveryStepsProject DEF DeliveryInv
<1>2. LogInv' /\ GatewayInv'
  BY <1>1, LogStep, GatewayStepKeepsInv DEF DeliveryInv
<1>3. ReaderOK' /\ AskedForHand'
  BY ReaderStep, AskedStep
<1> QED BY <1>2, <1>3 DEF DeliveryInv

LEMMA DeliveryInvariance == Spec => []DeliveryInv
<1>1. DeliveryInv /\ [Next]_vars => DeliveryInv'
  BY DeliveryStep
<1> QED BY <1>1, DeliveryInitially, PTL DEF Spec

\* The types of the whole path.
THEOREM DeliveryTypeCorrect == Spec => []DeliveryTypeOK
<1>1. DeliveryInv => DeliveryTypeOK
  <2>1. Nothing \in Frames
    BY DEF Nothing, Frame, Frames
  <2> QED BY <2>1 DEF DeliveryInv, DeliveryTypeOK, LogInv, GatewayInv, ReaderOK, Cursors
<1> QED BY <1>1, DeliveryInvariance, PTL

\* With the reader and the drain loop beside them, the spool's own steps are
\* those of the partition by itself: the reader takes no lock and changes
\* nothing it holds.
THEOREM DeliveryKeepsTheLog == Spec => PartitionSpec
<1>1. Init => PartitionInit
  BY DEF Init
<1>2. DeliveryInv /\ [Next]_vars => [PartitionNext]_partitionVars
  BY DeliveryStepsProject DEF DeliveryInv
<1> QED BY <1>1, <1>2, DeliveryInvariance, PTL DEF Spec, PartitionSpec

\* The drain loop is a client the endpoint's guarantees are for: every number it
\* sends is one the log gave a record.
THEOREM DeliveryKeepsTheEndpoint == Spec => GatewaySpec
<1>1. Init => GatewayInit
  BY DEF Init
<1>2. DeliveryInv /\ [Next]_vars => [GatewayNext]_gatewayVars
  BY DeliveryStepsProject DEF DeliveryInv
<1> QED BY <1>1, <1>2, DeliveryInvariance, PTL DEF Spec, GatewaySpec

\* No flush, rotation, crash, recovery or shedding of the running collector
\* leaves a hole in the log or deletes the segment being written.
THEOREM SegmentsStayContiguous == Spec => []SegmentsContiguous
BY DeliveryKeepsTheLog, LogStaysContiguous, PTL

\* Whatever the reader replays after refusals and restarts of the collector,
\* dedup stores each number once and in order, as long as no request is abandoned
\* for another, the API does not die and the key does not expire.
THEOREM DeliveredNumbersOnce == Serial /\ Spec => []StoredOnce
BY DeliveryKeepsTheEndpoint, SerialClientStoredOnce, PTL

\* The platform answers the drain loop "duplicate" only with a batch of the
\* committed number in the stream, and no abandoned request moves it back.
THEOREM CommitsAreSafe == Spec => []CommittedIsStored /\ SeqNeverRegresses
BY DeliveryKeepsTheEndpoint, CommittedSeqIsStored, CommittedSeqNeverRegresses, PTL

\* The saved cursor moves only on an answer to the record in hand, and every
\* such answer means the platform holds its number or a later one: whatever
\* times out, is refused, dies or is answered late.
THEOREM AcksMeanStored == Spec => AckMeansStored
<1>1. ASSUME DeliveryInv, [Next]_vars, saved' # saved, up'
      PROVE  \E n \in 1 .. Len(stream) : stream[n].seq >= hand.seq
  <2>y. /\ AskedForHand /\ CommittedIsStored /\ AddedIsStored
        /\ lastSeq \in Nat /\ reqs \in [Slots -> Requests]
        /\ waiting \in Slots \cup {NoSlot} /\ NoSlot \notin Slots
    BY <1>1, NoSlotAssumption DEF DeliveryInv, GatewayInv, GatewayTypeOK, ReaderOK
  <2>1. PICK s \in Slots : waiting = s /\ (Duplicate(s) \/ Commit(s))
    <3>1. ~ CrashCollector
      BY <1>1 DEF CrashCollector, Crash, up
    <3> QED BY <1>1, <3>1
            DEF Next, vars, readerVars, SpoolStep, Reader, CatchUp, ReadRecord, EndOfFile,
                NextSegment, CaughtUp, Send, Serve, Accepted, Disturb, Rejected,
                SendFailed, Timeout, OpenReader
  <2>2. reqs[s].seq = hand.seq /\ hand.seq \in Nat
    BY <2>1, <2>y DEF AskedForHand, Requests
  <2>3. CASE Duplicate(s)
    <3>1. lastSeq # 0 /\ hand.seq <= lastSeq
      BY <2>2, <2>3 DEF Duplicate, Seen
    <3>2. PICK n \in 1 .. Len(stream) : stream[n].seq = lastSeq
      BY <2>y, <3>1 DEF CommittedIsStored
    <3>3. stream[n].seq >= hand.seq
      BY <2>2, <2>y, <3>1, <3>2
    <3> QED BY <3>3
  <2>4. CASE Commit(s)
    <3>1. PICK n \in 1 .. Len(stream) : stream[n].seq = hand.seq
      BY <2>2, <2>4, <2>y DEF Commit, AddedIsStored
    <3>2. stream[n].seq >= hand.seq
      BY <2>2, <3>1
    <3> QED BY <3>2
  <2> QED BY <2>1, <2>3, <2>4
<1>2. DeliveryInv /\ [Next]_vars
        => [saved' # saved /\ up' =>
              \E n \in 1 .. Len(stream) : stream[n].seq >= hand.seq]_vars
  BY <1>1
<1> QED BY <1>2, DeliveryInvariance, PTL DEF Spec, AckMeansStored

-----------------------------------------------------------------------------
(* While the log has one segment, and nothing makes a send fail, the saved *)
(* cursor passes only what the platform has.                               *)

Undisturbed == Faults \subseteq {"expire"} /\ "power" \notin Crashes

log == disk[0]

\* The records the client may have sent: up to the one after the saved cursor.
Reached == {p \in 1 .. Readable(log) : p <= saved.off + 1}
IsRecord(r, p) == r.seq = log[p].seq /\ r.id = log[p].id

\* The reader is at the saved cursor, or one record further with that record
\* in hand.
AtCursor ==
    /\ saved.seg = 0 /\ saved.off \in 0 .. Readable(log)
    /\ up => cur = saved
    /\ hand # Nothing => /\ up /\ saved.off < Readable(log)
                         /\ hand = log[saved.off + 1] /\ file = saved.off + 1
    /\ hand = Nothing /\ file >= 0 => up /\ file = saved.off

\* What is in flight, in the stream or behind the cursor.
SentReached == \A s \in Slots : reqs[s].stage # "free" => \E p \in Reached : IsRecord(reqs[s], p)
StreamReached == \A n \in 1 .. Len(stream) : \E p \in Reached : IsRecord(stream[n], p)
PassedDelivered == \A p \in 1 .. saved.off : log[p].id \in Delivered

CursorInv == active = 0 => AtCursor /\ SentReached /\ StreamReached /\ PassedDelivered

LEMMA CursorInitially == Init => CursorInv
<1> SUFFICES ASSUME Init PROVE CursorInv
  OBVIOUS
<1>1. log = <<>>
  BY DEF Init, PartitionInit, log
<1>2. Readable(log) = 0
  BY <1>1, ReadableEmpty
<1>3. saved = Start /\ cur = Start /\ hand = Nothing /\ file = -1 /\ stream = <<>>
      /\ \A s \in Slots : reqs[s].stage = "free"
  BY DEF Init, GatewayInit, Free, Closed
<1>4. saved.off = 0 /\ saved.seg = 0 /\ Len(stream) = 0
  BY <1>3 DEF Start
<1> QED BY <1>2, <1>3, <1>4
        DEF CursorInv, AtCursor, SentReached, StreamReached, PassedDelivered

\* Until the first rotation the log is segment 0 alone, and what is readable of
\* it stays where it is.
LEMMA FirstSegmentGrows ==
    ASSUME LogInv, [PartitionNext]_partitionVars, "power" \notin Crashes, active' = 0
    PROVE  /\ active = 0 /\ Segments = {0} /\ log \in Seq(Frames)
           /\ Readable(log) \in Nat /\ Readable(log') \in Nat
           /\ Readable(log) <= Readable(log')
           /\ \A p \in 1 .. Readable(log) : log'[p] = log[p]
<1>p. Interval /\ PartitionTypeOK /\ GoodLog(disk, made)
  BY DEF LogInv
<1>n. active \in Nat /\ nextSeq \in Nat /\ made \in Nat
  BY <1>p DEF PartitionTypeOK
<1>s. PICK lo \in 0 .. active : Segments = lo .. active
  BY <1>p DEF Interval
<1>a. active = 0
  <2>1. active' = active \/ active' = active + 1
    BY <1>n, <1>s, IntervalEnds
       DEF PartitionNext, partitionVars, Append_, FlushStart, Rotate, Write, FlushEnd,
           RotateError, SyncError, WriteError, KeepBatch, Crash, OpenPartition
  <2> QED BY <1>n, <2>1
<1>b. Segments = {0} /\ log \in Seq(Frames)
  <2>1. Segments = {0}
    BY <1>a, <1>s
  <2> QED BY <1>p, <2>1 DEF log, GoodLog, Segments
<1>r. Readable(log) \in Nat
  BY <1>b, ReadablePrefix
<1> DEFINE Grown == /\ Readable(log') \in Nat /\ Readable(log) <= Readable(log')
                    /\ \A p \in 1 .. Readable(log) : log'[p] = log[p]
<1>1. ASSUME disk'[0] = disk[0] PROVE Grown
  <2>1. log' = log
    BY <1>1 DEF log
  <2> QED BY <1>r, <2>1
<1>2. ASSUME NEW f \in Frames, disk' = [disk EXCEPT ![active] = Append(@, f)] PROVE Grown
  <2>1. log' = Append(log, f)
    BY <1>2, <1>a, <1>b DEF log, Segments
  <2>2. LET e == Append(log, f)
        IN  /\ e \in Seq(Frames) /\ Readable(log) \in 0 .. Len(log)
            /\ \A n \in 1 .. Readable(log) : e[n] = log[n]
            /\ \/ Readable(e) = Readable(log)
               \/ Readable(e) = Readable(log) + 1 /\ e[Readable(log) + 1] = f
    BY <1>b, ReadableAppend
  <2>3. /\ \A n \in 1 .. Readable(log) : log'[n] = log[n]
        /\ Readable(log') = Readable(log) \/ Readable(log') = Readable(log) + 1
    BY <2>1, <2>2
  <2> QED BY <1>r, <2>3
<1>3. ASSUME Writing
      PROVE  /\ Frame(nextSeq + 1, mem[written + 1]) \in Frames
             /\ Torn(nextSeq + 1, mem[written + 1]) \in Frames
  <2>1. mem \in Seq(1 .. made) /\ written \in 0 .. Len(mem) /\ Len(mem) \in Nat
    BY <1>p DEF PartitionTypeOK
  <2>2. written + 1 \in 1 .. Len(mem)
    BY <1>3, <2>1 DEF Writing
  <2>3. mem[written + 1] \in 1 .. made
    BY <2>1, <2>2, ElementOfSeq
  <2> QED BY <1>n, <2>3 DEF Frame, Torn, Frames
<1>4. ASSUME Write PROVE Grown
  <2> DEFINE f == Frame(nextSeq + 1, mem[written + 1])
  <2>1. f \in Frames /\ disk' = [disk EXCEPT ![active] = Append(@, f)]
    BY <1>3, <1>4 DEF Write
  <2> HIDE DEF f
  <2> QED BY <1>2, <2>1
<1>5. ASSUME TearFrame, Writing PROVE Grown
  <2> DEFINE f == Torn(nextSeq + 1, mem[written + 1])
  <2>1. f \in Frames /\ disk' = [disk EXCEPT ![active] = Append(@, f)]
    BY <1>3, <1>5 DEF TearFrame
  <2> HIDE DEF f
  <2> QED BY <1>2, <2>1
<1>6. ASSUME NEW how \in {"clean", "partial"}, WriteError(how) PROVE Grown
  BY <1>1, <1>5, <1>6 DEF WriteError
<1>7. ASSUME FlushEnd PROVE Grown
  <2> PICK k \in Segments : Shed(k)
    BY <1>7 DEF FlushEnd
  <2>1. 0 \in Since(k) /\ disk' = [i \in Since(k) |-> disk[i]]
    BY <1>b DEF Shed, Since
  <2>2. disk'[0] = disk[0]
    BY <2>1
  <2> QED BY <1>1, <2>2
<1>8. ASSUME Crash PROVE Grown
  <2>1. PICK partial \in BOOLEAN : Kill(partial)
    BY <1>8 DEF Crash, PowerLoss
  <2> QED BY <1>1, <1>5, <2>1 DEF Kill
<1>9. ASSUME Rotate PROVE Grown
  BY <1>9, <1>a DEF Rotate
<1>10. ASSUME \/ Append_ \/ FlushStart \/ RotateError \/ SyncError \/ OpenPartition
              \/ UNCHANGED partitionVars
       PROVE  Grown
  BY <1>1, <1>10 DEF Append_, FlushStart, RotateError, SyncError, OpenPartition,
                     partitionVars
<1>11. Grown
  BY <1>4, <1>6, <1>7, <1>8, <1>9, <1>10 DEF PartitionNext
<1> QED BY <1>a, <1>b, <1>r, <1>11

\* What the cursor has to do with the log stays true while the log grows and the
\* cursor does not move back.
LEMMA ReachedKept ==
    ASSUME Readable(log) \in Nat, Readable(log') \in Nat, Readable(log) <= Readable(log'),
           \A p \in 1 .. Readable(log) : log'[p] = log[p],
           saved.off \in Nat, saved'.off \in Nat, saved.off <= saved'.off,
           NEW r, \E p \in Reached : IsRecord(r, p)
    PROVE  \E p \in Reached' : IsRecord(r, p)'
<1> PICK p \in Reached : IsRecord(r, p)
  OBVIOUS
<1>1. p \in 1 .. Readable(log) /\ p <= saved.off + 1 /\ r.seq = log[p].seq /\ r.id = log[p].id
  BY DEF Reached, IsRecord
<1>2. p \in 1 .. Readable(log') /\ p <= saved'.off + 1 /\ log'[p] = log[p]
  BY <1>1
<1>3. p \in Reached' /\ r.seq = log'[p].seq /\ r.id = log'[p].id
  BY <1>1, <1>2 DEF Reached
<1> QED BY <1>3 DEF IsRecord

\* The platform has the record in hand once it answers for its number: no other
\* record the cursor has reached has that number or a later one.
LEMMA AnswerIsForHand ==
    ASSUME DeliveryInv, SeqInv, CursorInv, active = 0, NEW s \in Slots, waiting = s,
           Duplicate(s) \/ Commit(s)
    PROVE  /\ up /\ saved.off < Readable(log) /\ file = saved.off + 1
           /\ log[saved.off + 1].id \in Delivered
<1>y. /\ AskedForHand /\ CommittedIsStored /\ AddedIsStored
      /\ lastSeq \in Nat /\ reqs \in [Slots -> Requests]
      /\ NoSlot \notin Slots
      /\ AtCursor /\ StreamReached
  BY NoSlotAssumption DEF DeliveryInv, GatewayInv, GatewayTypeOK, CursorInv
<1>s. Segments = {0} /\ log \in Seq(Frames) /\ Ascending(log)
  <2>1. Interval /\ GoodLog(disk, made)
    BY DEF DeliveryInv, LogInv
  <2>2. Segments = {0}
    BY <2>1 DEF Interval
  <2> QED BY <2>1, <2>2 DEF log, GoodLog, Segments, SeqInv
<1>r. Readable(log) \in 0 .. Len(log) /\ Len(log) \in Nat
  BY <1>s, ReadablePrefix
<1>1. /\ hand # Nothing /\ reqs[s].seq = hand.seq
      /\ up /\ saved.off < Readable(log) /\ hand = log[saved.off + 1] /\ file = saved.off + 1
      /\ saved.off \in 0 .. Readable(log)
  BY <1>y DEF AskedForHand, AtCursor
<1> DEFINE h == saved.off + 1
<1>2. h \in 1 .. Readable(log) /\ h \in 1 .. Len(log)
  BY <1>1, <1>r
<1>3. hand.seq \in Nat /\ hand.seq = log[h].seq
  BY <1>1, <1>2, <1>s, FrameTypes
<1>4. \E n \in 1 .. Len(stream) : stream[n].seq >= hand.seq
  <2>1. CASE Duplicate(s)
    <3>1. lastSeq # 0 /\ hand.seq <= lastSeq
      BY <1>1, <2>1 DEF Duplicate, Seen
    <3>2. PICK n \in 1 .. Len(stream) : stream[n].seq = lastSeq
      BY <1>y, <3>1 DEF CommittedIsStored
    <3>3. stream[n].seq >= hand.seq
      BY <1>3, <1>y, <3>1, <3>2
    <3> QED BY <3>3
  <2>2. CASE Commit(s)
    <3>1. PICK n \in 1 .. Len(stream) : stream[n].seq = hand.seq
      BY <1>1, <1>y, <2>2 DEF Commit, AddedIsStored
    <3>2. stream[n].seq >= hand.seq
      BY <1>3, <3>1
    <3> QED BY <3>2
  <2> QED BY <2>1, <2>2
<1>5. PICK n \in 1 .. Len(stream) : stream[n].seq >= hand.seq
  BY <1>4
<1>6. PICK p \in Reached : IsRecord(stream[n], p)
  BY <1>y DEF StreamReached
<1>7. /\ p \in 1 .. Readable(log) /\ p <= h
      /\ stream[n].seq = log[p].seq /\ stream[n].id = log[p].id
  BY <1>6 DEF Reached, IsRecord
<1>8. p = h
  <2>1. p \in 1 .. Len(log)
    BY <1>7, <1>r
  <2>2. log[p].seq \in Nat /\ log[p].seq >= hand.seq
    BY <1>5, <1>7, <1>s, <2>1, FrameTypes
  <2>3. ~ (p < h)
    <3>1. p < h => log[p].seq < log[h].seq
      BY <1>2, <1>7, <1>s DEF Ascending
    <3> HIDE DEF h
    <3> QED BY <1>3, <2>2, <3>1
  <2> QED BY <1>1, <1>7, <2>3
<1>9. log[h].id \in Delivered
  BY <1>7, <1>8 DEF Delivered
<1> QED BY <1>1, <1>9

\* In one segment the reader has nowhere else to go, and reads the record after
\* the cursor.
LEMMA CursorRead ==
    ASSUME DeliveryInv, CursorInv, active = 0, Reader
    PROVE  /\ saved' = saved /\ UNCHANGED <<partitionVars, gatewayVars>>
           /\ AtCursor'
<1>y. AtCursor /\ ReaderOK /\ Interval /\ GoodLog(disk, made)
  BY DEF CursorInv, DeliveryInv, LogInv
<1>s. Segments = {0} /\ log \in Seq(Frames) /\ log = disk[0]
      /\ \A n \in 1 .. Len(log) : log[n].seq > 0
  <2>1. Segments = {0}
    BY <1>y DEF Interval
  <2> QED BY <1>y, <2>1 DEF log, GoodLog, Segments
<1>r. Readable(log) \in 0 .. Len(log) /\ Len(log) \in Nat
  BY <1>s, ReadablePrefix
<1>c. /\ up /\ cur = saved /\ saved.seg = 0 /\ saved.off \in 0 .. Readable(log)
      /\ saved.off \in Nat
  <2>1. up
    BY DEF Reader, CatchUp, ReadRecord, EndOfFile, NextSegment, CaughtUp, Reading
  <2> QED BY <1>r, <1>y, <2>1 DEF AtCursor
<1>1. saved' = saved /\ UNCHANGED <<partitionVars, gatewayVars>>
  BY DEF Reader, CatchUp, ReadRecord, EndOfFile, NextSegment, CaughtUp
<1>2. up' /\ log' = log
  BY <1>1, <1>c DEF up, log, partitionVars
<1>n. Closed = -1 /\ Ended = -2 /\ file \in Nat \cup {-1, -2}
  BY <1>y DEF ReaderOK, Closed, Ended
<1>3. ~ CatchUp
  <2>1. Oldest = 0
    BY <1>s DEF Oldest
  <2> QED BY <1>c, <2>1 DEF CatchUp
<1>4. ~ NextSegment
  BY <1>c, <1>s DEF NextSegment
<1>p. ASSUME Reading PROVE Position = saved.off
  BY <1>c, <1>n, <1>p, <1>y DEF Reading, Position, AtCursor
<1>5. CASE ReadRecord
  <2>1. Position = saved.off
    BY <1>5, <1>p DEF ReadRecord
  <2>2. /\ saved.off < Readable(log) /\ hand' = log[saved.off + 1]
        /\ file' = saved.off + 1 /\ cur' = cur
    BY <1>5, <1>c, <1>r, <1>s, <2>1 DEF ReadRecord, AtEnd
  <2>3. saved.off + 1 \in 1 .. Len(log)
    BY <1>c, <1>r, <2>2
  <2>4. hand'.seq > 0
    BY <1>s, <2>2, <2>3
  <2>5. hand' # Nothing
    BY <2>4 DEF Nothing, Frame
  <2> QED BY <1>1, <1>2, <1>c, <2>2, <2>5 DEF AtCursor
<1>6. CASE EndOfFile \/ CaughtUp
  <2>1. hand' = Nothing /\ cur' = cur
    BY <1>6, <1>n, <1>y, <1>c DEF EndOfFile, CaughtUp, Reading, AtCursor
  <2>2. ~ (file' >= 0)
    BY <1>6, <1>n DEF EndOfFile, CaughtUp
  <2> QED BY <1>1, <1>2, <1>c, <2>1, <2>2 DEF AtCursor
<1> QED BY <1>1, <1>3, <1>4, <1>5, <1>6 DEF Reader

LEMMA CursorStep ==
    ASSUME Undisturbed, DeliveryInv, SeqInv, CursorInv, [Next]_vars
    PROVE  CursorInv'
<1> SUFFICES ASSUME active' = 0
             PROVE  AtCursor' /\ SentReached' /\ StreamReached' /\ PassedDelivered'
  BY DEF CursorInv
<1>g. /\ active = 0 /\ Segments = {0} /\ log \in Seq(Frames)
      /\ Readable(log) \in Nat /\ Readable(log') \in Nat
      /\ Readable(log) <= Readable(log')
      /\ \A p \in 1 .. Readable(log) : log'[p] = log[p]
  BY DeliveryStepsProject, FirstSegmentGrows DEF DeliveryInv, Undisturbed
<1>y. /\ AtCursor /\ SentReached /\ StreamReached /\ PassedDelivered
      /\ reqs \in [Slots -> Requests] /\ stream \in Seq([seq : Nat, id : Nat])
  BY <1>g DEF CursorInv, DeliveryInv, GatewayInv, GatewayTypeOK
<1>c. saved.off \in 0 .. Readable(log) /\ saved.off \in Nat
  BY <1>g, <1>y DEF AtCursor
\* The log may have grown, and nothing else that matters changed.
<1>k. ASSUME saved' = saved, UNCHANGED <<reqs, stream>>
      PROVE  SentReached' /\ StreamReached' /\ PassedDelivered'
  <2>1. \A r : (\E p \in Reached : IsRecord(r, p)) => (\E p \in Reached' : IsRecord(r, p)')
    BY <1>c, <1>g, <1>k, ReachedKept
  <2>2. SentReached'
    BY <1>k, <1>y, <2>1 DEF SentReached
  <2>3. StreamReached'
    BY <1>k, <1>y, <2>1 DEF StreamReached
  <2>4. \A p \in 1 .. saved.off : log'[p] = log[p]
    BY <1>c, <1>g
  <2>5. PassedDelivered'
    BY <1>k, <1>y, <2>4 DEF PassedDelivered, Delivered
  <2> QED BY <2>2, <2>3, <2>5
<1>a. ASSUME UNCHANGED readerVars, up' = up PROVE AtCursor'
  <2>1. saved' = saved /\ cur' = cur /\ hand' = hand /\ file' = file
    BY <1>a DEF readerVars
  <2>2. saved.off \in 0 .. Readable(log')
    BY <1>c, <1>g
  <2>3. saved.off < Readable(log) => saved.off < Readable(log') /\ log'[saved.off + 1] = log[saved.off + 1]
    BY <1>c, <1>g
  <2> QED BY <1>a, <1>y, <2>1, <2>2, <2>3 DEF AtCursor
<1>1. CASE SpoolStep
  <2>1. up' /\ up
    BY <1>1 DEF SpoolStep, up, Append_, FlushStart, Rotate, Write, FlushEnd, RotateError,
                SyncError, WriteError, KeepBatch, Writing
  <2>2. UNCHANGED readerVars /\ saved' = saved /\ UNCHANGED <<reqs, stream>>
    BY <1>1 DEF SpoolStep, readerVars, gatewayVars
  <2> QED BY <1>a, <1>k, <2>1, <2>2
<1>2. CASE Reader
  <2>1. saved' = saved /\ UNCHANGED <<partitionVars, gatewayVars>> /\ AtCursor'
    BY <1>2, <1>g, CursorRead
  <2> QED BY <1>k, <2>1 DEF gatewayVars
<1>l. ASSUME UNCHANGED partitionVars PROVE log' = log /\ up' = up
  BY <1>l DEF partitionVars, log, up
<1>3. ASSUME NEW s \in Slots, Send(s)
      PROVE  AtCursor' /\ SentReached' /\ StreamReached' /\ PassedDelivered'
  <2> DEFINE r == [stage |-> "new", seq |-> hand.seq, id |-> hand.id]
  <2>1. /\ reqs' = [reqs EXCEPT ![s] = r] /\ r.seq = hand.seq /\ r.id = hand.id
        /\ stream' = stream /\ saved' = saved /\ cur' = cur /\ hand' = hand /\ file' = file
        /\ hand # Nothing /\ UNCHANGED partitionVars
    BY <1>3 DEF Send, Arrive
  <2> HIDE DEF r
  <2>2. log' = log /\ up' = up
    BY <1>l, <2>1
  <2>3. AtCursor' /\ PassedDelivered' /\ StreamReached' /\ Reached' = Reached
    BY <1>y, <2>1, <2>2 DEF AtCursor, PassedDelivered, StreamReached, Reached, IsRecord,
                            Delivered
  <2>4. saved.off + 1 \in Reached /\ IsRecord(r, saved.off + 1)
    BY <1>c, <1>g, <1>y, <2>1 DEF AtCursor, Reached, IsRecord
  <2>5. SentReached'
    <3> SUFFICES ASSUME NEW t \in Slots, reqs'[t].stage # "free"
                 PROVE  \E p \in Reached : IsRecord(reqs'[t], p)
      BY <2>2, <2>3 DEF SentReached, IsRecord
    <3>1. CASE t = s
      <4>1. reqs'[t] = r
        BY <1>y, <2>1, <3>1
      <4> QED BY <2>4, <4>1
    <3>2. CASE t # s
      <4>1. reqs'[t] = reqs[t]
        BY <1>y, <2>1, <3>2
      <4> QED BY <1>y, <4>1 DEF SentReached
    <3> QED BY <3>1, <3>2
  <2> QED BY <2>3, <2>5
<1>4. ASSUME NEW s \in Slots, Check(s) \/ XAdd(s), UNCHANGED <<partitionVars, readerVars>>
      PROVE  AtCursor' /\ SentReached' /\ StreamReached' /\ PassedDelivered'
  <2>1. log' = log /\ up' = up /\ saved' = saved
    BY <1>4, <1>l DEF readerVars
  <2>2. AtCursor'
    BY <1>4, <1>a, <2>1
  <2>3. Reached' = Reached
    BY <2>1 DEF Reached
  <2>4. /\ reqs[s].stage # "free"
        /\ reqs'[s].seq = reqs[s].seq /\ reqs'[s].id = reqs[s].id
        /\ \A t \in Slots : t # s => reqs'[t] = reqs[t]
    BY <1>4, <1>y DEF Check, XAdd, Requests
  <2>5. SentReached'
    BY <1>y, <2>1, <2>3, <2>4 DEF SentReached, IsRecord
  <2>6. CASE stream' = stream
    BY <1>y, <2>1, <2>2, <2>3, <2>5, <2>6 DEF StreamReached, PassedDelivered, IsRecord, Delivered
  <2>7. CASE XAdd(s)
    <3> DEFINE b == [seq |-> reqs[s].seq, id |-> reqs[s].id]
    <3>1. b \in [seq : Nat, id : Nat] /\ b.seq = reqs[s].seq /\ b.id = reqs[s].id
          /\ stream' = Append(stream, b)
      BY <1>y, <2>7 DEF XAdd, Requests
    <3> HIDE DEF b
    <3>2. /\ Len(stream') = Len(stream) + 1 /\ Len(stream) \in Nat
          /\ stream'[Len(stream) + 1] = b
          /\ \A n \in 1 .. Len(stream) : stream'[n] = stream[n]
      BY <1>y, <3>1, AppendProperties
    <3>3. \A n \in 1 .. Len(stream') : n \in 1 .. Len(stream) \/ n = Len(stream) + 1
      BY <3>2
    <3>4. StreamReached'
      <4> SUFFICES ASSUME NEW n \in 1 .. Len(stream')
                   PROVE  \E p \in Reached : IsRecord(stream'[n], p)
        BY <2>1, <2>3 DEF StreamReached, IsRecord
      <4>1. CASE n \in 1 .. Len(stream)
        BY <1>y, <3>2, <4>1 DEF StreamReached
      <4>2. CASE n = Len(stream) + 1
        <5>1. PICK p \in Reached : IsRecord(reqs[s], p)
          BY <1>y, <2>4 DEF SentReached
        <5>2. IsRecord(b, p)
          BY <3>1, <5>1 DEF IsRecord
        <5> QED BY <3>2, <4>2, <5>2
      <4> QED BY <3>3, <4>1, <4>2
    <3>5. Delivered \subseteq Delivered'
      <4> SUFFICES ASSUME NEW n \in 1 .. Len(stream) PROVE stream[n].id \in Delivered'
        BY DEF Delivered
      <4>1. n \in 1 .. Len(stream') /\ stream'[n] = stream[n]
        BY <3>2
      <4> QED BY <4>1 DEF Delivered
    <3>6. PassedDelivered'
      BY <1>y, <2>1, <3>5 DEF PassedDelivered
    <3> QED BY <2>2, <2>5, <3>4, <3>6
  <2> QED BY <1>4, <2>6, <2>7 DEF Check
\* A slot is freed: what is left in flight was in flight.
<1>f. ASSUME NEW s \in Slots, Duplicate(s) \/ Commit(s)
      PROVE  /\ stream' = stream
             /\ \A t \in Slots : reqs'[t].stage # "free" => reqs'[t] = reqs[t]
  <2>1. reqs' = [reqs EXCEPT ![s] = Free] /\ stream' = stream /\ Free.stage = "free"
    BY <1>f DEF Duplicate, Commit, Free
  <2> QED BY <1>y, <2>1
<1>5. ASSUME NEW s \in Slots, Duplicate(s) \/ Commit(s), waiting # s,
             UNCHANGED <<partitionVars, readerVars>>
      PROVE  AtCursor' /\ SentReached' /\ StreamReached' /\ PassedDelivered'
  <2>1. log' = log /\ up' = up /\ saved' = saved
    BY <1>5, <1>l DEF readerVars
  <2>2. AtCursor'
    BY <1>5, <1>a, <2>1
  <2>3. Reached' = Reached
    BY <2>1 DEF Reached
  <2>4. stream' = stream /\ \A t \in Slots : reqs'[t].stage # "free" => reqs'[t] = reqs[t]
    BY <1>5, <1>f
  <2>5. SentReached'
    BY <1>y, <2>1, <2>3, <2>4 DEF SentReached, IsRecord
  <2>6. StreamReached'
    BY <1>y, <2>1, <2>3, <2>4 DEF StreamReached, IsRecord
  <2>7. PassedDelivered'
    BY <1>y, <2>1, <2>4 DEF PassedDelivered, Delivered
  <2> QED BY <2>2, <2>5, <2>6, <2>7
<1>6. ASSUME NEW s \in Slots, Duplicate(s) \/ Commit(s), waiting = s, Ack,
             UNCHANGED partitionVars
      PROVE  AtCursor' /\ SentReached' /\ StreamReached' /\ PassedDelivered'
  <2>1. /\ up /\ saved.off < Readable(log) /\ file = saved.off + 1
        /\ log[saved.off + 1].id \in Delivered
    BY <1>6, <1>g, AnswerIsForHand
  <2>2. /\ cur = saved /\ saved.seg = 0 /\ cur \in Cursors
    BY <1>y, <2>1 DEF AtCursor, DeliveryInv, ReaderOK
  <2>3. /\ saved' = cur' /\ saved'.seg = 0 /\ saved'.off = saved.off + 1
        /\ hand' = Nothing /\ file' = file
    BY <1>6, <2>2 DEF Ack, Cursors
  <2>4. log' = log /\ up' = up
    BY <1>6, <1>l
  <2>5. AtCursor'
    BY <1>c, <1>g, <2>1, <2>3, <2>4 DEF AtCursor
  <2>6. stream' = stream /\ \A t \in Slots : reqs'[t].stage # "free" => reqs'[t] = reqs[t]
    BY <1>6, <1>f
  <2>7. saved'.off \in Nat /\ saved.off <= saved'.off
    BY <1>c, <2>3
  <2>8. \A r : (\E p \in Reached : IsRecord(r, p)) => (\E p \in Reached' : IsRecord(r, p)')
    BY <1>c, <1>g, <2>7, ReachedKept
  <2>9. SentReached' /\ StreamReached'
    BY <1>y, <2>6, <2>8 DEF SentReached, StreamReached
  <2>10. \A p \in 1 .. saved'.off : p \in 1 .. saved.off \/ p = saved.off + 1
    BY <1>c, <2>3
  <2>11. PassedDelivered'
    BY <1>y, <2>1, <2>4, <2>6, <2>10 DEF PassedDelivered, Delivered
  <2> QED BY <2>5, <2>9, <2>11
<1>7. CASE CrashCollector
  <2>1. /\ saved' = saved /\ hand' = Nothing /\ file' = -1 /\ ~ up' /\ UNCHANGED <<reqs, stream>>
    BY <1>7 DEF CrashCollector, Crash, up, Undisturbed, gatewayVars, Closed
  <2>2. AtCursor'
    BY <1>c, <1>g, <1>y, <2>1 DEF AtCursor
  <2> QED BY <1>k, <2>1, <2>2
<1>8. CASE OpenReader
  <2>1. /\ saved' = saved /\ cur' = saved /\ hand' = hand /\ file' = file /\ up' /\ ~ up
        /\ UNCHANGED <<reqs, stream>>
    BY <1>8 DEF OpenReader, OpenPartition, up, gatewayVars
  <2>2. AtCursor'
    BY <1>c, <1>g, <1>y, <2>1 DEF AtCursor
  <2> QED BY <1>k, <2>1, <2>2
<1>9. CASE UNCHANGED <<partitionVars, readerVars>> /\ UNCHANGED <<reqs, stream>>
  <2>1. saved' = saved /\ up' = up
    BY <1>9, <1>l DEF readerVars
  <2> QED BY <1>9, <1>a, <1>k, <2>1
<1>10. ASSUME NEW s \in Slots, Serve(s)
       PROVE  AtCursor' /\ SentReached' /\ StreamReached' /\ PassedDelivered'
  BY <1>4, <1>5, <1>6, <1>10 DEF Serve, Accepted
<1>11. ASSUME NEW s \in Slots, Disturb(s) PROVE FALSE
  BY <1>11 DEF Disturb, Refuse, Die, Undisturbed
<1>12. ~ Timeout
  BY DEF Timeout, Undisturbed
<1>13. CASE (Expire /\ UNCHANGED <<partitionVars, readerVars>>) \/ UNCHANGED vars
  BY <1>9, <1>13 DEF Expire, vars, gatewayVars
<1> QED BY <1>1, <1>2, <1>3, <1>7, <1>8, <1>10, <1>11, <1>12, <1>13 DEF Next

\* Until the log is rotated, a kill at any point between reading a record and
\* acknowledging it replays the record: what the saved cursor has passed, the
\* platform has, though answers to requests of earlier lives come in late and the
\* dedup key expires.
THEOREM NothingIsSkipped ==
    ASSUME Undisturbed
    PROVE  Spec => [](active = 0 => NothingSkipped)
<1>1. ASSUME DeliveryInv, CursorInv, active = 0 PROVE NothingSkipped
  <2>1. Segments = {0} /\ log \in Seq(Frames) /\ AtCursor /\ PassedDelivered
    <3>1. Interval /\ GoodLog(disk, made)
      BY <1>1 DEF DeliveryInv, LogInv
    <3>2. Segments = {0}
      BY <1>1, <3>1 DEF Interval
    <3> QED BY <1>1, <3>1, <3>2 DEF log, GoodLog, Segments, CursorInv
  <2>2. saved.seg = 0 /\ saved.off \in 0 .. Readable(log) /\ Readable(log) \in Nat
    BY <2>1, ReadablePrefix DEF AtCursor
  <2>3. Passed(0) = saved.off
    BY <2>2 DEF Passed, Smaller, log
  <2> QED BY <2>1, <2>3 DEF NothingSkipped, PassedDelivered, log
<1>2. DeliveryInv /\ SeqInv /\ CursorInv /\ [Next]_vars => CursorInv'
  BY CursorStep
<1>3. DeliveryInv /\ CursorInv => (active = 0 => NothingSkipped)
  BY <1>1
<1>4. Spec => []SeqInv
  BY DeliveryKeepsTheLog, SeqInvariance, PTL
<1> QED BY <1>2, <1>3, <1>4, CursorInitially, DeliveryInvariance, PTL DEF Spec
=============================================================================
