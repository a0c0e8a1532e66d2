------------------------- MODULE ScanSession_proofs -------------------------
(***************************************************************************)
(* Theorems of the life of a scan, for a disk of any size with any carve   *)
(* ranges, a buffer of any capacity and any number of runs; and of what it *)
(* reads from, for any sources, spans, sector size, keys and clones.       *)
(***************************************************************************)
EXTENDS ScanSession, DiskInput, FiniteSetTheorems, NaturalRecursion, TLAPS

Metadata == 1..NMeta
MetadataPhase == {"meta", "metaTick", "metaDone", "metaEnd"}
CarvePhase == {"carve", "chunk", "chunkFound", "chunkTick", "carveEnd"}
Settling == {"flush", "progress", "settle"}
Running == MetadataPhase \cup CarvePhase \cup {"last"} \cup Settling

Rows ==
    [status : {"none", "running", "complete", "stopped", "failed", "paused"}, scanned : Nat,
     total : {0, Total}, metadataComplete : BOOLEAN, carveResumeSector : 0..NCarve]

SessionType ==
    /\ row \in Rows /\ resume \in Rows
    /\ stored \in [Records -> Nat]
    /\ pc \in {"idle", "down"} \cup Running
    /\ isRunning \in BOOLEAN /\ dbFlushFailed \in BOOLEAN /\ died \in BOOLEAN
    /\ kind \in {"quick", "deep", "carve_only"}
    /\ found \in 0..NMeta /\ pos \in 0..NCarve /\ rangeEnd \in 0..NCarve
    /\ last \in Nat /\ lastScannedSectors \in Nat
    /\ buffer \in Seq(Records)
    /\ status \in {"complete", "stopped", "failed"}
    /\ seen \subseteq Records

\* Where a scan of each kind can be, and what its row says meanwhile
Placed ==
    /\ pc \in MetadataPhase => kind # "carve_only"
    /\ pc \in CarvePhase \cup {"metaDone", "metaEnd"} => kind # "quick"
    /\ pc \in {"chunk", "chunkFound", "chunkTick"} => pos <= rangeEnd
    /\ pc = "chunkFound" => pos > 0
    /\ pc \in Running \cup {"down"} => row.status = "running"
    /\ pc = "down" => died

----------------------------------------------------------------------------
(* The metadata, whoever died when                                         *)

\* A scan that has not been told to stop has met what it counted, and nothing
\* that presumes the whole metadata is reached without it.
MetadataMet ==
    /\ pc \in {"meta", "metaTick"} /\ isRunning => 1..found \subseteq seen
    /\ pc \in {"metaDone", "metaEnd"} => Metadata \subseteq seen
    /\ kind # "carve_only" =>
         \/ Metadata \subseteq seen
         \/ /\ pc \notin CarvePhase /\ ~(pc = "last" /\ isRunning)
            /\ status # "complete" /\ row.status # "complete" /\ ~row.metadataComplete
            /\ kind = "quick" => row.scanned < Total /\ last < Total /\ lastScannedSectors < Total

----------------------------------------------------------------------------
(* The records, as long as no process died                                 *)

Buffered == {buffer[i] : i \in DOMAIN buffer}
Kept == {r \in seen : stored[r] > 0}

\* What a run met is stored or still in its buffer, which the flush empties
\* unless it notes that it could not.
MetIsKept ==
    /\ pc \in Running => seen \subseteq Kept \cup Buffered
    /\ pc \in {"progress", "settle"} => buffer = <<>> \/ dbFlushFailed
    /\ pc = "idle" => seen \subseteq Kept \/ row.status = "failed"

\* A pause leaves no carve checkpoint: a stop inside the carve phase reports
\* the whole disk, and is none.
PauseIsEarly ==
    /\ row.status = "paused" \/ pc \in MetadataPhase => row.carveResumeSector = 0
    /\ pc \in Running => resume.carveResumeSector = 0
    /\ pc = "last" \/ (pc \in Settling /\ status = "stopped")
         => row.carveResumeSector = 0 \/ lastScannedSectors >= Total

CarvedUpTo(p) == {Carved(q) : q \in 1..p}

\* Until it is stopped, the carve phase has met every record it passed.
CarvedMet ==
    /\ pc \in MetadataPhase => pos = 0
    /\ pc \in {"carve", "chunk", "chunkTick"} /\ isRunning => CarvedUpTo(pos) \subseteq seen
    /\ pc = "chunkFound" /\ isRunning => CarvedUpTo(pos - 1) \subseteq seen
    /\ pc \in {"carveEnd", "last"} /\ isRunning /\ kind # "quick" => CarvedUpTo(NCarve) \subseteq seen
    /\ status = "complete" => Wanted \subseteq seen
    /\ row.status = "complete" => Wanted \subseteq Kept

SessionInv ==
    /\ SessionType /\ Placed /\ MetadataMet
    /\ ~died => MetIsKept /\ PauseIsEarly /\ CarvedMet

----------------------------------------------------------------------------
(* Operators of the model                                                  *)

\* The sizes, and what follows for the number of records.
LEMMA Sizes ==
    /\ NMeta \in Nat /\ NMeta > 0 /\ NCarve \in Nat /\ NCarve > 0 /\ BufferCap \in Nat
    /\ Total \in Nat /\ Total > NMeta /\ Records = 1..Total
    /\ \A p \in 1..NCarve : Carved(p) \in Records
  BY SessionAssumption DEF Total, Records, Carved

\* Before the end of the disk there is always a next end of a range.
LEMMA NextRange ==
    ASSUME NEW p \in 0..NCarve, p < NCarve
    PROVE  RangeEnd(p) \in 1..NCarve /\ RangeEnd(p) > p
<1> DEFINE S == {e \in RangeEnds : e > p}
<1>0. RangeEnds \subseteq 1..NCarve /\ NCarve \in RangeEnds
  BY SessionAssumption
<1>1. S \subseteq Nat /\ NCarve \in S
  <2>1. NCarve \in Nat /\ 1..NCarve \subseteq Nat
    BY Sizes
  <2>2. NCarve > p
    BY <2>1
  <2> QED
    BY <1>0, <2>1, <2>2
<1>2. PICK e \in S : \A f \in S : e <= f
  BY <1>1, LeastNatural
<1>3. \E d \in RangeEnds : d > p /\ \A f \in RangeEnds : f > p => d <= f
  BY <1>2
<1>4. RangeEnd(p) \in RangeEnds /\ RangeEnd(p) > p
  BY <1>3 DEF RangeEnd
<1> QED
  BY <1>0, <1>4

\* A position of the carve phase as a number of sectors
LEMMA CarveMappedType == ASSUME NEW p \in 0..NCarve PROVE CarveMapped(p) \in Nat
<1>1. p * Total \in Nat
  BY Sizes
<1>2. \A n \in Nat : n \div NCarve \in Nat
  BY Sizes
<1> QED
  BY <1>1, <1>2, Sizes DEF CarveMapped

\* What a report can change in the row.
LEMMA ReportedRow ==
    ASSUME NEW r \in Rows, NEW t \in Nat, NEW m \in BOOLEAN, NEW x \in Reported(r, t, m)
    PROVE  /\ x \in Rows /\ x.status = r.status /\ x.scanned \in {r.scanned, t}
           /\ x.metadataComplete = r.metadataComplete \/ (m /\ ~x.metadataComplete)
           /\ x.carveResumeSector = r.carveResumeSector \/ (m /\ x.carveResumeSector = 0)
<1> DEFINE rt == [r EXCEPT !.total = Total]
           rs == [rt EXCEPT !.scanned = t]
           rm == [rs EXCEPT !.metadataComplete = FALSE, !.carveResumeSector = 0]
<1>1. rt \in Rows /\ rs \in Rows /\ rm \in Rows
  <2>1. rt \in Rows
    BY Sizes DEF Rows
  <2>2. rs \in Rows
    BY <2>1 DEF Rows
  <2>3. 0 \in 0..NCarve
    BY Sizes
  <2> QED
    BY <2>1, <2>2, <2>3 DEF Rows
<1>2. x = rt \/ x = rs \/ (m /\ x = rm)
  BY DEF Reported
<1> QED
  BY <1>1, <1>2 DEF Rows

\* The meter never runs backwards.
LEMMA MeterType ==
    ASSUME NEW p \in Nat, last \in Nat
    PROVE  Meter(p) \in Nat /\ Meter(p) >= p /\ Meter(p) >= last /\ Meter(p) \in {p, last}
  BY DEF Meter

\* A report outside the carve phase
LEMMA ProgressRow ==
    ASSUME SessionType, NEW p \in Nat, NEW m \in BOOLEAN, Progress(p, m)
    PROVE  /\ row' \in Rows /\ row'.status = row.status /\ row'.scanned \in {row.scanned, last'}
           /\ row'.metadataComplete = row.metadataComplete \/ (m /\ ~row'.metadataComplete)
           /\ row'.carveResumeSector = row.carveResumeSector \/ (m /\ row'.carveResumeSector = 0)
           /\ last' \in Nat /\ last' = lastScannedSectors' /\ last' >= p /\ last' \in {p, last}
<1>1. Meter(p) \in Nat /\ Meter(p) >= p /\ Meter(p) \in {p, last}
  BY MeterType DEF SessionType
<1>2. last' = Meter(p) /\ lastScannedSectors' = Meter(p) /\ row' \in Reported(row, Meter(p), m)
  BY DEF Progress
<1>3. row \in Rows
  BY DEF SessionType
<1> QED
  BY <1>1, <1>2, <1>3, ReportedRow

\* A report of the carve phase, with its checkpoint
LEMMA CarveProgressRow ==
    ASSUME SessionType, NEW p \in 0..NCarve, CarveProgress(p)
    PROVE  /\ row' \in Rows /\ row'.status = row.status /\ row'.metadataComplete
           /\ last' \in Nat /\ last' = lastScannedSectors'
<1>1. CarveMapped(p) \in Nat /\ Meter(CarveMapped(p)) \in Nat
  BY MeterType, CarveMappedType DEF SessionType
<1>2. PICK r \in Reported(row, Meter(CarveMapped(p)), FALSE) :
        row' = [r EXCEPT !.metadataComplete = TRUE, !.carveResumeSector = p]
  BY DEF CarveProgress
<1>3. r \in Rows /\ r.status = row.status
  <2>1. row \in Rows /\ FALSE \in BOOLEAN
    BY DEF SessionType
  <2> QED
    BY <1>1, <2>1, ReportedRow
<1> QED
  BY <1>1, <1>2, <1>3, Sizes DEF CarveProgress, Rows

----------------------------------------------------------------------------
(* The buffer and the store                                                *)

\* A batch that goes in stores each of its records and takes none out.
LEMMA BatchStored ==
    ASSUME stored \in [Records -> Nat], NEW b \in Seq(Records), Inserted(b)
    PROVE  /\ stored' \in [Records -> Nat]
           /\ \A r \in Records : stored[r] > 0 => stored'[r] > 0
           /\ \A i \in DOMAIN b : stored'[b[i]] > 0
<1>1. ASSUME NEW r \in Records
      PROVE  Count(r, b) \in Nat /\ \A i \in DOMAIN b : b[i] = r => Count(r, b) > 0
  <2> DEFINE Hits == {i \in DOMAIN b : b[i] = r}
  <2>1. IsFiniteSet(Hits)
    <3>1. IsFiniteSet(1..Len(b))
      BY FS_Interval
    <3>2. Hits \subseteq 1..Len(b)
      OBVIOUS
    <3> QED
      BY <3>1, <3>2, FS_Subset
  <2>2. Cardinality(Hits) \in Nat /\ (Hits # {} => Cardinality(Hits) # 0)
    BY <2>1, FS_CardinalityType, FS_EmptySet
  <2>3. Count(r, b) = Cardinality(Hits)
    BY DEF Count
  <2>4. \A i \in DOMAIN b : b[i] = r => Hits # {}
    OBVIOUS
  <2> HIDE DEF Hits
  <2> QED
    BY <2>2, <2>3, <2>4
<1>2. stored' = [r \in Records |-> stored[r] + Count(r, b)]
  BY DEF Inserted
<1>3. \A i \in DOMAIN b : b[i] \in Records
  OBVIOUS
<1> QED
  BY <1>1, <1>2, <1>3

\* A batch that fails stays in the buffer; one that does not is kept.
LEMMA Flushed ==
    ASSUME SessionType, NEW b \in Seq(Records), Flush(b)
    PROVE  /\ stored' \in [Records -> Nat] /\ buffer' \in Seq(Records)
           /\ isRunning' \in BOOLEAN /\ dbFlushFailed' \in BOOLEAN
           /\ isRunning' => isRunning
           /\ \A r \in Records : stored[r] > 0 => stored'[r] > 0
           /\ \A i \in DOMAIN b : stored'[b[i]] > 0 \/ b[i] \in Buffered'
<1>1. CASE Inserted(b) /\ buffer' = <<>> /\ UNCHANGED <<dbFlushFailed, isRunning>>
  BY <1>1, BatchStored DEF SessionType
<1>2. CASE buffer' = b /\ dbFlushFailed' = TRUE /\ isRunning' = FALSE /\ UNCHANGED stored
  BY <1>2 DEF SessionType, Buffered
<1> QED
  BY <1>1, <1>2 DEF Flush

\* A record that a run met is counted as seen, unless the run was stopped, and
\* whatever was kept or buffered still is.
LEMMA RecordMet ==
    ASSUME SessionType, NEW r \in Records, FileFound(r)
    PROVE  /\ stored' \in [Records -> Nat] /\ buffer' \in Seq(Records) /\ seen' \subseteq Records
           /\ isRunning' \in BOOLEAN /\ dbFlushFailed' \in BOOLEAN
           /\ isRunning' => isRunning /\ r \in seen'
           /\ seen \subseteq seen' /\ lastScannedSectors' = lastScannedSectors
           /\ \A q \in Records : stored[q] > 0 => stored'[q] > 0
           /\ seen \subseteq Kept \cup Buffered => seen' \subseteq Kept' \cup Buffered'
<1>1. CASE ~isRunning
  BY <1>1 DEF FileFound, context, SessionType, Kept, Buffered
<1>2. CASE isRunning
  <2> DEFINE b == Append(buffer, r)
  <2>1. /\ b \in Seq(Records)
        /\ \A q \in Buffered \cup {r} : \E i \in DOMAIN b : b[i] = q
    <3>1. b \in Seq(Records) /\ Len(b) = Len(buffer) + 1 /\ b[Len(b)] = r
          /\ \A i \in 1..Len(buffer) : b[i] = buffer[i]
      BY DEF SessionType
    <3>2. DOMAIN buffer = 1..Len(buffer) /\ DOMAIN b = 1..Len(b) /\ Len(buffer) \in Nat
      BY <3>1 DEF SessionType
    <3> HIDE DEF b
    <3>3. \A i \in DOMAIN buffer : i \in DOMAIN b /\ b[i] = buffer[i]
      BY <3>1, <3>2
    <3>4. Len(b) \in DOMAIN b
      BY <3>1, <3>2
    <3> QED
      BY <3>1, <3>3, <3>4 DEF Buffered
  <2>2. seen' = seen \cup {r} /\ lastScannedSectors' = lastScannedSectors
    BY <1>2 DEF FileFound
  <2>3. /\ stored' \in [Records -> Nat] /\ buffer' \in Seq(Records)
        /\ isRunning' \in BOOLEAN /\ dbFlushFailed' \in BOOLEAN
        /\ \A q \in Records : stored[q] > 0 => stored'[q] > 0
        /\ \A q \in Buffered \cup {r} : stored'[q] > 0 \/ q \in Buffered'
    <3>1. CASE Len(b) >= BufferCap
      <4>1. Flush(b)
        BY <1>2, <3>1 DEF FileFound
      <4> HIDE DEF b
      <4> QED
        BY <2>1, <4>1, Flushed
    <3>2. CASE ~(Len(b) >= BufferCap)
      <4>1. buffer' = b /\ UNCHANGED <<stored, dbFlushFailed, isRunning>>
        BY <1>2, <3>2 DEF FileFound
      <4> HIDE DEF b
      <4> QED
        BY <2>1, <4>1 DEF SessionType, Buffered
    <3> QED
      BY <3>1, <3>2
  <2>4. seen' \subseteq Records
    BY <2>2 DEF SessionType
  <2>5. seen \subseteq Kept \cup Buffered => seen' \subseteq Kept' \cup Buffered'
    BY <2>2, <2>3 DEF Kept, SessionType
  <2> QED
    BY <1>2, <2>2, <2>3, <2>4, <2>5
<1> QED
  BY <1>1, <1>2 DEF SessionType

----------------------------------------------------------------------------
(* The steps                                                               *)

\* Nothing was scanned yet.
LEMMA SessionStarts == Init => SessionInv
<1> SUFFICES ASSUME Init PROVE SessionInv
  OBVIOUS
<1>1. NoRow \in Rows /\ NoRow.status = "none" /\ ~NoRow.metadataComplete
      /\ NoRow.scanned = 0 /\ NoRow.carveResumeSector = 0
  BY Sizes DEF NoRow, Rows
<1>2. /\ row = NoRow /\ resume = NoRow /\ stored = [r \in Records |-> 0] /\ pc = "idle"
      /\ kind \in {"quick", "deep", "carve_only"} /\ isRunning = FALSE /\ dbFlushFailed = FALSE
      /\ found = 0 /\ pos = 0 /\ rangeEnd = 0 /\ last = 0 /\ lastScannedSectors = 0
      /\ buffer = <<>> /\ status = "failed" /\ seen = {} /\ died = FALSE
  BY SessionAssumption DEF Init
<1>3. SessionType
  <2>1. <<>> \in Seq(Records) /\ 0 \in 0..NMeta /\ 0 \in 0..NCarve
    BY Sizes
  <2>2. stored \in [Records -> Nat]
    BY <1>2
  <2> QED
    BY <1>1, <1>2, <2>1, <2>2 DEF SessionType
<1>4. Placed /\ MetadataMet
  BY <1>1, <1>2, Sizes DEF Placed, MetadataMet, Running, MetadataPhase, CarvePhase, Settling
<1>5. MetIsKept /\ PauseIsEarly /\ CarvedMet
  BY <1>1, <1>2, Sizes DEF MetIsKept, PauseIsEarly, CarvedMet, Running, MetadataPhase, CarvePhase, Settling
<1> QED
  BY <1>3, <1>4, <1>5 DEF SessionInv

\* What a start and a resume have in common: the run begins at the phase that
\* the row says, with nothing met and nothing buffered.
LEMMA Launched ==
    ASSUME SessionType, StartNew \/ Resume
    PROVE  /\ pc = "idle" /\ resume' \in Rows /\ row' = [resume' EXCEPT !.status = "running"]
           /\ row' \in Rows
           /\ row'.status = "running" /\ row'.scanned = resume'.scanned
           /\ row'.metadataComplete = resume'.metadataComplete
           /\ row'.carveResumeSector = resume'.carveResumeSector
           /\ resume' = NoRow \/ (resume' = row /\ row.status = "paused" /\ kind # "quick")
           /\ pc' = IF kind = "carve_only" \/ resume'.metadataComplete THEN "carve" ELSE "meta"
           /\ found' = 0 /\ pos' = 0 /\ rangeEnd' = 0 /\ last' = resume'.scanned /\ status' = "failed"
           /\ isRunning' = TRUE /\ buffer' = <<>> /\ dbFlushFailed' = FALSE /\ lastScannedSectors' = 0
           /\ UNCHANGED <<stored, kind, seen, died>>
<1>1. NoRow \in Rows
  BY Sizes DEF NoRow, Rows
<1>2. /\ pc = "idle" /\ resume' \in Rows /\ row' = [resume' EXCEPT !.status = "running"]
      /\ resume' = NoRow \/ (resume' = row /\ row.status = "paused" /\ kind # "quick")
  BY <1>1 DEF StartNew, Resume, Resumable, SessionType
<1>3. row' \in Rows /\ row'.status = "running" /\ row'.scanned = resume'.scanned
      /\ row'.metadataComplete = resume'.metadataComplete
      /\ row'.carveResumeSector = resume'.carveResumeSector
  BY <1>2 DEF Rows
<1>4. Launch
  BY DEF StartNew, Resume
<1> QED
  BY <1>2, <1>3, <1>4 DEF Launch, MeterStart

LEMMA TypeKept == ASSUME SessionType, Placed, [Next]_vars PROVE SessionType'
<1> USE DEF SessionType
<1>0. 0 \in 0..NMeta /\ 0 \in 0..NCarve /\ NCarve \in 0..NCarve /\ <<>> \in Seq(Records) /\ NMeta \in Nat
      /\ Total \in Nat /\ \A n \in Nat : MetaMapped(n) \in Nat
  BY Sizes DEF MetaMapped, MetaShare
<1>1. CASE StartNew \/ Resume
  <2>1. row' \in Rows /\ resume' \in Rows /\ resume'.scanned \in Nat
    BY <1>1, Launched DEF Rows
  <2>2. pc' \in Running
    BY <1>1, Launched DEF Running, MetadataPhase, CarvePhase
  <2>3. /\ isRunning' \in BOOLEAN /\ dbFlushFailed' \in BOOLEAN /\ status' = "failed"
        /\ found' = 0 /\ pos' = 0 /\ rangeEnd' = 0 /\ last' \in Nat /\ lastScannedSectors' = 0
        /\ buffer' = <<>> /\ UNCHANGED <<stored, kind, seen, died>>
    BY <1>1, <2>1, Launched
  <2> QED
    BY <1>0, <2>1, <2>2, <2>3
<1>2. CASE FindMetadata
  <2>1. found + 1 \in Records /\ found + 1 \in 0..NMeta
    BY <1>2, Sizes DEF FindMetadata
  <2>2. FileFound(found + 1)
    BY <1>2 DEF FindMetadata
  <2>3. lastScannedSectors' \in Nat /\ stored' \in [Records -> Nat] /\ buffer' \in Seq(Records)
        /\ seen' \subseteq Records /\ isRunning' \in BOOLEAN /\ dbFlushFailed' \in BOOLEAN
    BY <2>1, <2>2, RecordMet
  <2> QED
    BY <1>2, <2>1, <2>3 DEF FindMetadata, Running, MetadataPhase
<1>3. CASE MetadataTick
  <2>0. found \in Nat
    OBVIOUS
  <2>1. MetaMapped(found) \in Nat
    BY <1>0, <2>0, Zenon
  <2>2. Progress(MetaMapped(found), TRUE)
    BY <1>3, Zenon DEF MetadataTick
  <2>3. row' \in Rows /\ last' \in Nat /\ lastScannedSectors' \in Nat
    BY <2>1, <2>2, ProgressRow
  <2> QED
    BY <1>3, <2>3 DEF MetadataTick, reportFrame, Running, MetadataPhase
<1>4. CASE EndMetadata \/ LeaveCarve
  BY <1>4 DEF EndMetadata, LeaveCarve, thread, context, Running, MetadataPhase, CarvePhase
<1>5. CASE CheckpointMetadata
  <2>1. row' \in Rows
    BY <1>0, <1>5 DEF CheckpointMetadata, Rows
  <2> QED
    BY <1>5, <2>1 DEF CheckpointMetadata, thread, context, Running, MetadataPhase
<1>6. CASE ReportMetadata \/ ReportCarve
  <2>1. \E p \in Nat, m \in BOOLEAN : Progress(p, m)
    BY <1>0, <1>6 DEF ReportMetadata, ReportCarve
  <2>2. row' \in Rows /\ last' \in Nat /\ lastScannedSectors' \in Nat
    BY <2>1, ProgressRow
  <2> QED
    BY <1>6, <2>2 DEF ReportMetadata, ReportCarve, reportFrame, Running, MetadataPhase, CarvePhase
<1>7. CASE SkipRange
  <2>1. RangeEnd(pos) \in 0..NCarve /\ CarveProgress(RangeEnd(pos))
    BY <1>7, NextRange, Sizes DEF SkipRange
  <2>2. row' \in Rows /\ last' \in Nat /\ lastScannedSectors' \in Nat
    BY <2>1, CarveProgressRow
  <2> QED
    BY <1>7, <2>1, <2>2 DEF SkipRange, reportFrame
<1>8. CASE EnterRange
  <2>1. RangeEnd(pos) \in 0..NCarve
    BY <1>8, NextRange, Sizes DEF EnterRange
  <2>2. resume.carveResumeSector \in 0..NCarve
    BY DEF Rows
  <2> QED
    BY <1>8, <2>1, <2>2 DEF EnterRange, context, Running, CarvePhase
<1>9. CASE CarveChunk
  BY <1>9, Sizes DEF CarveChunk, context, Running, CarvePhase
<1>10. CASE DeliverChunk
  <2>1. Carved(pos) \in Records /\ FileFound(Carved(pos))
    BY <1>10, Sizes DEF DeliverChunk, Placed
  <2>2. lastScannedSectors' \in Nat /\ stored' \in [Records -> Nat] /\ buffer' \in Seq(Records)
        /\ seen' \subseteq Records /\ isRunning' \in BOOLEAN /\ dbFlushFailed' \in BOOLEAN
    BY <2>1, RecordMet
  <2> QED
    BY <1>10, <2>2 DEF DeliverChunk, thread, Running, CarvePhase
<1>11. CASE CarveTick \/ LeaveRange
  <2>1. PICK p \in 0..NCarve : CarveProgress(p)
    BY <1>11 DEF CarveTick, LeaveRange
  <2>2. row' \in Rows /\ last' \in Nat /\ lastScannedSectors' \in Nat
    BY <2>1, CarveProgressRow
  <2> QED
    BY <1>11, <2>2 DEF CarveTick, LeaveRange, reportFrame, Running, CarvePhase
<1>12. CASE DecideStatus
  <2>1. row' \in Rows /\ last' \in Nat /\ lastScannedSectors' \in Nat /\ status' \in {"complete", "stopped"}
    <3>1. CASE isRunning
      <4>1. Progress(Total, kind = "quick") /\ (kind = "quick") \in BOOLEAN /\ status' = "complete"
        BY <1>12, <3>1 DEF DecideStatus
      <4> QED
        BY <1>0, <4>1, ProgressRow
    <3>2. CASE ~isRunning
      BY <1>12, <3>2 DEF DecideStatus
    <3> QED
      BY <3>1, <3>2
  <2> QED
    BY <1>12, <2>1 DEF DecideStatus, reportFrame, Running, Settling
<1>13. CASE ScanFails \/ Stop \/ Idle \/ UNCHANGED vars
  BY <1>13 DEF ScanFails, Stop, Idle, vars, thread, context, Running, Settling
<1>14. CASE FlushRest
  <2>1. stored' \in [Records -> Nat] /\ buffer' \in Seq(Records) /\ dbFlushFailed' \in BOOLEAN
    BY <1>0, <1>14, BatchStored DEF FlushRest
  <2> QED
    BY <1>14, <2>1 DEF FlushRest, thread, Running, Settling
<1>15. CASE WriteProgress
  <2>1. row' \in Rows
    BY <1>15 DEF WriteProgress, Rows
  <2> QED
    BY <1>15, <2>1 DEF WriteProgress, thread, context, Running, Settling
<1>16. CASE CompleteScan
  <2>1. row' \in Rows
    BY <1>16 DEF CompleteScan, DbStatus, Rows
  <2> QED
    BY <1>16, <2>1 DEF CompleteScan, thread, context
<1>17. CASE Dies
  <2>1. NoRow \in Rows
    BY <1>0 DEF NoRow, Rows
  <2> QED
    BY <1>0, <1>17, <2>1 DEF Dies
<1>18. CASE Restart
  <2>1. row' \in Rows
    BY <1>18 DEF Restart, Reclaimed, Rows
  <2> QED
    BY <1>18, <2>1 DEF Restart, thread, context
<1> QED
  BY <1>1, <1>2, <1>3, <1>4, <1>5, <1>6, <1>7, <1>8, <1>9, <1>10, <1>11, <1>12, <1>13, <1>14,
     <1>15, <1>16, <1>17, <1>18 DEF Next, ScanThread

\* Every phase is one the kind of the scan has, and its row says "running".
LEMMA PlacedKept == ASSUME SessionType, Placed, [Next]_vars PROVE Placed'
<1> USE DEF Placed, Running, MetadataPhase, CarvePhase, Settling
<1>0. pos \in 0..NCarve /\ rangeEnd \in 0..NCarve /\ NCarve \in Nat
      /\ (pc \in Running \cup {"down"} => row.status = "running")
  BY Sizes DEF SessionType
<1>1. CASE StartNew \/ Resume
  <2>1. ~NoRow.metadataComplete
    BY DEF NoRow
  <2>2. pc' = IF kind = "carve_only" \/ resume'.metadataComplete THEN "carve" ELSE "meta"
    BY <1>1, Launched
  <2>3. resume' = NoRow \/ kind # "quick"
    BY <1>1, Launched
  <2>4. kind' = kind /\ row'.status = "running" /\ pc' \notin {"metaDone", "metaEnd"}
    BY <1>1, <2>2, Launched
  <2> QED
    BY <2>1, <2>2, <2>3, <2>4
<1>2. CASE FindMetadata \/ EndMetadata \/ LeaveCarve \/ Stop \/ ScanFails \/ FlushRest
  BY <1>2 DEF FindMetadata, EndMetadata, LeaveCarve, Stop, ScanFails, FlushRest, thread
<1>3. CASE MetadataTick \/ ReportMetadata \/ ReportCarve
  <2>1. \E p \in Nat, m \in BOOLEAN : Progress(p, m)
    <3>1. found \in Nat /\ MetaMapped(found) \in Nat /\ NMeta \in Nat /\ Total \in Nat
      BY Sizes DEF SessionType, MetaMapped, MetaShare
    <3> QED
      BY <1>3, <3>1, Zenon DEF MetadataTick, ReportMetadata, ReportCarve
  <2>2. row'.status = row.status
    BY <2>1, ProgressRow
  <2> QED
    BY <1>3, <2>2 DEF MetadataTick, ReportMetadata, ReportCarve, reportFrame
<1>4. CASE CheckpointMetadata \/ WriteProgress
  <2>1. row'.status = row.status
    BY <1>4 DEF CheckpointMetadata, WriteProgress, SessionType, Rows
  <2> QED
    BY <1>4, <2>1 DEF CheckpointMetadata, WriteProgress, thread
<1>5. CASE SkipRange \/ CarveTick \/ LeaveRange
  <2>1. \E p \in 0..NCarve : CarveProgress(p)
    BY <1>0, <1>5, NextRange DEF SkipRange, CarveTick, LeaveRange
  <2>2. row'.status = row.status
    BY <2>1, CarveProgressRow
  <2> QED
    BY <1>5, <2>2 DEF SkipRange, CarveTick, LeaveRange, reportFrame
<1>6. CASE EnterRange
  <2>1. RangeEnd(pos) \in 0..NCarve /\ RangeEnd(pos) > pos
    BY <1>0, <1>6, NextRange DEF EnterRange
  <2>2. resume.carveResumeSector \in 0..NCarve
    BY DEF SessionType, Rows
  <2>3. pos' <= rangeEnd'
    BY <1>0, <1>6, <2>1, <2>2 DEF EnterRange
  <2> QED
    BY <1>6, <2>3 DEF EnterRange
<1>7. CASE CarveChunk
  <2>1. pos' <= rangeEnd' /\ pos' > 0
    BY <1>0, <1>7 DEF CarveChunk
  <2> QED
    BY <1>7, <2>1 DEF CarveChunk
<1>8. CASE DeliverChunk
  BY <1>8 DEF DeliverChunk, thread
<1>9. CASE DecideStatus
  <2>1. row'.status = row.status
    <3>1. CASE isRunning
      <4>1. Progress(Total, kind = "quick") /\ (kind = "quick") \in BOOLEAN /\ Total \in Nat
        BY <1>9, <3>1, Sizes DEF DecideStatus
      <4> QED
        BY <4>1, ProgressRow
    <3>2. CASE ~isRunning
      BY <1>9, <3>2 DEF DecideStatus
    <3> QED
      BY <3>1, <3>2 DEF SessionType
  <2> QED
    BY <1>9, <2>1 DEF DecideStatus, reportFrame
<1>10. CASE CompleteScan \/ Restart
  BY <1>10 DEF CompleteScan, Restart, thread
<1>11. CASE Dies
  <2>1. pc \in Running
    BY <1>11 DEF Dies, SessionType
  <2> QED
    BY <1>11, <2>1 DEF Dies
<1>12. CASE Idle \/ UNCHANGED vars
  BY <1>12 DEF Idle, vars, thread
<1> QED
  BY <1>1, <1>2, <1>3, <1>4, <1>5, <1>6, <1>7, <1>8, <1>9, <1>10, <1>11, <1>12 DEF Next, ScanThread

\* No step forgets a record that a run met, or changes the kind of the scan.
LEMMA SeenGrows ==
    ASSUME SessionType, Placed, [Next]_vars
    PROVE  seen \subseteq seen' /\ kind' = kind
<1>1. CASE FindMetadata
  <2>1. found + 1 \in Records
    BY <1>1, Sizes DEF FindMetadata, SessionType
  <2> QED
    BY <1>1, <2>1, RecordMet DEF FindMetadata
<1>2. CASE DeliverChunk
  <2>1. Carved(pos) \in Records
    BY <1>2, Sizes DEF DeliverChunk, Placed, SessionType
  <2> QED
    BY <1>2, <2>1, RecordMet DEF DeliverChunk, thread
<1>3. CASE StartNew \/ Resume
  BY <1>3, Launched
<1>4. CASE MetadataTick \/ EndMetadata \/ CheckpointMetadata \/ ReportMetadata
  BY <1>4 DEF MetadataTick, EndMetadata, CheckpointMetadata, ReportMetadata, reportFrame, thread
<1>5. CASE SkipRange \/ EnterRange \/ CarveChunk \/ CarveTick \/ LeaveRange \/ LeaveCarve
  BY <1>5 DEF SkipRange, EnterRange, CarveChunk, CarveTick, LeaveRange, LeaveCarve, reportFrame, thread
<1>6. CASE ReportCarve \/ DecideStatus \/ FlushRest \/ WriteProgress \/ CompleteScan \/ ScanFails
  BY <1>6 DEF ReportCarve, DecideStatus, FlushRest, WriteProgress, CompleteScan, ScanFails, reportFrame, thread
<1>7. CASE Stop \/ Dies \/ Restart \/ Idle \/ UNCHANGED vars
  BY <1>7 DEF Stop, Dies, Restart, Idle, vars, thread
<1> QED
  BY <1>1, <1>2, <1>3, <1>4, <1>5, <1>6, <1>7 DEF Next, ScanThread

\* As long as some metadata record was not met, nothing claims all of them.
LEMMA MetadataMetKept ==
    ASSUME SessionType, Placed, MetadataMet, [Next]_vars PROVE MetadataMet'
<1>0. SessionType' /\ Placed' /\ seen \subseteq seen' /\ kind' = kind
  BY TypeKept, PlacedKept, SeenGrows
<1>1. CASE Metadata \subseteq seen
  <2>1. found' \in 0..NMeta /\ NMeta \in Nat
    BY <1>0, Sizes DEF SessionType
  <2>2. Metadata \subseteq seen' /\ 1..found' \subseteq Metadata
    BY <1>0, <1>1, <2>1 DEF Metadata
  <2> QED
    BY <2>2 DEF MetadataMet
<1>2. CASE kind = "carve_only"
  BY <1>0, <1>2 DEF MetadataMet, Placed, MetadataPhase
<1>3. CASE kind # "carve_only" /\ ~(Metadata \subseteq seen)
  <2>1. /\ pc \notin CarvePhase /\ pc \notin {"metaDone", "metaEnd"} /\ ~(pc = "last" /\ isRunning)
        /\ status # "complete" /\ row.status # "complete" /\ ~row.metadataComplete
        /\ kind = "quick" => row.scanned < Total /\ last < Total /\ lastScannedSectors < Total
        /\ pc \in {"meta", "metaTick"} /\ isRunning => 1..found \subseteq seen
    BY <1>3 DEF MetadataMet
  <2>2. CASE StartNew \/ Resume
    <3>1. ~resume'.metadataComplete /\ (kind = "quick" => resume'.scanned < Total)
      <4>1. ~NoRow.metadataComplete /\ NoRow.scanned < Total
        BY Sizes DEF NoRow
      <4> QED
        BY <2>1, <2>2, <4>1, Launched
    <3>2. pc' = "meta" /\ found' = 0 /\ status' = "failed" /\ row'.status = "running"
          /\ ~row'.metadataComplete /\ last' = resume'.scanned /\ row'.scanned = resume'.scanned
          /\ lastScannedSectors' = 0
      BY <1>3, <2>2, <3>1, Launched
    <3> QED
      BY <1>0, <3>1, <3>2, Sizes DEF MetadataMet, CarvePhase
  <2>3. CASE FindMetadata
    <3>1. found + 1 \in Records /\ found' = found + 1 /\ FileFound(found + 1) /\ pc' = "metaTick"
          /\ UNCHANGED <<row, last, status>> /\ pc = "meta" /\ isRunning
      BY <2>3, Sizes DEF FindMetadata, SessionType
    <3>2. lastScannedSectors' = lastScannedSectors /\ (isRunning' => found + 1 \in seen')
      BY <3>1, RecordMet
    <3>3. isRunning' => 1..found' \subseteq seen'
      <4>1. 1..(found + 1) = (1..found) \cup {found + 1}
        BY Sizes DEF SessionType
      <4> QED
        BY <1>0, <2>1, <3>1, <3>2, <4>1
    <3> QED
      BY <1>0, <2>1, <3>1, <3>2, <3>3 DEF MetadataMet, CarvePhase
  <2>4. CASE MetadataTick
    <3>1. found \in Nat /\ MetaMapped(found) \in Nat /\ (kind = "quick" => MetaMapped(found) < Total)
      BY Sizes DEF SessionType, MetaMapped, MetaShare
    <3>2. Progress(MetaMapped(found), TRUE)
      BY <2>4, Zenon DEF MetadataTick
    <3>3. row'.status = row.status /\ row'.scanned \in {row.scanned, last'} /\ ~row'.metadataComplete
          /\ last' = lastScannedSectors' /\ last' \in {MetaMapped(found), last}
      BY <2>1, <3>1, <3>2, ProgressRow
    <3>4. pc' = "meta" /\ pc = "metaTick" /\ UNCHANGED <<found, isRunning, status>>
      BY <2>4 DEF MetadataTick, reportFrame
    <3> QED
      BY <1>0, <2>1, <3>1, <3>3, <3>4 DEF MetadataMet, CarvePhase
  <2>5. CASE EndMetadata
    <3>1. isRunning => found # NMeta
      BY <1>3, <2>1, <2>5 DEF EndMetadata, Metadata
    <3>2. pc' = "last" /\ ~isRunning'
      BY <2>5, <3>1 DEF EndMetadata, SessionType
    <3> QED
      BY <1>0, <2>1, <2>5, <3>2 DEF MetadataMet, EndMetadata, thread, context, CarvePhase
  <2>6. CASE DecideStatus
    <3>1. ~isRunning
      BY <2>1, <2>6 DEF DecideStatus, SessionType
    <3> QED
      BY <1>0, <2>1, <2>6, <3>1 DEF MetadataMet, DecideStatus, CarvePhase
  <2>7. CASE FlushRest \/ ScanFails \/ Stop \/ Idle \/ UNCHANGED vars
    BY <1>0, <2>1, <2>7 DEF MetadataMet, FlushRest, ScanFails, Stop, Idle, vars, thread, context, CarvePhase
  <2>8. CASE WriteProgress
    <3>1. row'.status = row.status /\ row'.metadataComplete = row.metadataComplete
          /\ row'.scanned = lastScannedSectors
      BY <2>8 DEF WriteProgress, SessionType, Rows
    <3> QED
      BY <1>0, <2>1, <2>8, <3>1 DEF MetadataMet, WriteProgress, thread, context, CarvePhase
  <2>9. CASE CompleteScan
    <3>1. row'.status # "complete" /\ row'.metadataComplete = row.metadataComplete
          /\ row'.scanned = row.scanned
      BY <2>1, <2>9 DEF CompleteScan, DbStatus, SessionType, Rows
    <3> QED
      BY <1>0, <2>1, <2>9, <3>1 DEF MetadataMet, CompleteScan, thread, context, CarvePhase
  <2>10. CASE Dies
    BY <1>0, <2>1, <2>10, Sizes DEF MetadataMet, Dies, CarvePhase
  <2>11. CASE Restart
    <3>1. row'.status # "complete" /\ row'.metadataComplete = row.metadataComplete
          /\ row'.scanned = row.scanned
      <4>1. row.status = "running" /\ row.total \in {0, Total}
        BY <2>11 DEF Restart, Placed, SessionType, Rows
      <4>2. ~(row.total > 0 /\ row.scanned >= row.total /\ (kind = "quick" \/ row.metadataComplete))
        BY <2>1, <4>1, Sizes DEF SessionType, Rows
      <4>3. row' = [row EXCEPT !.status = "paused"]
        BY <2>11, <4>1, <4>2 DEF Restart, Reclaimed
      <4> QED
        BY <4>3 DEF SessionType, Rows
    <3> QED
      BY <1>0, <2>1, <2>11, <3>1 DEF MetadataMet, Restart, thread, context, CarvePhase
  <2>12. ~(CheckpointMetadata \/ ReportMetadata \/ SkipRange \/ EnterRange \/ CarveChunk
           \/ DeliverChunk \/ CarveTick \/ LeaveRange \/ LeaveCarve \/ ReportCarve)
    BY <2>1 DEF CheckpointMetadata, ReportMetadata, SkipRange, EnterRange, CarveChunk,
                DeliverChunk, CarveTick, LeaveRange, LeaveCarve, ReportCarve, CarvePhase
  <2> QED
    BY <2>2, <2>3, <2>4, <2>5, <2>6, <2>7, <2>8, <2>9, <2>10, <2>11, <2>12 DEF Next, ScanThread
<1> QED
  BY <1>1, <1>2, <1>3

\* What a run met and did not store is in its buffer, or the scan says it failed.
LEMMA MetIsKeptKept ==
    ASSUME SessionType, Placed, MetIsKept, ~died, [Next]_vars, ~died' PROVE MetIsKept'
<1> USE DEF Running, MetadataPhase, CarvePhase, Settling
<1>1. CASE StartNew \/ Resume
  <2>1. row.status # "failed" /\ pc = "idle"
    BY <1>1 DEF StartNew, Resume, Resumable
  <2>2. seen \subseteq Kept /\ UNCHANGED <<seen, stored>>
    BY <1>1, <2>1, Launched DEF MetIsKept
  <2>3. pc' \in {"meta", "carve"}
    BY <1>1, Launched
  <2> QED
    BY <2>2, <2>3 DEF MetIsKept, Kept
<1>2. CASE FindMetadata \/ DeliverChunk
  <2>1. PICK r \in Records : FileFound(r)
    <3>1. FindMetadata => found + 1 \in Records
      BY Sizes DEF FindMetadata, SessionType
    <3>2. DeliverChunk => Carved(pos) \in Records
      BY Sizes DEF DeliverChunk, Placed, SessionType
    <3> QED
      BY <1>2, <3>1, <3>2 DEF FindMetadata, DeliverChunk
  <2>2. pc \in Running /\ pc' \in {"metaTick", "chunkTick"}
    BY <1>2 DEF FindMetadata, DeliverChunk
  <2>3. seen' \subseteq Kept' \cup Buffered'
    BY <2>1, <2>2, RecordMet DEF MetIsKept
  <2> QED
    BY <2>2, <2>3 DEF MetIsKept
<1>3. CASE /\ pc \in Running /\ UNCHANGED <<seen, stored, buffer, dbFlushFailed>>
           /\ \/ pc' \in Running \ {"progress", "settle"}
              \/ pc' \in {"progress", "settle"} /\ pc \in {"progress", "settle"}
  BY <1>3 DEF MetIsKept, Kept, Buffered
<1>4. MetadataTick \/ EndMetadata \/ CheckpointMetadata \/ ReportMetadata => MetIsKept'
  BY <1>3 DEF MetadataTick, EndMetadata, CheckpointMetadata, ReportMetadata, reportFrame, context
<1>5. SkipRange \/ EnterRange \/ CarveChunk \/ CarveTick \/ LeaveRange \/ LeaveCarve => MetIsKept'
  BY <1>3 DEF SkipRange, EnterRange, CarveChunk, CarveTick, LeaveRange, LeaveCarve, reportFrame, context
<1>6. ReportCarve \/ DecideStatus \/ ScanFails \/ WriteProgress => MetIsKept'
  BY <1>3 DEF ReportCarve, DecideStatus, ScanFails, WriteProgress, reportFrame, context
<1>7. CASE FlushRest
  <2>1. seen \subseteq Kept \cup Buffered /\ seen' = seen /\ pc' = "progress"
    BY <1>7 DEF FlushRest, MetIsKept
  <2>2. CASE Inserted(buffer) /\ buffer' = <<>>
    <3>1. /\ \A r \in Records : stored[r] > 0 => stored'[r] > 0
          /\ \A i \in DOMAIN buffer : stored'[buffer[i]] > 0
      BY <2>2, BatchStored DEF SessionType
    <3>2. seen' \subseteq Kept'
      BY <2>1, <3>1 DEF Kept, Buffered, SessionType
    <3> QED
      BY <2>1, <2>2, <3>2 DEF MetIsKept
  <2>3. CASE dbFlushFailed' = TRUE /\ UNCHANGED <<stored, buffer>>
    BY <2>1, <2>3 DEF MetIsKept, Kept, Buffered
  <2> QED
    BY <1>7, <2>2, <2>3 DEF FlushRest
<1>8. CASE CompleteScan
  <2>1. /\ seen \subseteq Kept \cup Buffered /\ (buffer = <<>> \/ dbFlushFailed)
        /\ UNCHANGED <<seen, stored>> /\ pc' = "idle"
    BY <1>8 DEF CompleteScan, MetIsKept
  <2>2. CASE buffer = <<>>
    BY <2>1, <2>2 DEF MetIsKept, Kept, Buffered
  <2>3. CASE dbFlushFailed
    <3>1. row'.status = "failed"
      BY <1>8, <2>3 DEF CompleteScan, DbStatus, SessionType, Rows
    <3> QED
      BY <2>1, <3>1 DEF MetIsKept
  <2> QED
    BY <2>1, <2>2, <2>3
<1>9. CASE Stop \/ Idle \/ UNCHANGED vars
  BY <1>9 DEF MetIsKept, Kept, Buffered, Stop, Idle, vars, context
<1>10. ~Dies /\ ~Restart
  BY DEF Dies, Restart, Placed
<1> QED
  BY <1>1, <1>2, <1>4, <1>5, <1>6, <1>7, <1>8, <1>9, <1>10 DEF Next, ScanThread

\* A scan that is paused in order was stopped before its carve phase.
LEMMA PauseKept ==
    ASSUME SessionType, Placed, PauseIsEarly, ~died, [Next]_vars, ~died' PROVE PauseIsEarly'
<1> USE DEF Running, MetadataPhase, CarvePhase, Settling
<1>0. Placed' /\ (pc \in Running => row.status = "running")
      /\ (pc' \in Running => row'.status = "running")
  BY PlacedKept DEF Placed
<1>1. CASE StartNew \/ Resume
  <2>1. resume'.carveResumeSector = 0 /\ row'.carveResumeSector = 0
    <3>1. NoRow.carveResumeSector = 0
      BY DEF NoRow
    <3> QED
      BY <1>1, <3>1, Launched DEF PauseIsEarly
  <2>2. pc' \in {"meta", "carve"}
    BY <1>1, Launched
  <2> QED
    BY <2>1, <2>2 DEF PauseIsEarly
<1>2. CASE FindMetadata \/ EndMetadata \/ FlushRest \/ Stop
  <2>1. FindMetadata => lastScannedSectors' = lastScannedSectors
    <3>1. FindMetadata => found + 1 \in Records /\ FileFound(found + 1)
      BY Sizes DEF FindMetadata, SessionType
    <3> QED
      BY <3>1, RecordMet
  <2> QED
    BY <1>0, <1>2, <2>1
       DEF PauseIsEarly, FindMetadata, EndMetadata, FlushRest, Stop, thread, context
<1>3. CASE MetadataTick
  <2>1. MetaMapped(found) \in Nat /\ Progress(MetaMapped(found), TRUE)
    <3>1. found \in Nat /\ MetaMapped(found) \in Nat
      BY Sizes DEF SessionType, MetaMapped, MetaShare
    <3> QED
      BY <1>3, <3>1, Zenon DEF MetadataTick
  <2>2. row'.carveResumeSector = row.carveResumeSector \/ row'.carveResumeSector = 0
    BY <2>1, ProgressRow
  <2> QED
    BY <1>0, <1>3, <2>2 DEF PauseIsEarly, MetadataTick, reportFrame
<1>4. CASE CheckpointMetadata
  <2>1. row'.carveResumeSector = 0
    BY <1>4 DEF CheckpointMetadata, SessionType, Rows
  <2> QED
    BY <1>0, <1>4, <2>1 DEF PauseIsEarly, CheckpointMetadata, thread
<1>5. CASE /\ pc \in MetadataPhase \cup CarvePhase /\ pc' \in CarvePhase /\ resume' = resume
  BY <1>0, <1>5 DEF PauseIsEarly
<1>6. ReportMetadata \/ SkipRange \/ EnterRange \/ CarveChunk \/ DeliverChunk \/ CarveTick
         \/ LeaveRange \/ LeaveCarve => PauseIsEarly'
  BY <1>5 DEF ReportMetadata, SkipRange, EnterRange, CarveChunk, DeliverChunk, CarveTick,
              LeaveRange, LeaveCarve, reportFrame, thread
<1>7. CASE ReportCarve
  <2>1. Progress(Total, FALSE) /\ FALSE \in BOOLEAN
    BY <1>7 DEF ReportCarve
  <2>2. lastScannedSectors' >= Total
    BY <2>1, ProgressRow, Sizes
  <2> QED
    BY <1>0, <1>7, <2>2 DEF PauseIsEarly, ReportCarve, reportFrame
<1>8. CASE DecideStatus
  BY <1>0, <1>8 DEF PauseIsEarly, DecideStatus, SessionType, reportFrame
<1>9. CASE ScanFails
  BY <1>0, <1>9 DEF PauseIsEarly, ScanFails
<1>10. CASE WriteProgress
  <2>1. row'.carveResumeSector = row.carveResumeSector
    BY <1>10 DEF WriteProgress, SessionType, Rows
  <2> QED
    BY <1>0, <1>10, <2>1 DEF PauseIsEarly, WriteProgress, thread, context
<1>11. CASE CompleteScan
  <2>1. row'.status = DbStatus /\ row'.carveResumeSector = row.carveResumeSector
    BY <1>11 DEF CompleteScan, SessionType, Rows
  <2>2. DbStatus = "paused" => status = "stopped" /\ lastScannedSectors < Total
    BY Sizes DEF DbStatus, SessionType, Rows
  <2>3. row'.status = "paused" => row'.carveResumeSector = 0
    <3>1. pc \in Settling /\ Total \in Nat /\ lastScannedSectors \in Nat
      BY <1>11, Sizes DEF CompleteScan, SessionType
    <3> QED
      BY <2>1, <2>2, <3>1 DEF PauseIsEarly
  <2>4. pc' = "idle"
    BY <1>11 DEF CompleteScan
  <2> QED
    BY <2>3, <2>4 DEF PauseIsEarly
<1>12. CASE Idle \/ UNCHANGED vars
  BY <1>12 DEF PauseIsEarly, Idle, vars, thread, context
<1>13. ~Dies /\ ~Restart
  BY DEF Dies, Restart, Placed
<1> QED
  BY <1>1, <1>2, <1>3, <1>4, <1>6, <1>7, <1>8, <1>9, <1>10, <1>11, <1>12, <1>13 DEF Next, ScanThread

\* The records of the carve positions, one position at a time
LEMMA OneMoreCarved ==
    /\ CarvedUpTo(0) = {}
    /\ \A p \in 1..NCarve : CarvedUpTo(p) = CarvedUpTo(p - 1) \cup {Carved(p)}
<1>1. ASSUME NEW p \in 1..NCarve PROVE 1..p = (1..(p - 1)) \cup {p}
  BY Sizes
<1> QED
  BY <1>1 DEF CarvedUpTo

\* A run that was not stopped has met what its phases passed, and what is
\* recorded complete is kept.
LEMMA CarvedMetKept ==
    ASSUME SessionType, Placed, MetadataMet, MetIsKept, PauseIsEarly, CarvedMet,
           ~died, [Next]_vars, ~died'
    PROVE  CarvedMet'
<1> USE DEF Running, MetadataPhase, CarvePhase, Settling
<1>0. /\ seen \subseteq seen' /\ kind' = kind /\ Wanted' = Wanted
      /\ pc \in Running => row.status = "running"
      /\ pos \in 0..NCarve /\ rangeEnd \in 0..NCarve /\ NCarve \in Nat
  BY SeenGrows, Sizes DEF Placed, Wanted, Carved, SessionType
<1>1. CASE StartNew \/ Resume
  <2>1. /\ pc' \in {"meta", "carve"} /\ pos' = 0 /\ status' = "failed" /\ row'.status = "running"
    BY <1>1, Launched
  <2> QED
    BY <2>1, OneMoreCarved DEF CarvedMet
<1>2. CASE FindMetadata \/ DeliverChunk
  <2>1. PICK r \in Records : FileFound(r) /\ (pc = "chunkFound" => r = Carved(pos))
    <3>1. FindMetadata => found + 1 \in Records
      BY Sizes DEF FindMetadata, SessionType
    <3>2. DeliverChunk => Carved(pos) \in Records
      BY Sizes DEF DeliverChunk, Placed, SessionType
    <3> QED
      BY <1>2, <3>1, <3>2 DEF FindMetadata, DeliverChunk
  <2>2. isRunning' => isRunning /\ r \in seen'
    BY <2>1, RecordMet
  <2>3. pc' = "chunkTick" /\ isRunning' => CarvedUpTo(pos) \subseteq seen'
    <3>1. CASE pc = "chunkFound"
      <4>1. pos \in 1..NCarve
        BY <1>0, <3>1 DEF Placed
      <4>2. isRunning' => CarvedUpTo(pos - 1) \subseteq seen /\ Carved(pos) \in seen'
        BY <2>1, <2>2, <3>1 DEF CarvedMet
      <4> QED
        BY <1>0, <4>1, <4>2, OneMoreCarved
    <3> QED
      BY <1>2, <3>1 DEF FindMetadata, DeliverChunk
  <2>4. pc' \in {"metaTick", "chunkTick"} /\ row' = row /\ status' = status /\ pos' = pos
        /\ row.status = "running" /\ (pc' = "metaTick" => pc = "meta")
    BY <1>0, <1>2 DEF FindMetadata, DeliverChunk, thread
  <2> QED
    BY <1>0, <2>3, <2>4 DEF CarvedMet
<1>3. CASE MetadataTick \/ EndMetadata \/ CheckpointMetadata \/ ReportMetadata
  <2>1. row'.status = "running" /\ UNCHANGED <<status, pos>>
    <3>1. Placed' /\ pc' \in Running
      BY <1>3, PlacedKept DEF MetadataTick, EndMetadata, CheckpointMetadata, ReportMetadata
    <3> QED
      BY <1>3, <3>1 DEF Placed, MetadataTick, EndMetadata, CheckpointMetadata, ReportMetadata, thread
  <2>2. pc' \in {"meta", "metaDone", "metaEnd"} \/ (pc' = "last" /\ (isRunning' => kind = "quick"))
        \/ (pc' = "carve" /\ pc = "metaEnd")
    BY <1>3 DEF MetadataTick, EndMetadata, CheckpointMetadata, ReportMetadata
  <2>3. CASE pc' = "carve" /\ pc = "metaEnd"
    <3>1. pos = 0
      BY <2>3 DEF CarvedMet
    <3> QED
      BY <1>0, <2>1, <2>3, <3>1, OneMoreCarved DEF CarvedMet
  <2>4. pc \in MetadataPhase
    BY <1>3 DEF MetadataTick, EndMetadata, CheckpointMetadata, ReportMetadata
  <2> QED
    BY <1>0, <2>1, <2>2, <2>3, <2>4 DEF CarvedMet
<1>4. CASE SkipRange \/ EnterRange
  <2>1. resume.carveResumeSector = 0 /\ RangeEnd(pos) > 0 /\ RangeEnd(pos) \in Nat
    BY <1>0, <1>4, NextRange DEF SkipRange, EnterRange, PauseIsEarly
  <2>2. EnterRange
    BY <1>4, <2>1 DEF SkipRange
  <2>3. pos' = pos
    BY <1>0, <2>1, <2>2 DEF EnterRange
  <2> QED
    BY <1>0, <2>2, <2>3 DEF CarvedMet, EnterRange
<1>5. CASE CarveChunk
  <2>1. pos' = pos + 1 /\ pos' - 1 = pos
    BY <1>0, <1>5 DEF CarveChunk
  <2> QED
    BY <1>0, <1>5, <2>1 DEF CarvedMet, CarveChunk
<1>6. CASE CarveTick \/ LeaveRange
  <2>1. row'.status = "running" /\ pc' \in {"chunk", "carve"}
    <3>1. Placed' /\ pc' \in {"chunk", "carve"}
      BY <1>6, PlacedKept DEF CarveTick, LeaveRange
    <3> QED
      BY <3>1 DEF Placed
  <2>2. isRunning' => pos' = pos
    BY <1>6 DEF CarveTick, LeaveRange
  <2> QED
    BY <1>0, <1>6, <2>1, <2>2 DEF CarvedMet, CarveTick, LeaveRange, reportFrame
<1>7. CASE LeaveCarve
  <2>1. isRunning => pos = NCarve
    BY <1>7 DEF LeaveCarve
  <2> QED
    BY <1>0, <1>7, <2>1 DEF CarvedMet, LeaveCarve, thread
<1>8. CASE ReportCarve
  <2>1. row'.status = "running" /\ pc' = "last"
    <3>1. Placed' /\ pc' = "last"
      BY <1>8, PlacedKept DEF ReportCarve
    <3> QED
      BY <3>1 DEF Placed
  <2> QED
    BY <1>0, <1>8, <2>1 DEF CarvedMet, ReportCarve, reportFrame
<1>9. CASE DecideStatus
  <2>1. row'.status = "running" /\ pc' = "flush" /\ pc = "last" /\ seen' = seen
    <3>1. Placed' /\ pc' = "flush" /\ pc = "last" /\ seen' = seen
      BY <1>9, PlacedKept DEF DecideStatus, reportFrame
    <3> QED
      BY <3>1 DEF Placed
  <2>2. isRunning => Wanted \subseteq seen
    <3>1. isRunning /\ kind # "carve_only" => Metadata \subseteq seen
      BY <2>1 DEF MetadataMet
    <3>2. isRunning /\ kind # "quick" => CarvedUpTo(NCarve) \subseteq seen
      BY <2>1 DEF CarvedMet
    <3>3. Records \subseteq Metadata \cup CarvedUpTo(NCarve)
      <4>1. ASSUME NEW r \in Records, r \notin Metadata PROVE \E p \in 1..NCarve : r = Carved(p)
        <5>1. r - NMeta \in 1..NCarve /\ Carved(r - NMeta) = r
          BY <4>1, Sizes DEF Records, Metadata, Total, Carved
        <5> QED
          BY <5>1
      <4> QED
        BY <4>1 DEF CarvedUpTo
    <3> QED
      BY <3>1, <3>2, <3>3 DEF Wanted, Metadata, CarvedUpTo, SessionType
  <2>3. status' = "complete" => isRunning
    BY <1>9 DEF DecideStatus
  <2> QED
    BY <1>0, <2>1, <2>2, <2>3 DEF CarvedMet
<1>10. CASE ScanFails
  BY <1>0, <1>10 DEF CarvedMet, ScanFails
<1>11. CASE FlushRest
  BY <1>0, <1>11 DEF CarvedMet, FlushRest, thread
<1>12. CASE WriteProgress
  <2>1. row'.status = row.status
    BY <1>12 DEF WriteProgress, SessionType, Rows
  <2> QED
    BY <1>0, <1>12, <2>1 DEF CarvedMet, WriteProgress, thread
<1>13. CASE CompleteScan
  <2>1. row'.status = DbStatus /\ UNCHANGED <<seen, stored, status>> /\ pc' = "idle" /\ pc = "settle"
    BY <1>13 DEF CompleteScan, SessionType, Rows, thread
  <2>2. row'.status = "complete" => Wanted \subseteq Kept'
    <3>1. SUFFICES ASSUME row'.status = "complete" PROVE Wanted \subseteq Kept'
      OBVIOUS
    <3>2. ~dbFlushFailed /\ status = "complete"
      BY <2>1, <3>1 DEF DbStatus
    <3>3. seen \subseteq Kept
      BY <2>1, <3>2 DEF MetIsKept, Buffered
    <3> QED
      BY <2>1, <3>2, <3>3 DEF CarvedMet, Kept
  <2> QED
    BY <1>0, <2>1, <2>2 DEF CarvedMet
<1>14. CASE Stop \/ Idle \/ UNCHANGED vars
  BY <1>0, <1>14 DEF CarvedMet, Kept, Stop, Idle, vars, thread
<1>15. ~Dies /\ ~Restart
  BY DEF Dies, Restart, Placed
<1> QED
  BY <1>1, <1>2, <1>3, <1>4, <1>5, <1>6, <1>7, <1>8, <1>9, <1>10, <1>11, <1>12, <1>13, <1>14,
     <1>15 DEF Next, ScanThread

----------------------------------------------------------------------------
(* The theorems                                                            *)

LEMMA SessionKept == ASSUME SessionInv, [Next]_vars PROVE SessionInv'
<1>1. SessionType' /\ Placed' /\ MetadataMet'
  BY TypeKept, PlacedKept, MetadataMetKept DEF SessionInv
<1>2. ASSUME ~died' PROVE MetIsKept' /\ PauseIsEarly' /\ CarvedMet'
  <2>1. ~died
    <3>1. died \in BOOLEAN /\ (died' = died \/ died')
      <4>1. died' = died \/ died'
        BY Launched DEF SessionInv, Next, ScanThread, FindMetadata, MetadataTick, EndMetadata,
           CheckpointMetadata, ReportMetadata, SkipRange, EnterRange, CarveChunk, DeliverChunk,
           CarveTick, LeaveRange, LeaveCarve, ReportCarve, DecideStatus, FlushRest, WriteProgress,
           CompleteScan, ScanFails, Stop, Dies, Restart, Idle, reportFrame, vars
      <4> QED
        BY <4>1 DEF SessionInv, SessionType
    <3> QED
      BY <1>2, <3>1
  <2> QED
    BY <1>2, <2>1, MetIsKeptKept, PauseKept, CarvedMetKept DEF SessionInv
<1> QED
  BY <1>1, <1>2 DEF SessionInv

\* The type invariant and the rest of the inductive invariant of a scan's life.
THEOREM SessionInvariant == Spec => []SessionInv
<1>1. SessionInv /\ [Next]_vars => SessionInv'
  BY SessionKept
<1> QED
  BY <1>1, SessionStarts, PTL DEF Spec

\* On a disk of any size, no scan is recorded complete or resumed past its
\* metadata before some run met every metadata record, whoever died when.
THEOREM MetadataAlwaysFirst == Spec => []MetadataFirst
<1>1. SessionInv => MetadataFirst
  <2> SUFFICES ASSUME SessionInv PROVE MetadataFirst
    OBVIOUS
  <2>1. row.metadataComplete \in BOOLEAN
    BY DEF SessionInv, SessionType, Rows
  <2> QED
    BY <2>1 DEF SessionInv, MetadataMet, MetadataFirst, Metadata
<1> QED
  BY <1>1, SessionInvariant, PTL

\* With a buffer of any capacity and any number of stops and resumes, a scan
\* whose processes ended in order and that says it is complete stored all it
\* was to find, and one that could not store what it met says that it failed.
THEOREM NothingEverLost == Spec => []NothingLost
<1>1. SessionInv => NothingLost
  <2> SUFFICES ASSUME SessionInv, ~died PROVE CompleteHasAll /\ NothingLostSilently
    BY DEF NothingLost, CompleteHasAll, NothingLostSilently, SessionInv
  <2>1. MetIsKept /\ CarvedMet /\ SessionType
    BY DEF SessionInv
  <2>2. CompleteHasAll
    BY <2>1 DEF CompleteHasAll, CarvedMet, Kept
  <2>3. NothingLostSilently
    <3> SUFFICES ASSUME pc = "idle", NEW r \in seen, stored[r] = 0, row.status # "failed" PROVE FALSE
      BY DEF NothingLostSilently
    <3>1. r \in Kept
      BY <2>1 DEF MetIsKept
    <3> QED
      BY <3>1 DEF Kept
  <2> QED
    BY <2>2, <2>3
<1> QED
  BY <1>1, SessionInvariant, PTL

----------------------------------------------------------------------------
(* What a reader of the disk may say of a read: its sectors and its source  *)

\* A block begins at or below a number if it is the number's or an earlier one.
LEMMA BlockBelow ==
    ASSUME NEW n \in Nat \ {0}, NEW x \in Nat, NEW s \in Nat
    PROVE  s * n <= x <=> s <= x \div n
  <1> DEFINE q == x \div n
             r == x % n
  <1>1. q \in Nat /\ r \in 0..(n - 1) /\ x = q * n + r
    BY Blocks
  <1> HIDE DEF q, r
  <1>2. s * n \in Nat /\ q * n \in Nat
    BY <1>1
  <1>3. ASSUME s <= q PROVE s * n <= x
    <2>1. s * n <= q * n
      BY <1>1, <1>3
    <2> QED
      BY <1>1, <1>2, <2>1
  <1>4. ASSUME s >= q + 1 PROVE ~(s * n <= x)
    <2>1. s * n >= (q + 1) * n /\ (q + 1) * n = q * n + n
      BY <1>1, <1>4
    <2> QED
      BY <1>1, <1>2, <2>1
  <1>5. s <= q \/ s >= q + 1
    BY <1>1
  <1> QED
    BY <1>3, <1>4, <1>5 DEF q

\* The sectors that bytes lie in are those from the first byte's to the last's.
LEMMA SectorsAre ==
    ASSUME NEW at \in Nat, NEW length \in Nat \ {0}
    PROVE  SectorsIn(at, length) = (at \div SourceSector)..(((at + length) - 1) \div SourceSector)
  <1> DEFINE n == SourceSector
             first == at \div n
             final == ((at + length) - 1) \div n
  <1>1. n \in Nat \ {0} /\ (at + length) - 1 \in Nat
    BY InputAssumption
  <1>2. first \in Nat /\ final \in Nat
    BY <1>1, Blocks
  <1>3. ASSUME NEW s \in Nat PROVE (s * n < at + length <=> s <= final) /\ ((s + 1) * n > at <=> first <= s)
    <2>1. s * n <= (at + length) - 1 <=> s <= final
      BY <1>1, BlockBelow
    <2>2. (s + 1) * n <= at <=> s + 1 <= first
      <3>1. s + 1 \in Nat
        OBVIOUS
      <3> QED
        BY <1>1, <3>1, BlockBelow
    <2>3. s * n \in Nat /\ (s + 1) * n \in Nat
      BY <1>1
    <2> HIDE DEF n, first, final
    <2> QED
      BY <1>2, <2>1, <2>2, <2>3
  <1>4. final <= at + length
    <2>1. final * n <= (at + length) - 1
      BY <1>1, <1>2, BlockBelow
    <2>2. final <= final * n
      <3> HIDE DEF final
      <3> QED
        BY <1>1, <1>2
    <2>3. final * n \in Nat
      <3> HIDE DEF final
      <3> QED
        BY <1>1, <1>2
    <2> HIDE DEF final, n
    <2> QED
      BY <1>2, <2>1, <2>2, <2>3
  <1>5. SectorsIn(at, length) = {s \in 0..(at + length) : s * n < at + length /\ (s + 1) * n > at}
    BY DEF SectorsIn
  <1> HIDE DEF n, first, final
  <1>6. ASSUME NEW s PROVE s \in SectorsIn(at, length) <=> s \in first..final
    BY <1>2, <1>3, <1>4, <1>5
  <1> QED
    BY <1>6 DEF n, first, final

\* The whole sectors around some bytes: the same sectors, and where they end
AlignedLength(at, length) ==
    (((at % SourceSector) + length + SourceSector - 1) \div SourceSector) * SourceSector

\* The whole sectors around some bytes are the sectors those bytes lie in.
LEMMA AlignedAre ==
    ASSUME NEW at \in Nat, NEW length \in Nat \ {0}
    PROVE  LET skip == at % SourceSector
               whole == AlignedLength(at, length)
           IN  /\ skip \in Nat /\ at - skip \in Nat /\ whole \in Nat \ {0} /\ skip < whole
               /\ SectorsIn(at - skip, whole) = SectorsIn(at, length)
               /\ (at - skip) + whole = ((((at + length) - 1) \div SourceSector) + 1) * SourceSector
  <1> DEFINE n == SourceSector
             q == at \div n
             skip == at % n
             d == ((skip + length) - 1) \div n
             e == ((skip + length) - 1) % n
  <1>1. n \in Nat \ {0}
    BY InputAssumption
  <1>2. q \in Nat /\ skip \in 0..(n - 1) /\ at = q * n + skip
    BY <1>1, Blocks
  <1>3. d \in Nat /\ e \in 0..(n - 1) /\ (skip + length) - 1 = d * n + e
    <2>1. (skip + length) - 1 \in Nat
      BY <1>2
    <2> HIDE DEF skip, n
    <2> QED
      BY <1>1, <2>1, Blocks
  <1> DEFINE whole == AlignedLength(at, length)
  <1>4. whole = (((skip + length) + n - 1) \div n) * n
    BY DEF AlignedLength
  <1> HIDE DEF q, skip, d, e, n, whole
  <1>5. q * n \in Nat /\ d * n \in Nat /\ (d + 1) * n = d * n + n /\ (q + d) * n = q * n + d * n
    BY <1>1, <1>2, <1>3
  <1>6. (skip + length) + n - 1 = (d + 1) * n + e
    BY <1>1, <1>2, <1>3, <1>5
  <1>7. ((skip + length) + n - 1) \div n = d + 1
    <2>1. d + 1 \in Nat
      BY <1>3
    <2>2. ((d + 1) * n + e) \div n = d + 1
      BY <1>1, <1>3, <2>1, PlaceIn
    <2> QED
      BY <1>6, <2>2
  <1>8. whole = (d + 1) * n
    BY <1>4, <1>7
  <1>9. (at + length) - 1 = (q + d) * n + e
    BY <1>1, <1>2, <1>3, <1>5
  <1>10. ((at + length) - 1) \div n = q + d
    <2>1. q + d \in Nat
      BY <1>2, <1>3
    <2>2. ((q + d) * n + e) \div n = q + d
      BY <1>1, <1>3, <2>1, PlaceIn
    <2> QED
      BY <1>9, <2>2
  <1>11. at - skip = q * n
    BY <1>1, <1>2, <1>5
  <1>12. whole \in Nat \ {0} /\ whole >= n /\ skip < whole
    BY <1>1, <1>2, <1>5, <1>8
  <1>13. (at - skip) + whole = ((q + d) + 1) * n
    <2>1. ((q + d) + 1) * n = (q + d) * n + n
      BY <1>1, <1>2, <1>3
    <2> QED
      BY <1>1, <1>5, <1>8, <1>11, <2>1
  <1>14. SectorsIn(at - skip, whole) = q..(q + d)
    <2>1. at - skip \in Nat
      BY <1>5, <1>11
    <2>2. (at - skip) \div n = q
      <3>1. 0 \in 0..(n - 1) /\ at - skip = q * n + 0
        BY <1>1, <1>5, <1>11
      <3> QED
        BY <1>1, <1>2, <3>1, PlaceIn
    <2>3. ((at - skip) + whole) - 1 = (q + d) * n + (n - 1)
      <3>1. ((q + d) + 1) * n = (q + d) * n + n /\ (q + d) * n \in Nat
        BY <1>1, <1>2, <1>3
      <3> QED
        BY <1>1, <1>13, <3>1
    <2>4. (((at - skip) + whole) - 1) \div n = q + d
      <3>1. n - 1 \in 0..(n - 1) /\ q + d \in Nat
        BY <1>1, <1>2, <1>3
      <3>2. ((q + d) * n + (n - 1)) \div n = q + d
        BY <1>1, <3>1, PlaceIn
      <3> QED
        BY <2>3, <3>2
    <2> QED
      BY <1>12, <2>1, <2>2, <2>4, SectorsAre DEF n
  <1>15. SectorsIn(at, length) = q..(q + d)
    BY <1>10, SectorsAre DEF n, q
  <1>16. at - skip \in Nat /\ skip \in Nat
    BY <1>2, <1>5, <1>11
  <1> QED
    BY <1>10, <1>12, <1>13, <1>14, <1>15, <1>16 DEF n, skip, whole

\* The parts that are counted up to
LEMMA PartsAre ==
    ASSUME NEW src, InputSource(src)
    PROVE  collectSplitRawSegments(src) \in Seq([there : BOOLEAN, sectors : Nat])
  <1> DEFINE Part == [there : BOOLEAN, sectors : Nat]
             parts == collectSplitRawSegments(src)
  <1> DEFINE I == {i \in 1..Len(src.parts) : ~src.parts[i].there}
             gap == IF I # {} THEN Min(I) ELSE 0
  <1>1. src.parts \in Seq(Part)
    BY DEF InputSource
  <1>2. gap = 0 \/ gap \in 1..Len(src.parts)
    <2>1. ASSUME I # {} PROVE Min(I) \in I
      <3>1. I \subseteq Nat
        BY <1>1
      <3>2. \E i \in I : \A m \in I : i <= m
        BY <2>1, <3>1, LeastNatural
      <3> QED
        BY <3>2 DEF Min
    <2> QED
      BY <2>1
  <1>3. parts = IF gap = 0 THEN src.parts ELSE SubSeq(src.parts, 1, gap - 1)
    BY DEF collectSplitRawSegments, SelectInSeq
  <1> HIDE DEF gap
  <1> QED
    BY <1>1, <1>2, <1>3

\* The whole sectors of a source, and so its end
LEMMA SizeInSectors ==
    ASSUME NEW src, InputSource(src)
    PROVE  \E k \in Nat : SizeOf(src) = SourceSector * k
  <1>1. CASE src.kind # "file"
    BY <1>1 DEF SizeOf, InputSource
  <1>2. CASE src.kind = "file"
    <2> DEFINE parts == collectSplitRawSegments(src)
               n == Len(parts)
               Part == [there : BOOLEAN, sectors : Nat]
    <2>1. parts \in Seq(Part)
      BY PartsAre
    <2> HIDE DEF parts
    <2> DEFINE step == [x \in (1..n) \X Nat |-> x[2] + parts[x[1]].sectors]
               base[j \in 0..n] == IF j = 0 THEN 0 ELSE base[j - 1] + parts[j].sectors
    <2>2. n \in Nat /\ \A k \in 1..n : parts[k].sectors \in Nat
      <3> HIDE DEF Part
      <3>1. n \in Nat /\ \A k \in 1..n : parts[k] \in Part
        BY <2>1
      <3> QED
        BY <3>1 DEF Part
    <2> HIDE DEF n
    <2>3. step \in [(1..n) \X Nat -> Nat] /\ \A k \in 1..n, m \in Nat : step[<<k, m>>] = m + parts[k].sectors
      BY <2>2
    <2> HIDE DEF step
    <2>4. PICK f \in [0..n -> Nat] : f[0] = 0 /\ \A k \in 1..n : f[k] = step[<<k, f[k - 1]>>]
      <3>1. StepOn(n, Nat, 0, step)
        BY <2>2, <2>3 DEF StepOn
      <3>2. PICK f : Recursive(f, n, Nat, 0, step)
        BY <2>2, <3>1, Recursion
      <3> QED
        BY <3>2 DEF Recursive
    <2>5. f = [j \in 0..n |-> IF j = 0 THEN 0 ELSE f[j - 1] + parts[j].sectors]
      <3>1. ASSUME NEW k \in 0..n, k # 0 PROVE f[k] = f[k - 1] + parts[k].sectors
        <4>1. k \in 1..n /\ k - 1 \in 0..n
          BY <2>2, <3>1
        <4> QED
          BY <2>2, <2>3, <2>4, <4>1
      <3> QED
        BY <2>4, <3>1
    <2>6. base = [j \in 0..n |-> IF j = 0 THEN 0 ELSE base[j - 1] + parts[j].sectors]
      BY <2>5
    <2>7. PartBase(parts, n + 1) = base[(n + 1) - 1]
      BY DEF PartBase, n
    <2> HIDE DEF base
    <2>8. \A k \in 0..n : base[k] \in Nat
      <3> DEFINE S == {k \in 0..n : base[k] \in Nat}
      <3>1. 0 \in S
        BY <2>2, <2>6
      <3>2. \A k \in 1..n : k - 1 \in S => k \in S
        BY <2>2, <2>6, SMTT(30)
      <3> HIDE DEF S
      <3>3. 0..n \subseteq S
        BY <2>2, <3>1, <3>2, AllUpTo
      <3> QED
        BY <3>3 DEF S
    <2>9. PartBase(parts, n + 1) \in Nat
      BY <2>2, <2>7, <2>8
    <2> QED
      BY <1>2, <2>9 DEF SizeOf, n, parts
  <1> QED
    BY <1>1, <1>2

\* What is read beyond the end touches a sector beyond it.
LEMMA BeyondTheEnd ==
    ASSUME NEW src, InputSource(src), NEW at \in Nat, NEW length \in Nat \ {0},
           at + length > SizeOf(src)
    PROVE  \E s \in SectorsIn(at, length) : s * SourceSector >= SizeOf(src)
  <1> DEFINE n == SourceSector
             x == (at + length) - 1
             final == x \div n
  <1>1. n \in Nat \ {0} /\ x \in Nat
    BY InputAssumption
  <1>2. PICK k \in Nat : SizeOf(src) = n * k
    BY SizeInSectors
  <1>3. final \in Nat /\ at \div n \in Nat /\ at \div n <= final
    <2>1. at <= x
      OBVIOUS
    <2> HIDE DEF x, n
    <2> QED
      BY <1>1, <2>1, Blocks, BlocksInOrder
  <1>4. n * k = k * n /\ k * n \in Nat
    BY <1>1
  <1>5. k * n <= x
    BY <1>2, <1>4
  <1>6. k <= final
    BY <1>1, <1>5, BlockBelow
  <1>7. SectorsIn(at, length) = (at \div n)..final
    BY SectorsAre
  <1> HIDE DEF final, x, n
  <1>8. final \in SectorsIn(at, length)
    BY <1>3, <1>7
  <1>9. final * n >= k * n
    BY <1>1, <1>3, <1>6
  <1> QED
    BY <1>2, <1>4, <1>8, <1>9 DEF n

Keys == {"none"} \cup {Sources[name].lock.key : name \in DOMAIN Sources}
Lock == [key : Keys, from : Nat]

Reader ==
    [source : DOMAIN Sources, key : Keys, from : Nat, stuck : SUBSET Nat, bad : Nat, samples : Seq(Nat)]

\* What a byte of a source is to a reader with its key, and what one gives
Suits(reader) == [key |-> reader.key, from |-> reader.from] = Sources[reader.source].lock
Truth(reader, b) ==
    IF Suits(reader) /\ DecryptsHere(Sources[reader.source]) THEN [at |-> b, under |-> <<>>]
    ELSE OnMedium(Sources[reader.source], b)
Shown(reader, b) ==
    IF DecryptsHere(Sources[reader.source]) THEN Decrypted(reader, OnMedium(Sources[reader.source], b))
    ELSE OnMedium(Sources[reader.source], b)

InOrder(reader) == Sources[reader.source].kind \notin {"drive", "volume", "http"}
Excuse(reader, at, length) ==
    \/ ~InOrder(reader)
    \/ SectorsIn(at, length) \cap Sources[reader.source].bad # {}
    \/ at + length > SizeOf(Sources[reader.source])

\* What may be relied on of a reply to a read of length bytes
BytesTrusted(reader, at, result) ==
    /\ \A i \in 1..result.got : result.bytes[i] # Stale
    /\ result.success /\ ~result.padded /\ (Suits(reader) \/ reader.key = "none")
         => \A i \in 1..result.got : result.bytes[i] = Truth(reader, at + i - 1)

Trusted(reader, at, length, result) ==
    /\ result = Reply(result.success, result.got, result.padded, result.note, result.bytes, result.stuck)
    /\ result.success \in BOOLEAN /\ result.note \in BOOLEAN /\ result.padded \in BOOLEAN
    /\ result.got \in 0..length /\ result.stuck \in SUBSET Nat
    /\ BytesTrusted(reader, at, result)
    /\ result.success => \/ result.got > 0 \/ result.padded
                         \/ Sources[reader.source].kind \in {"drive", "volume"}
    /\ ~result.success => result.stuck # {} \/ Excuse(reader, at, length)
    /\ result.success /\ result.got < length => Excuse(reader, at, length)

\* A byte that is given is one of the source, in the clear with the key of its
\* volume, and untouched without a key.
LEMMA ShownIsTrue ==
    ASSUME NEW reader \in Reader, NEW b \in Nat
    PROVE  /\ Shown(reader, b) # Stale /\ OnMedium(Sources[reader.source], b) # Stale
           /\ Suits(reader) \/ reader.key = "none" => Shown(reader, b) = Truth(reader, b)
  <1> DEFINE src == Sources[reader.source]
             raw == OnMedium(src, b)
             s == b \div SourceSector
             layer == [key |-> reader.key, tweak |-> s - reader.from]
             lock == src.lock
  <1>1. lock \in [key : STRING, from : Nat] /\ reader.from \in Nat
    BY InputAssumption DEF InputSource, Reader
  <1>2. s \in Nat
    BY InputAssumption, Blocks
  <1>3. raw = [at |-> b, under |-> IF lock.key # "none" /\ s >= lock.from
                                   THEN <<[key |-> lock.key, tweak |-> s - lock.from]>> ELSE <<>>]
    BY DEF OnMedium
  <1>4. Decrypted(reader, raw) = IF reader.key = "none" \/ s < reader.from THEN raw
                                 ELSE [raw EXCEPT !.under = IF @ = <<layer>> THEN <<>> ELSE Append(@, layer)]
    BY <1>3 DEF Decrypted
  <1>5. Suits(reader) => reader.key = lock.key /\ reader.from = lock.from
    BY DEF Suits
  <1> HIDE DEF lock, s
  <1>6. raw # Stale /\ raw.at = b
    BY <1>3 DEF Stale
  <1>7. Decrypted(reader, raw).at = b
    <2>1. CASE reader.key = "none" \/ s < reader.from
      BY <1>4, <1>6, <2>1
    <2>2. CASE ~(reader.key = "none" \/ s < reader.from)
      <3>1. Decrypted(reader, raw) = [raw EXCEPT !.under = IF @ = <<layer>> THEN <<>> ELSE Append(@, layer)]
        BY <1>4, <2>2
      <3> QED
        BY <1>3, <3>1
    <2> QED
      BY <2>1, <2>2
  <1>8. Decrypted(reader, raw) # Stale
    BY <1>7 DEF Stale
  <1>9. reader.key = "none" /\ ~Suits(reader) => Decrypted(reader, raw) = raw
    BY <1>4
  <1>10. ASSUME Suits(reader) PROVE Decrypted(reader, raw) = [at |-> b, under |-> <<>>]
    <2>1. CASE reader.key = "none" \/ s < reader.from
      BY <1>1, <1>2, <1>3, <1>4, <1>5, <1>10, <2>1
    <2>2. CASE ~(reader.key = "none" \/ s < reader.from)
      <3>1. raw = [at |-> b, under |-> <<layer>>]
        BY <1>1, <1>2, <1>3, <1>5, <1>10, <2>2
      <3>2. Decrypted(reader, raw) = [raw EXCEPT !.under = IF @ = <<layer>> THEN <<>> ELSE Append(@, layer)]
        BY <1>4, <2>2
      <3> HIDE DEF layer, raw
      <3> QED
        BY <3>1, <3>2
    <2> QED
      BY <2>1, <2>2
  <1> HIDE DEF raw
  <1> QED
    BY <1>6, <1>8, <1>9, <1>10 DEF Shown, Truth, raw

\* The bytes of a reply are those the reader shows.
LEMMA BytesAre ==
    ASSUME NEW reader \in Reader, NEW at \in Nat, NEW length \in Nat, NEW upTo \in 0..length
    PROVE  \A i \in 1..upTo : BytesOf(reader, at, length, upTo)[i] = Shown(reader, at + i - 1)
  BY DEF BytesOf, Shown

----------------------------------------------------------------------------
(* What the kinds of source reply                                           *)

\* The kinds of reply, each to be trusted on its condition
LEMMA AnswersAreTrusted ==
    ASSUME NEW reader \in Reader, NEW at \in Nat, NEW length \in Nat \ {0}, NEW n \in 0..length,
           n = length \/ Sources[reader.source].kind \in {"drive", "volume"}
    PROVE  Trusted(reader, at, length,
                   Reply(TRUE, n, FALSE, FALSE, BytesOf(reader, at, length, n), reader.stuck))
  <1> DEFINE result == Reply(TRUE, n, FALSE, FALSE, BytesOf(reader, at, length, n), reader.stuck)
  <1>1. /\ result = Reply(result.success, result.got, result.padded, result.note, result.bytes, result.stuck)
        /\ result.success = TRUE /\ result.got = n /\ result.padded = FALSE /\ result.note = FALSE
        /\ result.bytes = BytesOf(reader, at, length, n) /\ result.stuck = reader.stuck
    BY DEF Reply
  <1>2. reader.stuck \in SUBSET Nat
    BY DEF Reader
  <1> HIDE DEF result
  <1>3. ASSUME NEW i \in 1..n
        PROVE  /\ result.bytes[i] # Stale
               /\ Suits(reader) \/ reader.key = "none" => result.bytes[i] = Truth(reader, at + i - 1)
    <2>1. result.bytes[i] = Shown(reader, at + i - 1)
      BY <1>1, BytesAre
    <2>2. at + i - 1 \in Nat
      OBVIOUS
    <2> QED
      BY <2>1, <2>2, ShownIsTrue
  <1>4. BytesTrusted(reader, at, result)
    BY <1>1, <1>3 DEF BytesTrusted
  <1>5. result.success /\ result.got < length => Excuse(reader, at, length)
    BY <1>1 DEF Excuse, InOrder
  <1>6. result.success => \/ result.got > 0 \/ result.padded
                          \/ Sources[reader.source].kind \in {"drive", "volume"}
    BY <1>1
  <1>7. result.success \in BOOLEAN /\ result.note \in BOOLEAN /\ result.padded \in BOOLEAN
          /\ result.got \in 0..length /\ result.stuck \in SUBSET Nat
    BY <1>1, <1>2
  <1>8. result = Reply(result.success, result.got, result.padded, result.note, result.bytes, result.stuck)
    BY <1>1
  <1>9. Trusted(reader, at, length, result)
    BY <1>1, <1>4, <1>5, <1>6, <1>7, <1>8 DEF Trusted
  <1> QED
    BY <1>9 DEF result

\* A reply that leaves its reader stuck elsewhere is the same reply otherwise.
LEMMA StuckReply ==
    ASSUME NEW r, NEW success, NEW got, NEW padded, NEW note, NEW bytes, NEW stuck, NEW hung,
           r = Reply(success, got, padded, note, bytes, stuck)
    PROVE  [r EXCEPT !.stuck = hung] = Reply(success, got, padded, note, bytes, hung)
  BY DEF Reply

\* A refusal may be trusted when something excuses it, or its reader is stuck.
LEMMA RefusalsAreTrusted ==
    ASSUME NEW reader \in Reader, NEW at \in Nat, NEW length \in Nat \ {0}, NEW note \in BOOLEAN,
           NEW hung \in SUBSET Nat, hung # {} \/ Excuse(reader, at, length)
    PROVE  Trusted(reader, at, length, [NotRead(reader, length, note) EXCEPT !.stuck = hung])
  <1> DEFINE result == [NotRead(reader, length, note) EXCEPT !.stuck = hung]
             bytes == [i \in 1..length |-> Stale]
  <1>1. NotRead(reader, length, note) = Reply(FALSE, 0, FALSE, note, bytes, reader.stuck)
    BY DEF NotRead
  <1> HIDE DEF bytes
  <1>2. result = Reply(FALSE, 0, FALSE, note, bytes, hung)
    <2>1. PICK no \in BOOLEAN : no = FALSE
      OBVIOUS
    <2> DEFINE r == NotRead(reader, length, note)
    <2>2. r = Reply(no, 0, no, note, bytes, reader.stuck)
      BY <1>1, <2>1, Zenon
    <2> HIDE DEF r
    <2>3. [r EXCEPT !.stuck = hung] = Reply(no, 0, no, note, bytes, hung)
      BY <2>2, StuckReply
    <2> QED
      BY <2>1, <2>3 DEF r
  <1> HIDE DEF result
  <1>3. /\ result = Reply(result.success, result.got, result.padded, result.note, result.bytes, result.stuck)
        /\ result.success = FALSE /\ result.got = 0 /\ result.padded = FALSE /\ result.note = note
        /\ result.bytes = bytes /\ result.stuck = hung
    BY <1>2 DEF Reply
  <1>4. BytesTrusted(reader, at, result)
    <2>1. 1..0 = {}
      OBVIOUS
    <2> QED
      BY <1>3, <2>1 DEF BytesTrusted
  <1>5. ~result.success => result.stuck # {} \/ Excuse(reader, at, length)
    BY <1>3
  <1>6. /\ result.success \in BOOLEAN /\ result.note \in BOOLEAN /\ result.padded \in BOOLEAN
        /\ result.got \in 0..length /\ result.stuck \in SUBSET Nat
    <2>1. result.success \in BOOLEAN /\ result.note \in BOOLEAN /\ result.padded \in BOOLEAN
      BY <1>3
    <2>2. result.got \in 0..length
      BY <1>3
    <2>3. result.stuck \in SUBSET Nat
      BY <1>3
    <2> QED
      BY <2>1, <2>2, <2>3
  <1>7. ~result.success
    BY <1>3
  <1>8. result = Reply(result.success, result.got, result.padded, result.note, result.bytes, result.stuck)
    BY <1>3
  <1> HIDE DEF BytesTrusted
  <1>9. Trusted(reader, at, length, result)
    BY <1>4, <1>5, <1>6, <1>7, <1>8 DEF Trusted
  <1> QED
    BY <1>9 DEF result

\* Zeros behind the end, or for nothing at all, are never said to be the source.
LEMMA PaddingIsTrusted ==
    ASSUME NEW reader \in Reader, NEW at \in Nat, NEW length \in Nat \ {0}, NEW avail \in Int,
           NEW got \in 0..length, NEW success \in BOOLEAN,
           (success /\ got = length) \/ Excuse(reader, at, length)
    PROVE  Trusted(reader, at, length, PaddedTo(reader, at, length, avail, got, success))
  <1> DEFINE src == Sources[reader.source]
             result == PaddedTo(reader, at, length, avail, got, success)
             bytes == [i \in 1..length |-> IF i <= avail THEN OnMedium(src, at + i - 1) ELSE ZeroByte]
  <1>1. result = Reply(success, got, TRUE, TRUE, bytes, reader.stuck)
    BY DEF PaddedTo
  <1> HIDE DEF result
  <1>2. \A i \in 1..got : bytes[i] # Stale
    <2> TAKE i \in 1..got
    <2>1. i \in 1..length /\ at + i - 1 \in Nat
      OBVIOUS
    <2>2. OnMedium(src, at + i - 1) # Stale
      BY <2>1, ShownIsTrue
    <2>3. ZeroByte # Stale
      BY DEF ZeroByte, Stale
    <2> QED
      BY <2>1, <2>2, <2>3
  <1> HIDE DEF bytes
  <1>3. /\ result = Reply(result.success, result.got, result.padded, result.note, result.bytes, result.stuck)
        /\ result.success = success /\ result.got = got /\ result.padded = TRUE /\ result.note = TRUE
        /\ result.bytes = bytes /\ result.stuck = reader.stuck
    BY <1>1 DEF Reply
  <1>4. reader.stuck \in SUBSET Nat
    BY DEF Reader
  <1>5. BytesTrusted(reader, at, result)
    BY <1>2, <1>3 DEF BytesTrusted
  <1>6. (~result.success => Excuse(reader, at, length)) /\ (result.success /\ result.got < length => Excuse(reader, at, length))
    BY <1>3
  <1>7. Trusted(reader, at, length, result)
    BY <1>3, <1>4, <1>5, <1>6 DEF Trusted
  <1> QED
    BY <1>7 DEF result

\* The lesser and the greater of two numbers
LEMMA LesserAndGreater ==
    ASSUME NEW a \in Int, NEW b \in Int
    PROVE  Min({a, b}) = (IF a <= b THEN a ELSE b) /\ Max({a, b}) = (IF a >= b THEN a ELSE b)
  <1>1. Min({a, b}) \in {a, b} /\ Min({a, b}) <= a /\ Min({a, b}) <= b
    <2>1. \E x \in {a, b} : \A y \in {a, b} : x <= y
      OBVIOUS
    <2> QED
      BY <2>1 DEF Min
  <1>2. Max({a, b}) \in {a, b} /\ Max({a, b}) >= a /\ Max({a, b}) >= b
    <2>1. \E x \in {a, b} : \A y \in {a, b} : x >= y
      OBVIOUS
    <2> QED
      BY <2>1 DEF Max
  <1> QED
    BY <1>1, <1>2

\* What a reader reads from
LEMMA ReaderFacts ==
    ASSUME NEW reader \in Reader
    PROVE  /\ InputSource(Sources[reader.source]) /\ SizeOf(Sources[reader.source]) \in Nat
           /\ Sources[reader.source].kind \in SourceKinds
           /\ reader.stuck \in SUBSET Nat
  <1>1. reader.source \in DOMAIN Sources /\ reader.stuck \in SUBSET Nat
    BY DEF Reader
  <1>2. InputSource(Sources[reader.source])
    BY <1>1, InputAssumption
  <1>3. PICK k \in Nat : SizeOf(Sources[reader.source]) = SourceSector * k
    BY <1>2, SizeInSectors
  <1>4. SourceSector * k \in Nat
    BY InputAssumption
  <1> QED
    BY <1>1, <1>2, <1>3, <1>4 DEF InputSource

\* What there is before the end
LEMMA AvailableIs ==
    ASSUME NEW at \in Nat, NEW length \in Nat \ {0}, NEW size \in Nat
    PROVE  LET avail == Max({0, Min({length, size - at})})
           IN  avail \in 0..length /\ (avail # length => at + length > size)
  <1> DEFINE m == Min({length, size - at})
  <1>1. m = IF length <= size - at THEN length ELSE size - at
    BY LesserAndGreater
  <1> HIDE DEF m
  <1>2. m \in Int
    BY <1>1
  <1>3. Max({0, m}) = IF 0 >= m THEN 0 ELSE m
    BY <1>2, LesserAndGreater
  <1> QED
    BY <1>1, <1>3 DEF m

\* All of the bytes, and none for a reason
LEMMA WholeAnswer ==
    ASSUME NEW reader \in Reader, NEW at \in Nat, NEW length \in Nat \ {0}
    PROVE  Trusted(reader, at, length, Replied(reader, at, length))
  <1>1. length \in 0..length /\ length = length
    OBVIOUS
  <1>2. Trusted(reader, at, length,
                Reply(TRUE, length, FALSE, FALSE, BytesOf(reader, at, length, length), reader.stuck))
    BY <1>1, AnswersAreTrusted
  <1> QED
    BY <1>2 DEF Replied

LEMMA Refusal ==
    ASSUME NEW reader \in Reader, NEW at \in Nat, NEW length \in Nat \ {0}, NEW note \in BOOLEAN,
           Excuse(reader, at, length)
    PROVE  Trusted(reader, at, length, NotRead(reader, length, note))
  <1> DEFINE r == NotRead(reader, length, note)
  <1>1. r = [r EXCEPT !.stuck = reader.stuck]
    <2> DEFINE bytes == [i \in 1..length |-> Stale]
    <2>1. PICK no \in BOOLEAN : no = FALSE
      OBVIOUS
    <2>2. r = Reply(no, 0, no, note, bytes, reader.stuck)
      BY <2>1, Zenon DEF NotRead
    <2> HIDE DEF r, bytes
    <2> QED
      BY <2>2, StuckReply
  <1> HIDE DEF r
  <1>2. reader.stuck \in SUBSET Nat
    BY DEF Reader
  <1>3. Trusted(reader, at, length, [r EXCEPT !.stuck = reader.stuck])
    BY <1>2, RefusalsAreTrusted DEF r
  <1> QED
    BY <1>1, <1>3 DEF r

\* Padding that counts as read, and padding that does not
LEMMA PaddingGiven ==
    ASSUME NEW reader \in Reader, NEW at \in Nat, NEW length \in Nat \ {0}, NEW avail \in 0..length,
           NEW got \in 0..length, got = length \/ Excuse(reader, at, length)
    PROVE  Trusted(reader, at, length, PaddedTo(reader, at, length, avail, got, TRUE))
  <1>1. PICK yes \in BOOLEAN : yes = TRUE
    OBVIOUS
  <1>2. avail \in Int
    OBVIOUS
  <1>3. Trusted(reader, at, length, PaddedTo(reader, at, length, avail, got, yes))
    BY <1>1, <1>2, PaddingIsTrusted
  <1> QED
    BY <1>1, <1>3, Zenon

LEMMA PaddingRefused ==
    ASSUME NEW reader \in Reader, NEW at \in Nat, NEW length \in Nat \ {0}, NEW avail \in 0..length,
           NEW got \in 0..length, Excuse(reader, at, length)
    PROVE  Trusted(reader, at, length, PaddedTo(reader, at, length, avail, got, FALSE))
  <1>1. PICK no \in BOOLEAN : no = FALSE
    OBVIOUS
  <1>2. avail \in Int
    OBVIOUS
  <1>3. Trusted(reader, at, length, PaddedTo(reader, at, length, avail, got, no))
    BY <1>1, <1>2, PaddingIsTrusted
  <1> QED
    BY <1>1, <1>3, Zenon

\* Each kind of source replies in one of these ways.
LEMMA MemoryIsTrusted ==
    ASSUME NEW reader \in Reader, NEW at \in Nat, NEW length \in Nat \ {0},
           NEW result \in MemoryRead(reader, Sources[reader.source], at, length)
    PROVE  Trusted(reader, at, length, result)
  <1> DEFINE src == Sources[reader.source]
             size == SizeOf(src)
             avail == Max({0, Min({length, size - at})})
             bad == SectorsIn(at, length) \cap src.bad
  <1>1. avail \in 0..length /\ (avail # length => at + length > size)
    BY ReaderFacts, AvailableIs
  <1>2. CASE bad # {}
    <2>1. result = NotRead(reader, length, TRUE)
      BY <1>2 DEF MemoryRead
    <2>2. Excuse(reader, at, length)
      BY <1>2 DEF Excuse
    <2> QED
      BY <2>1, <2>2, Refusal
  <1>3. CASE bad = {} /\ avail = length
    <2>1. result = Replied(reader, at, length)
      BY <1>3 DEF MemoryRead
    <2> QED
      BY <2>1, WholeAnswer
  <1>4. CASE bad = {} /\ avail # length
    <2>1. result \in IF platform = "windows" THEN {PaddedTo(reader, at, length, avail, avail, TRUE)}
                     ELSE {NotRead(reader, length, FALSE)}
      BY <1>4 DEF MemoryRead
    <2>2. Excuse(reader, at, length)
      BY <1>1, <1>4 DEF Excuse
    <2> HIDE DEF avail
    <2>3. Trusted(reader, at, length, PaddedTo(reader, at, length, avail, avail, TRUE))
      BY <1>1, <2>2, PaddingGiven
    <2>4. Trusted(reader, at, length, NotRead(reader, length, FALSE))
      BY <2>2, Refusal
    <2> QED
      BY <2>1, <2>3, <2>4
  <1> QED
    BY <1>2, <1>3, <1>4

LEMMA RaidIsTrusted ==
    ASSUME NEW reader \in Reader, NEW at \in Nat, NEW length \in Nat \ {0},
           NEW result \in RaidRead(reader, Sources[reader.source], at, length)
    PROVE  Trusted(reader, at, length, result)
  <1> DEFINE src == Sources[reader.source]
             size == SizeOf(src)
             avail == Max({0, Min({length, size - at})})
             bad == SectorsIn(at, length) \cap src.bad
  <1>1. avail \in 0..length
    BY ReaderFacts, AvailableIs
  <1>2. CASE bad # {}
    <2>1. result = PaddedTo(reader, at, length, 0, 0, FALSE)
      BY <1>2 DEF RaidRead
    <2>2. Excuse(reader, at, length)
      BY <1>2 DEF Excuse
    <2>3. 0 \in 0..length
      OBVIOUS
    <2>4. Trusted(reader, at, length, PaddedTo(reader, at, length, 0, 0, FALSE))
      BY <2>2, <2>3, PaddingRefused
    <2> QED
      BY <2>1, <2>4
  <1>3. CASE bad = {} /\ avail = length
    <2>1. result = Replied(reader, at, length)
      BY <1>3 DEF RaidRead
    <2> QED
      BY <2>1, WholeAnswer
  <1>4. CASE bad = {} /\ avail # length
    <2>1. result = PaddedTo(reader, at, length, avail, length, TRUE)
      BY <1>4 DEF RaidRead
    <2> HIDE DEF avail
    <2> QED
      <3>1. length \in 0..length
        OBVIOUS
      <3>2. Trusted(reader, at, length, PaddedTo(reader, at, length, avail, length, TRUE))
        BY <1>1, <3>1, PaddingGiven
      <3> QED
        BY <2>1, <3>2
  <1> QED
    BY <1>2, <1>3, <1>4

LEMMA EwfIsTrusted ==
    ASSUME NEW reader \in Reader, NEW at \in Nat, NEW length \in Nat \ {0},
           NEW result \in EwfRead(reader, Sources[reader.source], at, length)
    PROVE  Trusted(reader, at, length, result)
  <1>1. CASE Excuse(reader, at, length)
    <2>1. result \in {NotRead(reader, length, TRUE), Replied(reader, at, length)}
      BY DEF EwfRead
    <2> QED
      BY <1>1, <2>1, Refusal, WholeAnswer
  <1>2. CASE ~Excuse(reader, at, length)
    <2>1. result = Replied(reader, at, length)
      BY <1>2 DEF EwfRead, Excuse
    <2> QED
      BY <2>1, WholeAnswer
  <1> QED
    BY <1>1, <1>2

LEMMA FileIsTrusted ==
    ASSUME NEW reader \in Reader, NEW at \in Nat, NEW length \in Nat \ {0},
           NEW result \in FileRead(reader, Sources[reader.source], at, length)
    PROVE  Trusted(reader, at, length, result)
  <1> DEFINE src == Sources[reader.source]
             parts == collectSplitRawSegments(src)
             inPart(k) == SectorsIn(at, length) \cap PartBase(parts, k)..(PartBase(parts, k + 1) - 1)
             fails == {k \in DOMAIN parts : inPart(k) # {} /\ (k \in reader.stuck \/ inPart(k) \cap src.bad # {})}
             refused == NotRead(reader, length, TRUE)
  <1>1. fails \subseteq Nat
    <2>1. parts \in Seq([there : BOOLEAN, sectors : Nat])
      BY ReaderFacts, PartsAre
    <2> HIDE DEF parts
    <2>2. DOMAIN parts \subseteq Nat
      BY <2>1
    <2> QED
      BY <2>2
  <1> DEFINE behind == at + length > SizeOf(src)
             within == at + length <= SizeOf(src)
             stopped == [refused EXCEPT !.stuck = @ \cup {Min(fails)}]
             whole == Replied(reader, at, length)
  <1>0. result \in CASE behind -> {refused} [] within /\ fails # {} -> {stopped} [] OTHER -> {whole}
    BY Zenon DEF FileRead
  <1>5. behind <=> ~within
    BY ReaderFacts
  <1> HIDE DEF fails, refused, stopped, whole, behind, within
  <1>2. CASE behind
    <2>1. result = refused
      BY <1>0, <1>2, <1>5
    <2>2. Excuse(reader, at, length)
      BY <1>2 DEF Excuse, behind
    <2> QED
      BY <2>1, <2>2, Refusal DEF refused
  <1>3. CASE within /\ fails # {}
    <2>1. result = [refused EXCEPT !.stuck = @ \cup {Min(fails)}]
      BY <1>0, <1>3, <1>5 DEF stopped
    <2>2. Min(fails) \in Nat
      <3>1. \E k \in fails : \A j \in fails : k <= j
        BY <1>1, <1>3, LeastNatural
      <3> QED
        BY <1>1, <3>1 DEF Min
    <2> DEFINE hung == reader.stuck \cup {Min(fails)}
    <2>3. hung \in SUBSET Nat /\ hung # {}
      BY <2>2, ReaderFacts
    <2>4. refused.stuck = reader.stuck
      BY DEF NotRead, Reply, refused
    <2>5. result = [refused EXCEPT !.stuck = hung]
      BY <2>1, <2>4
    <2> HIDE DEF hung
    <2>6. Trusted(reader, at, length, [NotRead(reader, length, TRUE) EXCEPT !.stuck = hung])
      BY <2>3, RefusalsAreTrusted
    <2> QED
      BY <2>5, <2>6 DEF refused
  <1>4. CASE within /\ fails = {}
    <2>1. result = whole
      BY <1>0, <1>4, <1>5
    <2> QED
      BY <2>1, WholeAnswer DEF whole
  <1> QED
    BY <1>2, <1>3, <1>4, <1>5

\* A 200 is taken only for what it is, the object from its first byte.
LEMMA HttpIsTrusted ==
    ASSUME NEW reader \in Reader, NEW at \in Nat, NEW length \in Nat \ {0},
           Sources[reader.source].kind = "http",
           NEW result \in HttpRead(reader, Sources[reader.source], at, length)
    PROVE  Trusted(reader, at, length, result)
  <1> DEFINE src == Sources[reader.source]
             from(answer) == IF answer = 200 THEN 0 ELSE at
             answered(answer) ==
                [Replied(reader, at, length) EXCEPT !.bytes = BytesOf(reader, from(answer), length, length)]
             ok(attempt) == attempt.whole /\ httpRangeReadStatusOk(attempt.status, at, length, SizeOf(src))
             attempts == [status : {200, 206, 500}, whole : BOOLEAN]
             refused == NotRead(reader, length, TRUE)
             outcome(first, second) == IF ok(first) THEN answered(first.status)
                                       ELSE IF ok(second) THEN answered(second.status) ELSE refused
  <1>1. Excuse(reader, at, length)
    BY DEF Excuse, InOrder
  <1>2. Trusted(reader, at, length, refused)
    BY <1>1, Refusal
  <1>3. ASSUME NEW attempt \in attempts, ok(attempt)
        PROVE  Trusted(reader, at, length, answered(attempt.status))
    <2>1. from(attempt.status) = at
      BY <1>3 DEF httpRangeReadStatusOk
    <2> DEFINE r == Replied(reader, at, length)
    <2>2. r.bytes = BytesOf(reader, at, length, length) /\ "bytes" \in DOMAIN r /\ r = [x \in DOMAIN r |-> r[x]]
      BY DEF Replied, Reply
    <2>3. answered(attempt.status) = [r EXCEPT !.bytes = BytesOf(reader, at, length, length)]
      BY <2>1
    <2>4. Trusted(reader, at, length, r)
      BY WholeAnswer
    <2> HIDE DEF r, answered
    <2>5. answered(attempt.status) = r
      BY <2>2, <2>3
    <2> QED
      BY <2>4, <2>5
  <1>4. result = refused \/ \E first \in attempts, second \in attempts : result = outcome(first, second)
    <2>1. HttpRead(reader, src, at, length) =
            IF at + length > SizeOf(src) THEN {refused}
            ELSE {outcome(first, second) : first \in attempts, second \in attempts}
      BY SMT DEF HttpRead
    <2> HIDE DEF outcome, attempts, refused
    <2> QED
      BY <2>1
  <1> HIDE DEF ok, answered, attempts, refused
  <1>5. ASSUME NEW first \in attempts, NEW second \in attempts, result = outcome(first, second)
        PROVE  Trusted(reader, at, length, result)
    BY <1>2, <1>3, <1>5
  <1> QED
    BY <1>2, <1>4, <1>5

LEMMA DeviceIsTrusted ==
    ASSUME NEW reader \in Reader, NEW at \in Nat, NEW length \in Nat \ {0},
           Sources[reader.source].kind \in {"drive", "volume"},
           NEW result \in DeviceRead(reader, Sources[reader.source], at, length)
    PROVE  Trusted(reader, at, length, result)
  <1> DEFINE src == Sources[reader.source]
             short(n) == Reply(TRUE, n, FALSE, FALSE, BytesOf(reader, at, length, n), reader.stuck)
  <1>1. Excuse(reader, at, length)
    BY DEF Excuse, InOrder
  <1>2. \/ result = Replied(reader, at, length)
        \/ \E n \in 0..(length - 1) : result = short(n)
        \/ \E note \in BOOLEAN : result = NotRead(reader, length, note)
    BY DEF DeviceRead
  <1>3. CASE result = Replied(reader, at, length)
    BY <1>3, WholeAnswer
  <1>4. ASSUME NEW n \in 0..(length - 1), result = short(n)
        PROVE  Trusted(reader, at, length, result)
    <2>1. n \in 0..length
      OBVIOUS
    <2> QED
      BY <1>4, <2>1, AnswersAreTrusted
  <1>5. ASSUME NEW note \in BOOLEAN, result = NotRead(reader, length, note)
        PROVE  Trusted(reader, at, length, result)
    BY <1>1, <1>5, Refusal
  <1> HIDE DEF short
  <1> QED
    BY <1>2, <1>3, <1>4, <1>5

\* What readSectors says of any source may be relied on.
LEMMA RepliesAreTrusted ==
    ASSUME NEW reader \in Reader, NEW at \in Nat, NEW length \in Nat \ {0},
           NEW result \in readSectors(reader, at, length)
    PROVE  Trusted(reader, at, length, result)
  <1> DEFINE sort == Sources[reader.source].kind
  <1>1. sort \in {"memory", "file", "ewf", "http", "raid", "drive", "volume"}
    BY ReaderFacts DEF SourceKinds
  <1>2. CASE sort = "memory"
    BY <1>2, MemoryIsTrusted DEF readSectors
  <1>3. CASE sort = "file"
    BY <1>3, FileIsTrusted DEF readSectors
  <1>4. CASE sort = "ewf"
    BY <1>4, EwfIsTrusted DEF readSectors
  <1>5. CASE sort = "http"
    BY <1>5, HttpIsTrusted DEF readSectors
  <1>6. CASE sort = "raid"
    BY <1>6, RaidIsTrusted DEF readSectors
  <1>7. CASE sort \in {"drive", "volume"}
    BY <1>7, DeviceIsTrusted DEF readSectors
  <1> QED
    BY <1>1, <1>2, <1>3, <1>4, <1>5, <1>6, <1>7

\* What excuses a read of the whole sectors excuses the bytes in them.
LEMMA AroundTheBytes ==
    ASSUME NEW at \in Nat, NEW length \in Nat \ {0}
    PROVE  LET skip == at % SourceSector
               whole == AlignedLength(at, length)
           IN  /\ skip \in Nat /\ at - skip \in Nat /\ whole \in Nat \ {0} /\ skip + length <= whole
               /\ \A reader \in Reader : Excuse(reader, at - skip, whole) => Excuse(reader, at, length)
  <1> DEFINE n == SourceSector
             x == (at + length) - 1
             final == x \div n
             skip == at % n
             whole == AlignedLength(at, length)
  <1>1. n \in Nat \ {0} /\ x \in Nat
    BY InputAssumption
  <1>2. /\ skip \in Nat /\ at - skip \in Nat /\ whole \in Nat \ {0}
        /\ SectorsIn(at - skip, whole) = SectorsIn(at, length)
        /\ (at - skip) + whole = (final + 1) * n
    BY AlignedAre
  <1>3. final \in Nat /\ x < (final + 1) * n
    <2>1. final \in Nat /\ x % n \in 0..(n - 1) /\ x = final * n + (x % n)
      BY <1>1, Blocks
    <2>2. (final + 1) * n = final * n + n /\ final * n \in Nat
      <3> HIDE DEF final, n
      <3> QED
        BY <1>1, <2>1
    <2> HIDE DEF x, n, final
    <2>3. x % n \in 0..(n - 1)
      BY <2>1
    <2> QED
      BY <1>1, <2>1, <2>2, <2>3
  <1>4. final * n <= x
    BY <1>1, <1>3, BlockBelow
  <1>5. (final + 1) * n \in Nat
    <2> HIDE DEF final, n
    <2> QED
      BY <1>1, <1>3
  <1> HIDE DEF final, whole, skip, n
  <1>6. skip + length <= whole
    BY <1>1, <1>2, <1>3, <1>5
  <1>7. ASSUME NEW reader \in Reader, Excuse(reader, at - skip, whole) PROVE Excuse(reader, at, length)
    <2> DEFINE src == Sources[reader.source]
    <2>1. PICK k \in Nat : SizeOf(src) = n * k
      BY ReaderFacts, SizeInSectors DEF n
    <2>2. n * k = k * n /\ k * n \in Nat
      BY <1>1
    <2>3. ASSUME (at - skip) + whole > SizeOf(src) PROVE at + length > SizeOf(src)
      <3>1. (final + 1) * n > k * n
        BY <1>2, <2>1, <2>2, <2>3
      <3>2. ~(final + 1 <= k)
        <4>1. ASSUME final + 1 <= k PROVE (final + 1) * n <= k * n
          BY <1>1, <1>3, <4>1
        <4> QED
          BY <1>5, <2>2, <3>1, <4>1
      <3>3. k <= final
        BY <1>3, <3>2
      <3>4. k * n <= final * n
        BY <1>1, <1>3, <3>3
      <3>5. final * n \in Nat
        BY <1>1, <1>3
      <3>6. k * n <= x
        BY <1>1, <1>4, <2>2, <3>4, <3>5
      <3> QED
        BY <2>1, <2>2, <3>6
    <2> QED
      BY <1>2, <1>7, <2>3 DEF Excuse
  <1> QED
    BY <1>2, <1>6, <1>7 DEF skip, whole, n

\* Bytes cut out of whole sectors are as true as those.
LEMMA SlicesAreTrusted ==
    ASSUME NEW reader \in Reader, NEW at \in Nat, NEW length \in Nat \ {0},
           NEW skip \in Nat, NEW whole \in Nat \ {0},
           at - skip \in Nat, skip + length <= whole,
           Excuse(reader, at - skip, whole) => Excuse(reader, at, length),
           NEW result, Trusted(reader, at - skip, whole, result)
    PROVE  Trusted(reader, at, length, Sliced(result, skip, length))
  <1> DEFINE got == Min({result.got - skip, length})
             cut == [i \in 1..length |-> IF i <= got THEN result.bytes[skip + i] ELSE Stale]
             none == [i \in 1..length |-> Stale]
             sliced == Sliced(result, skip, length)
             fixed == result.stuck # {} \/ Excuse(reader, at, length)
  <1>1. /\ result = Reply(result.success, result.got, result.padded, result.note, result.bytes, result.stuck)
        /\ result.success \in BOOLEAN /\ result.note \in BOOLEAN /\ result.padded \in BOOLEAN
        /\ result.got \in 0..whole /\ result.stuck \in SUBSET Nat
    BY DEF Trusted
  <1>2. BytesTrusted(reader, at - skip, result)
    BY DEF Trusted
  <1>3. /\ ~result.success => fixed
        /\ result.success /\ result.got < whole => Excuse(reader, at, length)
    BY DEF Trusted
  <1>4. got = IF result.got - skip <= length THEN result.got - skip ELSE length
    BY <1>1, LesserAndGreater
  <1>5. CASE result.got > skip
    <2>1. got \in 1..length /\ skip + got <= result.got /\ (got < length => result.got < whole)
      <3> HIDE DEF got
      <3> QED
        BY <1>1, <1>4, <1>5
    <2>2. sliced = [result EXCEPT !.got = got, !.bytes = cut]
      BY <1>5 DEF Sliced
    <2> HIDE DEF got
    <2>3. \A i \in 1..got : cut[i] = result.bytes[skip + i] /\ skip + i \in 1..result.got
      BY <1>1, <2>1
    <2> HIDE DEF cut
    <2>4. sliced = Reply(result.success, got, result.padded, result.note, cut, result.stuck)
      <3> HIDE DEF sliced
      <3>1. PICK r : r = result
        OBVIOUS
      <3>2. [r EXCEPT !.got = got, !.bytes = cut] = Reply(r.success, got, r.padded, r.note, cut, r.stuck)
        <4> DEFINE success == r.success
                   padded == r.padded
                   note == r.note
                   bytes == r.bytes
                   stuck == r.stuck
                   given == r.got
        <4>1. r = Reply(success, given, padded, note, bytes, stuck)
          BY <1>1, <3>1
        <4> HIDE DEF success, padded, note, bytes, stuck, given
        <4> DEFINE fewer == [r EXCEPT !.got = got]
        <4>2. [r EXCEPT !.got = got, !.bytes = cut] = [fewer EXCEPT !.bytes = cut]
          OBVIOUS
        <4>3. fewer = Reply(success, got, padded, note, bytes, stuck)
          BY <4>1 DEF Reply
        <4> HIDE DEF fewer
        <4>4. [fewer EXCEPT !.bytes = cut] = Reply(success, got, padded, note, cut, stuck)
          BY <4>3 DEF Reply
        <4> QED
          BY <4>2, <4>4 DEF success, padded, note, stuck
      <3> QED
        BY <2>2, <3>1, <3>2
    <2> HIDE DEF sliced
    <2>5. /\ sliced.success = result.success /\ sliced.got = got /\ sliced.padded = result.padded
          /\ sliced.note = result.note /\ sliced.bytes = cut /\ sliced.stuck = result.stuck
      BY <2>4 DEF Reply
    <2>6. BytesTrusted(reader, at, sliced)
      <3>1. ASSUME NEW i \in 1..got
            PROVE  /\ cut[i] # Stale
                   /\ result.success /\ ~result.padded /\ (Suits(reader) \/ reader.key = "none")
                        => cut[i] = Truth(reader, at + i - 1)
        <4>1. cut[i] = result.bytes[skip + i] /\ skip + i \in 1..result.got
          BY <2>3
        <4>2. (at - skip) + (skip + i) - 1 = at + i - 1
          BY <4>1
        <4> QED
          BY <1>2, <4>1, <4>2 DEF BytesTrusted
      <3> QED
        BY <2>5, <3>1 DEF BytesTrusted
    <2>7. sliced = Reply(sliced.success, sliced.got, sliced.padded, sliced.note, sliced.bytes, sliced.stuck)
      BY <2>4, <2>5
    <2>8. sliced.got \in 0..length /\ sliced.got > 0
      BY <2>1, <2>5
    <2>9. /\ ~sliced.success => sliced.stuck # {} \/ Excuse(reader, at, length)
          /\ sliced.success /\ sliced.got < length => Excuse(reader, at, length)
      BY <1>3, <2>1, <2>5
    <2>10. sliced.success \in BOOLEAN /\ sliced.note \in BOOLEAN /\ sliced.padded \in BOOLEAN
             /\ sliced.stuck \in SUBSET Nat
      BY <1>1, <2>5
    <2>11. Trusted(reader, at, length, sliced)
      BY <2>6, <2>7, <2>8, <2>9, <2>10 DEF Trusted
    <2> QED
      BY <2>11 DEF sliced
  <1>6. CASE ~(result.got > skip)
    <2>1. sliced = [result EXCEPT !.got = 0, !.bytes = none, !.success = FALSE]
      BY <1>6 DEF Sliced
    <2>2. fixed
      <3>1. result.got < whole
        BY <1>1, <1>6
      <3> QED
        BY <1>3, <3>1
    <2> HIDE DEF none, sliced
    <2>3. sliced = Reply(FALSE, 0, result.padded, result.note, none, result.stuck)
      <3>1. PICK no \in BOOLEAN : no = FALSE
        OBVIOUS
      <3>2. PICK r : r = result
        OBVIOUS
      <3>3. [r EXCEPT !.got = 0, !.bytes = none, !.success = no] = Reply(no, 0, r.padded, r.note, none, r.stuck)
        <4> DEFINE success == r.success
                   padded == r.padded
                   note == r.note
                   bytes == r.bytes
                   stuck == r.stuck
                   given == r.got
        <4>1. r = Reply(success, given, padded, note, bytes, stuck)
          BY <1>1, <3>2
        <4> HIDE DEF success, padded, note, bytes, stuck, given
        <4> DEFINE fewer == [r EXCEPT !.got = 0]
                   blank == [fewer EXCEPT !.bytes = none]
        <4>2. [r EXCEPT !.got = 0, !.bytes = none, !.success = no] = [blank EXCEPT !.success = no]
          OBVIOUS
        <4>3. fewer = Reply(success, 0, padded, note, bytes, stuck)
          BY <4>1 DEF Reply
        <4> HIDE DEF fewer
        <4>4. blank = Reply(success, 0, padded, note, none, stuck)
          BY <4>3 DEF Reply
        <4> HIDE DEF blank
        <4>5. [blank EXCEPT !.success = no] = Reply(no, 0, padded, note, none, stuck)
          BY <4>4 DEF Reply
        <4> QED
          BY <4>2, <4>5 DEF padded, note, stuck
      <3>4. sliced = [r EXCEPT !.got = 0, !.bytes = none, !.success = no]
        BY <2>1, <3>1, <3>2
      <3> QED
        BY <3>1, <3>2, <3>3, <3>4
    <2>4. /\ sliced.success = FALSE /\ sliced.got = 0 /\ sliced.padded = result.padded
          /\ sliced.note = result.note /\ sliced.bytes = none /\ sliced.stuck = result.stuck
      BY <2>3 DEF Reply
    <2>5. BytesTrusted(reader, at, sliced)
      <3>1. 1..0 = {}
        OBVIOUS
      <3> QED
        BY <2>4, <3>1 DEF BytesTrusted
    <2>6. sliced.success \in BOOLEAN /\ sliced.note \in BOOLEAN /\ sliced.padded \in BOOLEAN
            /\ sliced.stuck \in SUBSET Nat
      BY <1>1, <2>4
    <2>7. sliced.got \in 0..length /\ ~sliced.success /\ (sliced.stuck # {} \/ Excuse(reader, at, length))
      BY <2>2, <2>4
    <2>8. sliced = Reply(sliced.success, sliced.got, sliced.padded, sliced.note, sliced.bytes, sliced.stuck)
      BY <2>3, <2>4
    <2>9. Trusted(reader, at, length, sliced)
      BY <2>5, <2>6, <2>7, <2>8 DEF Trusted
    <2> QED
      BY <2>9 DEF sliced
  <1> QED
    BY <1>5, <1>6

\* What readBytes says of any source may be relied on, whole sectors or not.
LEMMA ReadsAreTrusted ==
    ASSUME NEW reader \in Reader, NEW span \in Spans, NEW result \in readBytes(reader, span)
    PROVE  Trusted(reader, span.at, span.length, result)
  <1> DEFINE at == span.at
             length == span.length
             skip == at % SourceSector
             whole == AlignedLength(at, length)
  <1>1. at \in Nat /\ length \in Nat \ {0}
    BY InputAssumption
  <1>2. CASE skip = 0 /\ length % SourceSector = 0
    <2>1. result \in readSectors(reader, at, length)
      BY <1>2 DEF readBytes
    <2> QED
      BY <1>1, <2>1, RepliesAreTrusted
  <1>3. CASE ~(skip = 0 /\ length % SourceSector = 0)
    <2>1. readBytes(reader, span) =
            {Sliced(reply, skip, length) : reply \in readSectors(reader, at - skip, whole)}
      BY <1>3 DEF readBytes, AlignedLength
    <2>2. PICK reply \in readSectors(reader, at - skip, whole) : result = Sliced(reply, skip, length)
      BY <2>1
    <2>3. /\ skip \in Nat /\ at - skip \in Nat /\ whole \in Nat \ {0} /\ skip + length <= whole
          /\ Excuse(reader, at - skip, whole) => Excuse(reader, at, length)
      BY <1>1, AroundTheBytes
    <2> HIDE DEF skip, whole, at, length
    <2>4. Trusted(reader, at - skip, whole, reply)
      BY <2>2, <2>3, RepliesAreTrusted
    <2>5. Trusted(reader, at, length, Sliced(reply, skip, length))
      BY <1>1, <2>3, <2>4, SlicesAreTrusted
    <2> QED
      BY <2>2, <2>5 DEF at, length
  <1> QED
    BY <1>2, <1>3

----------------------------------------------------------------------------
(* What did not read, counted over the clones                               *)

\* What a reader has counted and kept, of sectors that were counted
Tally(reader, N) ==
    /\ reader.bad \in Nat /\ reader.samples \in Seq(N) /\ Len(reader.samples) <= MaxSamples
    /\ reader.bad <= MaxSamples => Len(reader.samples) = reader.bad

\* The readers together have counted n.
Summed(rs, n) ==
    \E t \in [0..Len(rs) -> Nat] :
        t[0] = 0 /\ t[Len(rs)] = n /\ \A k \in 1..Len(rs) : t[k] = t[k - 1] + rs[k].bad

\* Samples are added while there is room, and none is left out when there is.
LEMMA RoomIsKept ==
    ASSUME NEW N, NEW s \in Seq(N), NEW t \in Seq(N), Len(s) <= MaxSamples
    PROVE  LET room == Max({0, MaxSamples - Len(s)})
               more == s \o SubSeq(t, 1, Min({room, Len(t)}))
           IN  /\ more \in Seq(N) /\ Len(more) <= MaxSamples
               /\ Len(s) + Len(t) <= MaxSamples => Len(more) = Len(s) + Len(t)
  <1> DEFINE room == Max({0, MaxSamples - Len(s)})
             m == Min({room, Len(t)})
             part == SubSeq(t, 1, m)
  <1>1. MaxSamples \in Nat /\ Len(s) \in Nat /\ Len(t) \in Nat
    BY InputAssumption
  <1>2. room = MaxSamples - Len(s)
    <2> DEFINE left == MaxSamples - Len(s)
    <2>1. left \in Int /\ 0 \in Int /\ 0 <= left
      BY <1>1
    <2> HIDE DEF left
    <2>2. Max({0, left}) = IF 0 >= left THEN 0 ELSE left
      BY <2>1, LesserAndGreater
    <2>3. Max({0, left}) = left
      BY <2>1, <2>2
    <2> QED
      BY <2>3 DEF left
  <1> HIDE DEF room
  <1>3. m = IF room <= Len(t) THEN room ELSE Len(t)
    BY <1>1, <1>2, LesserAndGreater
  <1> HIDE DEF m
  <1>4. m \in 0..Len(t) /\ Len(s) + m <= MaxSamples
    BY <1>1, <1>2, <1>3
  <1>5. part \in Seq(N) /\ Len(part) = m
    BY <1>4
  <1> HIDE DEF part
  <1>6. s \o part \in Seq(N) /\ Len(s \o part) = Len(s) + m
    BY <1>1, <1>4, <1>5
  <1> DEFINE more == s \o part
  <1>7. more \in Seq(N) /\ Len(more) <= MaxSamples
    BY <1>4, <1>6
  <1>8. Len(s) + Len(t) <= MaxSamples => Len(more) = Len(s) + Len(t)
    BY <1>1, <1>2, <1>3, <1>6
  <1> HIDE DEF more
  <1> QED
    BY <1>7, <1>8 DEF room, m, part, more

\* The sectors of one read, thinned when they alone would fill the samples
LEMMA ThinningKeeps ==
    ASSUME NEW N, NEW sectors \in Seq(N)
    PROVE  LET count == Len(sectors)
               stride == IF count > MaxSamples THEN count \div MaxSamples + 1 ELSE 1
               thinned == [i \in 1..((count + stride - 1) \div stride) |-> sectors[(i - 1) * stride + 1]]
           IN  thinned \in Seq(N) /\ (count <= MaxSamples => Len(thinned) = count)
  <1> DEFINE count == Len(sectors)
             stride == IF count > MaxSamples THEN count \div MaxSamples + 1 ELSE 1
             size == (count + stride - 1) \div stride
             thinned == [i \in 1..size |-> sectors[(i - 1) * stride + 1]]
  <1>1. count \in Nat /\ MaxSamples \in Nat \ {0}
    BY InputAssumption
  <1>2. stride \in Nat \ {0} /\ (count <= MaxSamples => stride = 1)
    <2>1. count \div MaxSamples \in Nat
      BY <1>1, Blocks
    <2> HIDE DEF count
    <2> QED
      BY <1>1, <2>1
  <1> HIDE DEF stride
  <1>3. \A k \in 1..count : sectors[k] \in N
    OBVIOUS
  <1> HIDE DEF count
  <1>4. (count + stride - 1) \in Nat /\ (count + stride) - 1 = count + stride - 1
    BY <1>1, <1>2
  <1>5. size \in Nat /\ (size - 1) * stride <= count - 1
    <2> DEFINE x == count + stride - 1
    <2>1. size \in Nat /\ x % stride \in 0..(stride - 1) /\ x = size * stride + (x % stride)
      BY <1>2, <1>4, Blocks
    <2> HIDE DEF size
    <2>2. size * stride \in Nat /\ (size - 1) * stride = size * stride - stride
      BY <1>2, <2>1
    <2>3. x % stride >= 0 /\ x % stride \in Int
      BY <1>2, <2>1
    <2> DEFINE r == x % stride
    <2>4. x = count + (stride - 1)
      BY <1>1, <1>2
    <2> HIDE DEF r, x
    <2> QED
      BY <1>1, <1>2, <2>1, <2>2, <2>3, <2>4 DEF r
  <1>6. ASSUME NEW i \in 1..size PROVE (i - 1) * stride + 1 \in 1..count
    <2> HIDE DEF size
    <2>1. (i - 1) * stride <= (size - 1) * stride /\ (i - 1) * stride \in Nat
      BY <1>2, <1>5
    <2>2. (size - 1) * stride \in Int
      BY <1>2, <1>5
    <2> QED
      BY <1>1, <1>5, <2>1, <2>2
  <1>7. thinned \in Seq(N) /\ Len(thinned) = size
    <2> HIDE DEF size
    <2>1. \A i \in 1..size : sectors[(i - 1) * stride + 1] \in N
      BY <1>3, <1>6
    <2>2. thinned \in [1..size -> N]
      BY <2>1
    <2> HIDE DEF thinned
    <2> QED
      BY <1>5, <2>2
  <1>8. ASSUME count <= MaxSamples PROVE size = count
    <2>1. stride = 1
      BY <1>2, <1>8
    <2>2. count + stride - 1 = count * 1 + 0
      BY <1>1, <2>1
    <2>3. 0 \in 0..(1 - 1) /\ 1 \in Nat \ {0}
      OBVIOUS
    <2>4. (count * 1 + 0) \div 1 = count
      BY <1>1, <2>3, PlaceIn
    <2> QED
      BY <2>1, <2>2, <2>4
  <1> QED
    BY <1>7, <1>8 DEF count, stride

\* A sequence of some is a sequence of more.
LEMMA WiderSequence ==
    ASSUME NEW N, NEW M, N \subseteq M, NEW q \in Seq(N)
    PROVE  q \in Seq(M)
  <1>1. Len(q) \in Nat /\ q \in [1..Len(q) -> N]
    OBVIOUS
  <1>2. q \in [1..Len(q) -> M]
    BY <1>1
  <1> QED
    BY <1>1, <1>2

\* A reader that counts or keeps more is the same reader.
LEMMA WithCount ==
    ASSUME NEW reader \in Reader, NEW total \in Nat, NEW after, after = [reader EXCEPT !.bad = total]
    PROVE  /\ after \in Reader /\ after.source = reader.source /\ after.key = reader.key
           /\ after.from = reader.from /\ after.stuck = reader.stuck /\ after.bad = total /\ after.samples = reader.samples
  <1>1. PICK source \in DOMAIN Sources, key \in Keys, from \in Nat, stuck \in SUBSET Nat, bad \in Nat,
             samples \in Seq(Nat) :
          reader = [source |-> source, key |-> key, from |-> from, stuck |-> stuck, bad |-> bad,
                    samples |-> samples]
    BY DEF Reader
  <1>2. after = [source |-> source, key |-> key, from |-> from, stuck |-> stuck, bad |-> total, samples |-> samples]
    BY <1>1
  <1>3. after \in Reader
    BY <1>2 DEF Reader
  <1> QED
    BY <1>1, <1>2, <1>3

LEMMA WithSamples ==
    ASSUME NEW reader \in Reader, NEW more \in Seq(Nat), NEW after, after = [reader EXCEPT !.samples = more]
    PROVE  /\ after \in Reader /\ after.source = reader.source /\ after.key = reader.key
           /\ after.from = reader.from /\ after.stuck = reader.stuck /\ after.bad = reader.bad /\ after.samples = more
  <1>1. PICK source \in DOMAIN Sources, key \in Keys, from \in Nat, stuck \in SUBSET Nat, bad \in Nat,
             samples \in Seq(Nat) :
          reader = [source |-> source, key |-> key, from |-> from, stuck |-> stuck, bad |-> bad,
                    samples |-> samples]
    BY DEF Reader
  <1>2. after = [source |-> source, key |-> key, from |-> from, stuck |-> stuck, bad |-> bad, samples |-> more]
    BY <1>1
  <1>3. after \in Reader
    BY <1>2 DEF Reader
  <1> QED
    BY <1>1, <1>2, <1>3

\* noteBadRead and mergeBadSectorTelemetryFrom keep a tally.
LEMMA NotingTallies ==
    ASSUME NEW N, NEW reader \in Reader, Tally(reader, N), NEW sectors \in Seq(N), N \subseteq Nat
    PROVE  LET after == noteBadRead(reader, sectors)
           IN  /\ Tally(after, N) /\ after.bad = reader.bad + Len(sectors) /\ after \in Reader
               /\ after.source = reader.source /\ after.key = reader.key /\ after.from = reader.from
               /\ after.stuck = reader.stuck
  <1> DEFINE count == Len(sectors)
             stride == IF count > MaxSamples THEN count \div MaxSamples + 1 ELSE 1
             thinned == [i \in 1..((count + stride - 1) \div stride) |-> sectors[(i - 1) * stride + 1]]
             room == Max({0, MaxSamples - Len(reader.samples)})
             more == reader.samples \o SubSeq(thinned, 1, Min({room, Len(thinned)}))
             after == noteBadRead(reader, sectors)
  <1>1. after = [reader EXCEPT !.bad = @ + count, !.samples = more]
    BY DEF noteBadRead
  <1>2. thinned \in Seq(N) /\ (count <= MaxSamples => Len(thinned) = count)
    BY ThinningKeeps
  <1>3. count \in Nat /\ MaxSamples \in Nat
    BY InputAssumption
  <1>4. /\ reader.bad \in Nat /\ reader.samples \in Seq(N) /\ Len(reader.samples) <= MaxSamples
        /\ reader.bad <= MaxSamples => Len(reader.samples) = reader.bad
    BY DEF Tally
  <1> HIDE DEF thinned, count
  <1>5. /\ more \in Seq(N) /\ Len(more) <= MaxSamples
        /\ Len(reader.samples) + Len(thinned) <= MaxSamples => Len(more) = Len(reader.samples) + Len(thinned)
    BY <1>2, <1>4, RoomIsKept
  <1> HIDE DEF more, after
  <1>6. more \in Seq(Nat)
    BY <1>5, WiderSequence
  <1>7. /\ after.bad = reader.bad + count /\ after.samples = more /\ after \in Reader
        /\ after.source = reader.source /\ after.key = reader.key /\ after.from = reader.from
        /\ after.stuck = reader.stuck
    <2> DEFINE total == reader.bad + count
               counted == [reader EXCEPT !.bad = total]
    <2>1. after = [counted EXCEPT !.samples = more]
      BY <1>1
    <2>2. total \in Nat
      BY <1>3, <1>4
    <2> HIDE DEF total
    <2>3. PICK c : c = counted
      OBVIOUS
    <2>4. after = [c EXCEPT !.samples = more]
      BY <2>1, <2>3
    <2>5. /\ c \in Reader /\ c.source = reader.source /\ c.key = reader.key /\ c.from = reader.from
          /\ c.stuck = reader.stuck /\ c.bad = total
      BY <2>2, <2>3, WithCount
    <2>6. /\ after \in Reader /\ after.source = c.source /\ after.key = c.key /\ after.from = c.from
          /\ after.stuck = c.stuck /\ after.bad = c.bad /\ after.samples = more
      BY <1>6, <2>4, <2>5, WithSamples
    <2> QED
      BY <2>5, <2>6 DEF total
  <1>8. Tally(after, N)
    BY <1>2, <1>3, <1>4, <1>5, <1>7, SMTT(30) DEF Tally
  <1> QED
    BY <1>7, <1>8 DEF after, count

LEMMA MergingTallies ==
    ASSUME NEW N, N \subseteq Nat, NEW reader \in Reader, Tally(reader, N), NEW other, Tally(other, N)
    PROVE  LET after == mergeBadSectorTelemetryFrom(reader, other)
           IN  Tally(after, N) /\ after.bad = reader.bad + other.bad /\ after \in Reader
  <1> DEFINE room == Max({0, MaxSamples - Len(reader.samples)})
             more == reader.samples \o SubSeq(other.samples, 1, Min({room, Len(other.samples)}))
             after == mergeBadSectorTelemetryFrom(reader, other)
  <1>1. after = [reader EXCEPT !.bad = @ + other.bad, !.samples = more]
    BY DEF mergeBadSectorTelemetryFrom
  <1>2. /\ reader.bad \in Nat /\ reader.samples \in Seq(N) /\ Len(reader.samples) <= MaxSamples
        /\ reader.bad <= MaxSamples => Len(reader.samples) = reader.bad
    BY DEF Tally
  <1>3. /\ other.bad \in Nat /\ other.samples \in Seq(N) /\ Len(other.samples) <= MaxSamples
        /\ other.bad <= MaxSamples => Len(other.samples) = other.bad
    BY DEF Tally
  <1>4. /\ more \in Seq(N) /\ Len(more) <= MaxSamples
        /\ Len(reader.samples) + Len(other.samples) <= MaxSamples
             => Len(more) = Len(reader.samples) + Len(other.samples)
    BY <1>2, <1>3, RoomIsKept
  <1> HIDE DEF more, after
  <1>5. more \in Seq(Nat) /\ MaxSamples \in Nat
    BY <1>4, WiderSequence, InputAssumption
  <1>6. after.bad = reader.bad + other.bad /\ after.samples = more /\ after \in Reader
    <2> DEFINE total == reader.bad + other.bad
               counted == [reader EXCEPT !.bad = total]
    <2>1. after = [counted EXCEPT !.samples = more]
      BY <1>1
    <2>2. total \in Nat
      BY <1>2, <1>3
    <2> HIDE DEF total
    <2>3. PICK c : c = counted
      OBVIOUS
    <2>4. after = [c EXCEPT !.samples = more]
      BY <2>1, <2>3
    <2>5. /\ c \in Reader /\ c.source = reader.source /\ c.key = reader.key /\ c.from = reader.from
          /\ c.stuck = reader.stuck /\ c.bad = total
      BY <2>2, <2>3, WithCount
    <2>6. /\ after \in Reader /\ after.source = c.source /\ after.key = c.key /\ after.from = c.from
          /\ after.stuck = c.stuck /\ after.bad = c.bad /\ after.samples = more
      BY <1>5, <2>4, <2>5, WithSamples
    <2> QED
      BY <2>5, <2>6 DEF total
  <1>7. ASSUME after.bad <= MaxSamples PROVE Len(after.samples) = after.bad
    <2>1. reader.bad <= MaxSamples /\ other.bad <= MaxSamples
      BY <1>2, <1>3, <1>5, <1>6, <1>7
    <2>2. Len(reader.samples) = reader.bad /\ Len(other.samples) = other.bad
      BY <1>2, <1>3, <2>1
    <2>3. Len(more) = Len(reader.samples) + Len(other.samples)
      BY <1>4, <1>6, <1>7, <2>2
    <2> QED
      BY <1>6, <2>2, <2>3
  <1>8. after.bad \in Nat
    BY <1>2, <1>3, <1>6
  <1>9. Tally(after, N)
    BY <1>4, <1>6, <1>7, <1>8 DEF Tally
  <1> QED
    BY <1>6, <1>9 DEF after

\* One reader has counted what it says.
LEMMA SummedOne ==
    ASSUME NEW m, m.bad \in Nat, NEW n, n = m.bad
    PROVE  Summed(<<m>>, n)
  <1> DEFINE t == [k \in 0..1 |-> IF k = 0 THEN 0 ELSE n]
  <1>1. Len(<<m>>) = 1 /\ <<m>>[1] = m
    OBVIOUS
  <1>2. t \in [0..1 -> Nat] /\ t[0] = 0 /\ t[1] = n
    OBVIOUS
  <1>3. \A k \in 1..1 : t[k] = t[k - 1] + <<m>>[k].bad
    <2> HIDE DEF t
    <2>1. t[1] = t[1 - 1] + <<m>>[1].bad
      BY <1>1, <1>2
    <2> QED
      BY <2>1
  <1> HIDE DEF t
  <1> QED
    BY <1>1, <1>2, <1>3 DEF Summed

\* What one reader counts is counted once.
LEMMA SummedRead ==
    ASSUME NEW rs \in Seq(Reader), NEW n \in Nat, Summed(rs, n), NEW r \in 1..Len(rs), NEW q \in Reader,
           NEW c \in Nat, q.bad = rs[r].bad + c
    PROVE  Summed([rs EXCEPT ![r] = q], n + c)
  <1> DEFINE new == [rs EXCEPT ![r] = q]
             size == Len(rs)
  <1>1. PICK t \in [0..size -> Nat] : t[0] = 0 /\ t[size] = n /\ \A k \in 1..size : t[k] = t[k - 1] + rs[k].bad
    BY DEF Summed
  <1>2. size \in Nat /\ Len(new) = size /\ \A k \in 1..size : new[k] = IF k = r THEN q ELSE rs[k]
    OBVIOUS
  <1>3. \A k \in 1..size : rs[k].bad \in Nat
    <2>1. \A k \in 1..size : rs[k] \in Reader
      OBVIOUS
    <2> QED
      BY <2>1 DEF Reader
  <1> DEFINE u == [k \in 0..size |-> IF k >= r THEN t[k] + c ELSE t[k]]
  <1> HIDE DEF new, size
  <1>4. u \in [0..size -> Nat] /\ u[0] = 0 /\ u[size] = n + c
    BY <1>1, <1>2 DEF size
  <1>5. ASSUME NEW k \in 1..size PROVE u[k] = u[k - 1] + new[k].bad
    <2>1. k \in 0..size /\ k - 1 \in 0..size /\ t[k] \in Nat /\ t[k - 1] \in Nat
      BY <1>1, <1>2
    <2>2. /\ u[k] = IF k >= r THEN t[k] + c ELSE t[k]
          /\ u[k - 1] = IF k - 1 >= r THEN t[k - 1] + c ELSE t[k - 1]
      BY <2>1
    <2>3. t[k] = t[k - 1] + rs[k].bad
      BY <1>1
    <2> HIDE DEF u
    <2>4. CASE k = r
      <3>1. new[k].bad = rs[k].bad + c
        BY <1>2, <2>4
      <3>2. u[k] = t[k] + c /\ u[k - 1] = t[k - 1]
        BY <1>2, <2>1, <2>2, <2>4
      <3> QED
        BY <1>3, <2>1, <2>3, <3>1, <3>2
    <2>5. CASE k # r
      <3>1. new[k].bad = rs[k].bad /\ rs[k].bad \in Nat
        BY <1>2, <1>3, <2>5
      <3>2. k >= r <=> k - 1 >= r
        BY <1>2, <2>5 DEF size
      <3> QED
        BY <2>1, <2>2, <2>3, <3>1, <3>2
    <2> QED
      BY <2>4, <2>5
  <1> HIDE DEF u
  <1>6. Summed(new, n + c)
    BY <1>2, <1>4, <1>5 DEF Summed
  <1> QED
    BY <1>6 DEF new

\* One sequence after another, place by place
Follows(new, s, q) ==
    /\ Len(new) = Len(s) + Len(q) /\ \A k \in 1..Len(s) : new[k] = s[k]
    /\ \A k \in 1..Len(q) : new[Len(s) + k] = q[k]

LEMMA OneAfterAnother ==
    ASSUME NEW T, NEW s \in Seq(T), NEW q \in Seq(T)
    PROVE  Follows(s \o q, s, q) /\ s \o q \in Seq(T)
  BY DEF Follows

\* Clones have counted nothing yet.
LEMMA SummedSpawn ==
    ASSUME NEW rs \in Seq(Reader), Len(rs) = 1, NEW n \in Nat, Summed(rs, n),
           NEW clones \in Seq(Reader), \A w \in 1..Len(clones) : clones[w].bad = 0
    PROVE  Summed(rs \o clones, n)
  <1> DEFINE new == rs \o clones
             size == Len(clones) + 1
  <1>1. PICK t \in [0..1 -> Nat] : t[0] = 0 /\ t[1] = n /\ \A k \in 1..1 : t[k] = t[k - 1] + rs[k].bad
    BY DEF Summed
  <1>2. Follows(new, rs, clones)
    BY OneAfterAnother, Zenon
  <1>3. size \in Nat /\ Len(new) = size /\ new[1] = rs[1] /\ \A k \in 2..size : new[k].bad = 0
    <2> HIDE DEF new
    <2>1. size \in Nat /\ Len(new) = size /\ new[1] = rs[1]
      BY <1>2 DEF Follows
    <2>2. ASSUME NEW k \in 2..size PROVE new[k].bad = 0
      <3>1. k - 1 \in 1..Len(clones) /\ Len(rs) + (k - 1) = k
        BY <2>1
      <3>2. new[Len(rs) + (k - 1)] = clones[k - 1]
        BY <1>2, <3>1 DEF Follows
      <3> QED
        BY <3>1, <3>2
    <2> QED
      BY <2>1, <2>2
  <1>4. n = 0 + rs[1].bad
    <2>1. 1 \in 1..1 /\ 1 - 1 = 0
      OBVIOUS
    <2> QED
      BY <1>1, <2>1
  <1> DEFINE u == [k \in 0..size |-> IF k = 0 THEN 0 ELSE n]
  <1> HIDE DEF new
  <1>5. u \in [0..size -> Nat] /\ u[0] = 0 /\ u[size] = n
    BY <1>3
  <1>6. ASSUME NEW k \in 1..size PROVE u[k] = u[k - 1] + new[k].bad
    <2>1. CASE k = 1
      <3>1. u[1] = n /\ u[1 - 1] = 0
        BY <1>3
      <3> QED
        BY <1>3, <1>4, <2>1, <3>1
    <2>2. CASE k # 1
      <3>1. k \in 2..size
        BY <1>3, <2>2
      <3>2. new[k].bad = 0
        BY <1>3, <3>1
      <3>3. u[k] = n /\ u[k - 1] = n
        BY <1>3, <3>1
      <3> QED
        BY <3>2, <3>3
    <2> QED
      BY <2>1, <2>2
  <1> HIDE DEF u, size
  <1>7. Summed(new, n)
    BY <1>3, <1>5, <1>6 DEF Summed
  <1> QED
    BY <1>7 DEF new

\* The clones' counts come together in the reader's.
LEMMA MergedTally ==
    ASSUME NEW N, N \subseteq Nat, NEW rs \in Seq(Reader), Len(rs) > 0, \A k \in DOMAIN rs : Tally(rs[k], N),
           NEW n \in Nat, Summed(rs, n)
    PROVE  LET merge[k \in 0..(Len(rs) - 1)] ==
                  IF k = 0 THEN rs[1] ELSE mergeBadSectorTelemetryFrom(merge[k - 1], rs[k + 1])
               all == merge[Len(rs) - 1]
           IN  all \in Reader /\ Tally(all, N) /\ all.bad = n
  <1> DEFINE size == Len(rs) - 1
             T == {v \in Reader : Tally(v, N)}
             step == [x \in (1..size) \X T |-> mergeBadSectorTelemetryFrom(x[2], rs[x[1] + 1])]
             merge[k \in 0..size] == IF k = 0 THEN rs[1] ELSE mergeBadSectorTelemetryFrom(merge[k - 1], rs[k + 1])
  <1>1. size \in Nat /\ Len(rs) = size + 1
    OBVIOUS
  <1>2. PICK t \in [0..(size + 1) -> Nat] :
          t[0] = 0 /\ t[size + 1] = n /\ \A k \in 1..(size + 1) : t[k] = t[k - 1] + rs[k].bad
    BY <1>1 DEF Summed
  <1> HIDE DEF size
  <1>3. \A k \in 1..(size + 1) : rs[k] \in T
    <2>1. DOMAIN rs = 1..(size + 1)
      BY <1>1
    <2>2. \A k \in DOMAIN rs : rs[k] \in Reader
      OBVIOUS
    <2> QED
      BY <2>1, <2>2
  <1>4. \A k \in 1..size, v \in T : mergeBadSectorTelemetryFrom(v, rs[k + 1]) \in T
                                      /\ mergeBadSectorTelemetryFrom(v, rs[k + 1]).bad = v.bad + rs[k + 1].bad
    <2> TAKE k \in 1..size, v \in T
    <2>1. k + 1 \in 1..(size + 1)
      BY <1>1
    <2>2. Tally(rs[k + 1], N) /\ v \in Reader /\ Tally(v, N)
      BY <1>3, <2>1
    <2> QED
      BY <2>2, MergingTallies
  <1>5. step \in [(1..size) \X T -> T] /\ \A k \in 1..size, v \in T : step[<<k, v>>] = mergeBadSectorTelemetryFrom(v, rs[k + 1])
    <2> HIDE DEF T
    <2> QED
      BY <1>4
  <1>6. rs[1] \in T
    BY <1>1, <1>3
  <1> HIDE DEF step, T
  <1>7. PICK f \in [0..size -> T] : f[0] = rs[1] /\ \A k \in 1..size : f[k] = step[<<k, f[k - 1]>>]
    <2>1. StepOn(size, T, rs[1], step)
      BY <1>5, <1>6 DEF StepOn
    <2>2. PICK f : Recursive(f, size, T, rs[1], step)
      BY <1>1, <2>1, Recursion
    <2> QED
      BY <2>2 DEF Recursive
  <1>8. ASSUME NEW k \in 1..size PROVE f[k] = mergeBadSectorTelemetryFrom(f[k - 1], rs[k + 1]) /\ f[k - 1] \in T
    <2>1. k - 1 \in 0..size
      BY <1>1
    <2> QED
      BY <1>5, <1>7, <2>1
  <1>9. f = [k \in 0..size |-> IF k = 0 THEN rs[1] ELSE mergeBadSectorTelemetryFrom(f[k - 1], rs[k + 1])]
    <2>1. \A k \in 0..size : k # 0 => k \in 1..size
      BY <1>1
    <2> QED
      BY <1>7, <1>8, <2>1
  <1>10. merge = [k \in 0..size |-> IF k = 0 THEN rs[1] ELSE mergeBadSectorTelemetryFrom(merge[k - 1], rs[k + 1])]
    BY <1>9
  <1> HIDE DEF merge
  <1>11. merge[0] = rs[1] /\ \A k \in 1..size : merge[k] = mergeBadSectorTelemetryFrom(merge[k - 1], rs[k + 1])
    <2>1. \A k \in 1..size : k \in 0..size /\ k # 0
      BY <1>1
    <2>2. 0 \in 0..size
      BY <1>1
    <2> QED
      BY <1>10, <2>1, <2>2
  <1> DEFINE S == {k \in 0..size : merge[k] \in T /\ merge[k].bad = t[k + 1]}
  <1>12. 0 \in S
    <2>1. t[1] = t[1 - 1] + rs[1].bad
      BY <1>1, <1>2
    <2>2. rs[1].bad \in Nat
      BY <1>6 DEF T, Tally
    <2> QED
      BY <1>1, <1>2, <1>6, <1>11, <2>1, <2>2
  <1>13. ASSUME NEW k \in 1..size, k - 1 \in S PROVE k \in S
    <2>1. merge[k - 1] \in T /\ merge[k - 1].bad = t[k]
      BY <1>1, <1>13
    <2>2. merge[k] \in T /\ merge[k].bad = merge[k - 1].bad + rs[k + 1].bad
      BY <1>4, <1>11, <2>1
    <2>3. t[k + 1] = t[(k + 1) - 1] + rs[k + 1].bad /\ (k + 1) - 1 = k
      <3>1. k + 1 \in 1..(size + 1) /\ (k + 1) - 1 = k
        BY <1>1
      <3> QED
        BY <1>2, <3>1
    <2> QED
      BY <1>1, <2>1, <2>2, <2>3
  <1> HIDE DEF S
  <1>14. 0..size \subseteq S
    BY <1>1, <1>12, <1>13, AllUpTo
  <1>15. merge[size] \in T /\ merge[size].bad = n
    <2>1. size \in S
      BY <1>1, <1>14
    <2> QED
      BY <1>2, <2>1 DEF S
  <1> QED
    BY <1>15 DEF merge, size, T

----------------------------------------------------------------------------
(* The readers of an operation                                              *)

\* The latest read is one its reader may be trusted with, and every sector
\* that was counted as unread is in the count of exactly one reader.
LatestTrusted ==
    latest # NoRead =>
      /\ latest.by \in DOMAIN readers /\ latest.span \in Spans
      /\ Trusted(readers[latest.by], latest.span.at, latest.span.length, latest.result)
      /\ readers[latest.by].stuck = latest.result.stuck

InputInv ==
    /\ engine \in Lock
    /\ readers \in Seq(Reader) /\ noted \in Seq(Nat)
    /\ \A r \in DOMAIN readers : Tally(readers[r], Range(noted))
    /\ Summed(readers, Len(noted))
    /\ LatestTrusted

\* A reader with the same source and key may be trusted alike.
LEMMA TrustedAlike ==
    ASSUME NEW reader, NEW other, NEW at, NEW length, NEW result, Trusted(reader, at, length, result),
           other.source = reader.source, other.key = reader.key, other.from = reader.from
    PROVE  Trusted(other, at, length, result)
  <1>1. /\ Suits(other) <=> Suits(reader)
        /\ Excuse(other, at, length) <=> Excuse(reader, at, length)
        /\ \A b : Truth(other, b) = Truth(reader, b)
    BY DEF Suits, Excuse, InOrder, Truth
  <1>2. BytesTrusted(other, at, result) <=> BytesTrusted(reader, at, result)
    BY <1>1 DEF BytesTrusted
  <1> QED
    BY <1>1, <1>2 DEF Trusted

\* The sectors of a read
LEMMA SectorsAreNumbers ==
    ASSUME NEW span \in Spans
    PROVE  SectorsRead(span) \in Seq(Nat)
  <1> DEFINE x == span.at + span.length - 1
             first == span.at \div SourceSector
             final == x \div SourceSector
  <1>1. SourceSector \in Nat \ {0} /\ span.at \in Nat /\ span.length \in Nat \ {0}
    BY InputAssumption
  <1>2. x \in Nat /\ span.at <= x
    BY <1>1
  <1> HIDE DEF x
  <1>3. first \in Nat /\ final \in Nat /\ first <= final
    BY <1>1, <1>2, Blocks, BlocksInOrder
  <1>4. SectorsRead(span) = [i \in 1..((final - first) + 1) |-> first + (i - 1)]
    BY DEF SectorsRead, x
  <1> HIDE DEF first, final
  <1>5. (final - first) + 1 \in Nat
    BY <1>3
  <1> DEFINE size == (final - first) + 1
             listed == [i \in 1..size |-> first + (i - 1)]
  <1>6. listed \in [1..size -> Nat]
    BY <1>3
  <1> HIDE DEF size, listed
  <1>7. listed \in Seq(Nat)
    BY <1>5, <1>6 DEF size
  <1> QED
    BY <1>4, <1>7 DEF listed, size

\* What was counted stays counted.
LEMMA CountedStays ==
    ASSUME NEW s \in Seq(Nat), NEW q \in Seq(Nat)
    PROVE  /\ s \o q \in Seq(Nat) /\ Len(s \o q) = Len(s) + Len(q)
           /\ Range(s) \subseteq Range(s \o q) /\ q \in Seq(Range(s \o q)) /\ Range(s \o q) \subseteq Nat
  <1> DEFINE new == s \o q
  <1>1. new \in Seq(Nat)
    OBVIOUS
  <1>2. Follows(new, s, q)
    BY OneAfterAnother, Zenon
  <1> HIDE DEF new
  <1>3. Len(s) \in Nat /\ Len(q) \in Nat /\ DOMAIN s = 1..Len(s) /\ DOMAIN q = 1..Len(q) /\ DOMAIN new = 1..Len(new)
    BY <1>1
  <1>4. \A k \in 1..Len(s) : k \in DOMAIN new /\ new[k] = s[k]
    BY <1>2, <1>3 DEF Follows
  <1>5. \A k \in 1..Len(q) : Len(s) + k \in DOMAIN new /\ new[Len(s) + k] = q[k]
    BY <1>2, <1>3 DEF Follows
  <1>6. Range(s) \subseteq Range(new)
    BY <1>3, <1>4 DEF Range
  <1>7. q \in Seq(Range(new))
    <2>1. \A k \in 1..Len(q) : q[k] \in Range(new)
      BY <1>5 DEF Range
    <2>2. q \in [1..Len(q) -> Range(new)]
      BY <1>3, <2>1
    <2> QED
      BY <1>3, <2>2
  <1>8. Range(new) \subseteq Nat
    <2>1. \A k \in DOMAIN new : new[k] \in Nat
      BY <1>1
    <2> QED
      BY <2>1 DEF Range
  <1> QED
    BY <1>1, <1>2, <1>6, <1>7, <1>8 DEF new, Follows

\* A tally of some sectors is one of more.
LEMMA TallyStays ==
    ASSUME NEW reader, NEW N, NEW M, N \subseteq M, Tally(reader, N)
    PROVE  Tally(reader, M)
  <1>1. reader.samples \in Seq(M)
    BY WiderSequence DEF Tally
  <1> QED
    BY <1>1 DEF Tally

\* What a read leaves of its reader
AfterRead(reader, hung, note, sectors) ==
    LET after == [reader EXCEPT !.stuck = hung]
    IN  IF note THEN noteBadRead(after, sectors) ELSE after

LeftBy(q, reader, N, hung, sectors) ==
    /\ q \in Reader /\ Tally(q, N) /\ q.bad = reader.bad + Len(sectors) /\ q.stuck = hung
    /\ q.source = reader.source /\ q.key = reader.key /\ q.from = reader.from

LEMMA ReaderAfter ==
    ASSUME NEW reader \in Reader, NEW N, N \subseteq Nat, Tally(reader, N), NEW hung \in SUBSET Nat,
           NEW sectors \in Seq(N), NEW note \in BOOLEAN, ~note => sectors = <<>>
    PROVE  LeftBy(AfterRead(reader, hung, note, sectors), reader, N, hung, sectors)
  <1>1. PICK c : c = [reader EXCEPT !.stuck = hung]
    OBVIOUS
  <1>2. /\ c \in Reader /\ c.source = reader.source /\ c.key = reader.key
        /\ c.from = reader.from /\ c.stuck = hung /\ c.bad = reader.bad
        /\ c.samples = reader.samples
    <2>1. PICK source \in DOMAIN Sources, key \in Keys, from \in Nat, stuck \in SUBSET Nat, bad \in Nat,
               samples \in Seq(Nat) :
            reader = [source |-> source, key |-> key, from |-> from, stuck |-> stuck, bad |-> bad,
                      samples |-> samples]
      BY DEF Reader
    <2>2. c = [source |-> source, key |-> key, from |-> from, stuck |-> hung, bad |-> bad, samples |-> samples]
      BY <1>1, <2>1
    <2>3. c \in Reader
      BY <2>2 DEF Reader
    <2> QED
      BY <2>1, <2>2, <2>3
  <1>3. Tally(c, N)
    BY <1>2 DEF Tally
  <1> DEFINE q == AfterRead(reader, hung, note, sectors)
  <1>6. q = IF note THEN noteBadRead(c, sectors) ELSE c
    BY <1>1 DEF AfterRead
  <1> HIDE DEF q
  <1>4. CASE note
    <2> DEFINE n == noteBadRead(c, sectors)
    <2>1. /\ Tally(n, N) /\ n.bad = c.bad + Len(sectors) /\ n \in Reader
          /\ n.source = c.source /\ n.key = c.key /\ n.from = c.from
          /\ n.stuck = c.stuck
      BY <1>2, <1>3, NotingTallies
    <2> HIDE DEF n
    <2>2. q = n
      BY <1>4, <1>6 DEF n
    <2>3. /\ q \in Reader /\ Tally(q, N) /\ q.bad = reader.bad + Len(sectors) /\ q.stuck = hung
          /\ q.source = reader.source /\ q.key = reader.key /\ q.from = reader.from
      BY <1>2, <2>1, <2>2
    <2> QED
      BY <2>3 DEF q, LeftBy
  <1>5. CASE ~note
    <2>1. q = c
      BY <1>5, <1>6
    <2>2. Len(sectors) = 0
      BY <1>5
    <2>3. reader.bad \in Nat
      BY DEF Reader
    <2>4. /\ q \in Reader /\ Tally(q, N) /\ q.bad = reader.bad + Len(sectors) /\ q.stuck = hung
          /\ q.source = reader.source /\ q.key = reader.key /\ q.from = reader.from
      BY <1>2, <1>3, <2>1, <2>2, <2>3
    <2> QED
      BY <2>4 DEF q, LeftBy
  <1> QED
    BY <1>4, <1>5

\* A system reads as it did.
LEMMA TrustedStill ==
    ASSUME platform' = platform, NEW reader, NEW at, NEW length, NEW result, Trusted(reader, at, length, result)
    PROVE  Trusted(reader, at, length, result)'
  <1>1. \A b : Truth(reader, b)' = Truth(reader, b)
    BY DEF Truth, DecryptsHere
  <1>2. BytesTrusted(reader, at, result)
    BY DEF Trusted
  <1>3. BytesTrusted(reader, at, result)'
    BY <1>1, <1>2 DEF BytesTrusted
  <1> QED
    BY <1>3 DEF Trusted

\* No key is a key, and no reader has counted nothing.
LEMMA NoKeyIsOne == NoKey \in Lock /\ NoKey.key = "none" /\ NoKey.from = 0
  BY DEF NoKey, Keys, Lock

LEMMA SummedNone == Summed(<<>>, 0)
  <1> DEFINE t == [k \in 0..0 |-> 0]
  <1>1. t \in [0..0 -> Nat] /\ t[0] = 0 /\ 1..0 = {}
    OBVIOUS
  <1> HIDE DEF t
  <1>2. Len(<<>>) = 0
    OBVIOUS
  <1> QED
    BY <1>1, <1>2 DEF Summed

\* Every action keeps the invariant.
LEMMA InputInit_Inv ==
    ASSUME InputInit
    PROVE  InputInv
  <1>1. engine \in Lock /\ latest = NoRead
    BY NoKeyIsOne DEF InputInit
  <1>2. readers = <<>> /\ noted = <<>>
    BY DEF InputInit
  <1>3. Summed(<<>>, 0)
    BY SummedNone
  <1>4. Len(<<>>) = 0 /\ DOMAIN <<>> = {} /\ <<>> \in Seq(Nat) /\ <<>> \in Seq(Reader)
    OBVIOUS
  <1> QED
    BY <1>1, <1>2, <1>3, <1>4 DEF InputInv, LatestTrusted

\* The readers, the counts and the latest read stay as they are.
LEMMA KeyChanges_Inv ==
    ASSUME InputInv, UNCHANGED <<platform, readers, latest, noted>>, engine' \in Lock
    PROVE  InputInv'
  <1>1. LatestTrusted'
    BY TrustedStill DEF InputInv, LatestTrusted
  <1>2. Summed(readers, Len(noted))'
    BY DEF InputInv, Summed
  <1>3. (\A r \in DOMAIN readers : Tally(readers[r], Range(noted)))'
    BY DEF InputInv, Tally, Range
  <1> QED
    BY <1>1, <1>2, <1>3 DEF InputInv

\* A new operation, with one reader or none, has counted nothing.
LEMMA Fresh_Inv ==
    ASSUME InputInv, UNCHANGED engine, noted' = <<>>, latest' = NoRead,
           readers' = <<>> \/ \E reader \in Reader : reader.bad = 0 /\ reader.samples = <<>> /\ readers' = <<reader>>
    PROVE  InputInv'
  <1>1. LatestTrusted' /\ noted' \in Seq(Nat) /\ Len(noted') = 0 /\ Range(noted') = {}
    BY DEF LatestTrusted, Range
  <1>2. engine' \in Lock
    BY DEF InputInv
  <1>3. CASE readers' = <<>>
    <2>1. Summed(<<>>, 0)
      BY SummedNone
    <2>2. DOMAIN readers' = {} /\ readers' \in Seq(Reader)
      BY <1>3
    <2>3. Summed(readers', Len(noted'))
      BY <1>1, <1>3, <2>1
    <2>4. \A r \in DOMAIN readers' : Tally(readers'[r], Range(noted'))
      BY <2>2
    <2> QED
      BY <1>1, <1>2, <2>2, <2>3, <2>4 DEF InputInv, Summed, Tally, Range
  <1>4. ASSUME NEW reader \in Reader, reader.bad = 0, reader.samples = <<>>, readers' = <<reader>>
        PROVE  InputInv'
    <2>1. Summed(<<reader>>, 0)
      BY <1>4, SummedOne
    <2>2. readers' \in Seq(Reader) /\ DOMAIN readers' = {1} /\ readers'[1] = reader
      BY <1>4
    <2>3. Tally(reader, {})
      <3>1. MaxSamples \in Nat
        BY InputAssumption
      <3>2. <<>> \in Seq({}) /\ Len(<<>>) = 0
        OBVIOUS
      <3> QED
        BY <1>4, <3>1, <3>2 DEF Tally
    <2>4. Summed(readers', Len(noted'))
      BY <1>1, <1>4, <2>1
    <2>5. \A r \in DOMAIN readers' : Tally(readers'[r], Range(noted'))
      BY <1>1, <2>2, <2>3
    <2> QED
      BY <1>1, <1>2, <2>2, <2>4, <2>5 DEF InputInv, Summed, Tally, Range
  <1> QED
    BY <1>3, <1>4


LEMMA KeyActions_Inv ==
    ASSUME InputInv, SetFvek \/ \E name \in DOMAIN Sources : Unlock(name)
    PROVE  InputInv'
  <1>1. engine \in Lock
    BY DEF InputInv
  <1>2. \A name \in DOMAIN Sources : Sources[name].lock \in Lock
    <2> TAKE name \in DOMAIN Sources
    <2>1. Sources[name].lock \in [key : STRING, from : Nat]
      BY InputAssumption DEF InputSource
    <2>2. Sources[name].lock.key \in Keys
      BY DEF Keys
    <2> QED
      BY <2>1, <2>2 DEF Lock
  <1>3. CASE SetFvek
    <2>1. UNCHANGED <<platform, readers, latest, noted>>
      BY <1>3 DEF SetFvek
    <2>2. \/ engine' = NoKey
          \/ \E name \in DOMAIN Sources : engine' = [engine EXCEPT !.key = Sources[name].lock.key]
      BY <1>3 DEF SetFvek
    <2>4. engine' \in Lock
      BY <1>1, <1>2, <2>2, NoKeyIsOne DEF Lock
    <2> QED
      BY <2>1, <2>4, KeyChanges_Inv
  <1>4. ASSUME NEW name \in DOMAIN Sources, Unlock(name) PROVE InputInv'
    <2>1. UNCHANGED <<platform, readers, latest, noted>>
      BY <1>4 DEF Unlock
    <2>2. engine' = IF Sources[name].lock.from > 0 THEN Sources[name].lock
                    ELSE [engine EXCEPT !.key = Sources[name].lock.key]
      BY <1>4 DEF Unlock
    <2>3. engine' \in Lock
      BY <1>1, <1>2, <2>2 DEF Lock
    <2> QED
      BY <2>1, <2>3, KeyChanges_Inv
  <1> QED
    BY <1>3, <1>4

LEMMA OperationEnds_Inv ==
    ASSUME InputInv, Release \/ \E name \in DOMAIN Sources, use \in {"scan", "image"} : Bind(name, use)
    PROVE  InputInv'
  <1>1. CASE Release
    BY <1>1, Fresh_Inv DEF Release
  <1>2. ASSUME NEW name \in DOMAIN Sources, NEW use \in {"scan", "image"}, Bind(name, use) PROVE InputInv'
    <2> DEFINE clear == use = "image" /\ Sources[name].kind # "raid"
               own == IF clear THEN NoKey ELSE engine
               reader == [source |-> name, key |-> own.key, from |-> own.from, stuck |-> {},
                          bad |-> 0, samples |-> <<>>]
    <2>1. readers' = <<reader>> /\ noted' = <<>> /\ latest' = NoRead /\ UNCHANGED engine
      BY <1>2 DEF Bind
    <2>2. own.key \in Keys /\ own.from \in Nat
      BY NoKeyIsOne DEF InputInv, Lock
    <2> HIDE DEF own
    <2>3. reader \in Reader /\ reader.bad = 0 /\ reader.samples = <<>>
      <3>1. <<>> \in Seq(Nat)
        OBVIOUS
      <3> QED
        BY <2>2, <3>1 DEF Reader
    <2> HIDE DEF reader
    <2> QED
      BY <2>1, <2>3, Fresh_Inv
  <1> QED
    BY <1>1, <1>2

LEMMA Spawn_Inv ==
    ASSUME InputInv, Spawn
    PROVE  InputInv'
  <1> DEFINE clones == [w \in 1..NWorkers |-> clone(readers[1])]
             N == Range(noted)
  <1>1. /\ readers \in Seq(Reader) /\ noted \in Seq(Nat) /\ Len(readers) = 1 /\ Summed(readers, Len(noted))
        /\ readers' = readers \o clones /\ UNCHANGED <<platform, engine, latest, noted>>
        /\ engine \in Lock
    BY DEF InputInv, Spawn
  <1>2. readers[1] \in Reader
    <2>1. DOMAIN readers = 1..Len(readers) /\ \A r \in DOMAIN readers : readers[r] \in Reader
      BY DEF InputInv
    <2>2. 1 \in 1..Len(readers)
      BY <1>1
    <2> QED
      BY <2>1, <2>2
  <1>3. clone(readers[1]) \in Reader /\ clone(readers[1]).bad = 0 /\ clone(readers[1]).samples = <<>>
    <2>1. PICK source \in DOMAIN Sources, key \in Keys, from \in Nat, stuck \in SUBSET Nat, bad \in Nat,
               samples \in Seq(Nat) :
            readers[1] = [source |-> source, key |-> key, from |-> from, stuck |-> stuck, bad |-> bad,
                          samples |-> samples]
      BY <1>2 DEF Reader
    <2>2. PICK c \in Reader, none \in SUBSET Nat, zero \in Nat : c = readers[1] /\ none = {} /\ zero = 0
      BY <1>2
    <2> DEFINE unstuck == [c EXCEPT !.stuck = none]
               uncounted == [unstuck EXCEPT !.bad = zero]
    <2>3. clone(c) = [uncounted EXCEPT !.samples = <<>>]
      BY <2>2 DEF clone
    <2>4. c = [source |-> source, key |-> key, from |-> from, stuck |-> stuck, bad |-> bad, samples |-> samples]
      BY <2>2, <2>1
    <2>5. unstuck = [source |-> source, key |-> key, from |-> from, stuck |-> none, bad |-> bad, samples |-> samples]
      BY <2>4
    <2> HIDE DEF unstuck
    <2>6. uncounted = [source |-> source, key |-> key, from |-> from, stuck |-> none, bad |-> zero, samples |-> samples]
      BY <2>5
    <2> HIDE DEF uncounted
    <2>7. clone(c) = [source |-> source, key |-> key, from |-> from, stuck |-> none, bad |-> zero, samples |-> <<>>]
      BY <2>3, <2>6
    <2>8. <<>> \in Seq(Nat) /\ 0 \in Nat
      OBVIOUS
    <2>9. clone(c) \in Reader
      BY <2>7, <2>8 DEF Reader
    <2> QED
      BY <2>2, <2>7, <2>9
  <1>4. clones \in Seq(Reader) /\ Len(clones) = NWorkers
    <2>1. NWorkers \in Nat
      BY InputAssumption
    <2>2. clones \in [1..NWorkers -> Reader]
      BY <1>3
    <2> HIDE DEF clones
    <2> QED
      BY <2>1, <2>2
  <1>5. \A w \in 1..Len(clones) : clones[w].bad = 0 /\ clones[w].samples = <<>>
    BY <1>3, <1>4
  <1> HIDE DEF clones
  <1>6. Summed(readers', Len(noted)')
    <2>1. Len(noted) \in Nat
      BY <1>1
    <2>2. Summed(readers \o clones, Len(noted))
      BY <1>1, <1>4, <1>5, <2>1, SummedSpawn
    <2> QED
      BY <1>1, <2>2
  <1> DEFINE new == readers \o clones
  <1>7. Follows(new, readers, clones) /\ new \in Seq(Reader)
    BY <1>1, <1>4, OneAfterAnother, Zenon
  <1> HIDE DEF new
  <1>8. DOMAIN new = 1..Len(new) /\ Len(new) = Len(readers) + Len(clones)
    BY <1>7 DEF Follows
  <1>9. ASSUME NEW k \in 1..Len(readers) PROVE k \in DOMAIN new /\ k \in DOMAIN readers /\ new[k] = readers[k]
    <2>1. Len(clones) \in Nat /\ Len(readers) \in Nat /\ DOMAIN readers = 1..Len(readers)
      BY <1>1, <1>4
    <2> QED
      BY <1>7, <1>8, <2>1 DEF Follows
  <1>10. ASSUME NEW k \in DOMAIN new PROVE Tally(new[k], N)
    <2>1. Len(clones) \in Nat /\ Len(readers) = 1 /\ DOMAIN readers = 1..Len(readers)
      BY <1>1, <1>4
    <2>2. CASE k \in 1..Len(readers)
      BY <1>9, <2>1, <2>2 DEF InputInv
    <2>3. CASE k \notin 1..Len(readers)
      <3>1. k - 1 \in 1..Len(clones) /\ Len(readers) + (k - 1) = k
        BY <1>8, <2>1, <2>3
      <3>2. new[k] = clones[k - 1]
        BY <1>7, <3>1 DEF Follows
      <3>3. new[k].bad = 0 /\ new[k].samples = <<>>
        BY <1>5, <3>1, <3>2
      <3>4. MaxSamples \in Nat /\ <<>> \in Seq(N) /\ Len(<<>>) = 0
        BY InputAssumption
      <3> QED
        BY <3>3, <3>4 DEF Tally
    <2> QED
      BY <2>2, <2>3
  <1>11. ASSUME latest # NoRead
         PROVE  /\ latest.by \in DOMAIN new /\ latest.span \in Spans
                /\ Trusted(new[latest.by], latest.span.at, latest.span.length, latest.result)
                /\ new[latest.by].stuck = latest.result.stuck
    <2>1. /\ latest.by \in DOMAIN readers /\ latest.span \in Spans
          /\ Trusted(readers[latest.by], latest.span.at, latest.span.length, latest.result)
          /\ readers[latest.by].stuck = latest.result.stuck
      BY <1>11 DEF InputInv, LatestTrusted
    <2>2. DOMAIN readers = 1..Len(readers)
      BY <1>1
    <2>3. latest.by \in DOMAIN new /\ new[latest.by] = readers[latest.by]
      BY <1>9, <2>1, <2>2
    <2> QED
      BY <2>1, <2>3
  <1>12. readers' = new
    BY <1>1 DEF new
  <1>13. LatestTrusted'
    BY <1>1, <1>11, <1>12, TrustedStill DEF LatestTrusted
  <1>14. (\A r \in DOMAIN readers : Tally(readers[r], Range(noted)))'
    BY <1>1, <1>10, <1>12 DEF Tally, Range
  <1>15. Summed(readers, Len(noted))'
    BY <1>6 DEF Summed
  <1> QED
    BY <1>1, <1>7, <1>12, <1>13, <1>14, <1>15 DEF InputInv

LEMMA ReadSpan_Inv ==
    ASSUME InputInv, NEW r \in DOMAIN readers, NEW span \in Spans, ReadSpan(r, span)
    PROVE  InputInv'
  <1>1. /\ readers \in Seq(Reader) /\ noted \in Seq(Nat) /\ engine \in Lock /\ Summed(readers, Len(noted))
        /\ \A k \in DOMAIN readers : Tally(readers[k], Range(noted))
    BY DEF InputInv
  <1>2. UNCHANGED <<platform, engine>>
    BY DEF ReadSpan
  <1>3. PICK result \in readBytes(readers[r], span) :
          LET sectors == IF result.note THEN SectorsRead(span) ELSE <<>>
              after == [readers[r] EXCEPT !.stuck = result.stuck]
          IN  /\ readers' = [readers EXCEPT ![r] = IF result.note THEN noteBadRead(after, sectors) ELSE after]
              /\ latest' = [by |-> r, span |-> span, result |-> result]
              /\ noted' = noted \o sectors
    BY DEF ReadSpan
  <1> DEFINE sectors == IF result.note THEN SectorsRead(span) ELSE <<>>
             after == [readers[r] EXCEPT !.stuck = result.stuck]
             q == IF result.note THEN noteBadRead(after, sectors) ELSE after
             N == Range(noted \o sectors)
  <1>4. readers[r] \in Reader /\ DOMAIN readers = 1..Len(readers) /\ Len(readers) \in Nat
    BY <1>1
  <1>5. Trusted(readers[r], span.at, span.length, result)
    BY <1>4, ReadsAreTrusted
  <1>6. result.stuck \in SUBSET Nat /\ result.note \in BOOLEAN
    BY <1>5 DEF Trusted
  <1>7. sectors \in Seq(Nat) /\ (~result.note => sectors = <<>>)
    <2>1. <<>> \in Seq(Nat) /\ SectorsRead(span) \in Seq(Nat)
      BY SectorsAreNumbers
    <2> QED
      BY <2>1
  <1>8. /\ noted' = noted \o sectors /\ readers' = [readers EXCEPT ![r] = q]
        /\ latest' = [by |-> r, span |-> span, result |-> result]
    BY <1>3
  <1>9. /\ noted \o sectors \in Seq(Nat) /\ Len(noted \o sectors) = Len(noted) + Len(sectors)
        /\ Range(noted) \subseteq N /\ sectors \in Seq(N) /\ N \subseteq Nat
    <2> HIDE DEF sectors
    <2> QED
      BY <1>1, <1>7, CountedStays
  <1>10. \A k \in DOMAIN readers : Tally(readers[k], N)
    <2> HIDE DEF N
    <2> QED
      BY <1>1, <1>9, TallyStays
  <1>11. /\ q \in Reader /\ Tally(q, N) /\ q.bad = readers[r].bad + Len(sectors) /\ q.stuck = result.stuck
         /\ q.source = readers[r].source /\ q.key = readers[r].key /\ q.from = readers[r].from
    <2>1. Tally(readers[r], N)
      BY <1>10
    <2>2. PICK note \in BOOLEAN : note <=> result.note
      BY <1>6
    <2> DEFINE given == AfterRead(readers[r], result.stuck, note, sectors)
    <2>3. q = given
      BY <2>2 DEF AfterRead
    <2>4. ~note => sectors = <<>>
      BY <1>7, <2>2
    <2> HIDE DEF sectors, N, q
    <2>5. LeftBy(given, readers[r], N, result.stuck, sectors)
      BY <1>4, <1>6, <1>9, <2>1, <2>4, ReaderAfter
    <2> HIDE DEF given
    <2> QED
      BY <2>3, <2>5 DEF LeftBy
  <1> HIDE DEF q, sectors
  <1>12. Len(sectors) \in Nat /\ Len(noted) \in Nat
    BY <1>1, <1>7
  <1>13. Summed(readers', Len(noted'))
    <2>1. Summed([readers EXCEPT ![r] = q], Len(noted) + Len(sectors))
      BY <1>1, <1>4, <1>11, <1>12, SummedRead
    <2> QED
      BY <1>8, <1>9, <2>1
  <1>14. readers' \in Seq(Reader) /\ DOMAIN readers' = DOMAIN readers
         /\ \A k \in DOMAIN readers : readers'[k] = IF k = r THEN q ELSE readers[k]
    BY <1>1, <1>8, <1>11
  <1>15. \A k \in DOMAIN readers' : Tally(readers'[k], Range(noted'))
    BY <1>8, <1>10, <1>11, <1>14
  <1>16. LatestTrusted'
    <2>1. PICK v : v = q
      OBVIOUS
    <2>2. Trusted(v, span.at, span.length, result)
      BY <1>5, <1>11, <2>1, TrustedAlike
    <2>3. Trusted(v, span.at, span.length, result)'
      BY <1>2, <2>2, TrustedStill
    <2>4. readers'[r] = v /\ v.stuck = result.stuck /\ r \in DOMAIN readers'
      BY <1>11, <1>14, <2>1
    <2>5. latest'.by = r /\ latest'.span = span /\ latest'.result = result
      BY <1>8
    <2> QED
      BY <2>3, <2>4, <2>5 DEF LatestTrusted
  <1> QED
    BY <1>1, <1>2, <1>8, <1>9, <1>13, <1>14, <1>15, <1>16 DEF InputInv, Summed, Tally, Range

LEMMA Join_Inv ==
    ASSUME InputInv, Join
    PROVE  InputInv'
  <1> DEFINE N == Range(noted)
             merge[k \in 0..(Len(readers) - 1)] ==
                IF k = 0 THEN readers[1] ELSE mergeBadSectorTelemetryFrom(merge[k - 1], readers[k + 1])
             all == merge[Len(readers) - 1]
  <1>1. /\ readers \in Seq(Reader) /\ noted \in Seq(Nat) /\ engine \in Lock /\ Summed(readers, Len(noted))
        /\ \A k \in DOMAIN readers : Tally(readers[k], N)
    BY DEF InputInv
  <1>2. Len(readers) > 1 /\ readers' = <<all>> /\ latest' = NoRead /\ UNCHANGED <<platform, engine, noted>>
    BY DEF Join
  <1>3. N \subseteq Nat /\ Len(noted) \in Nat
    BY <1>1 DEF Range
  <1>4. all \in Reader /\ Tally(all, N) /\ all.bad = Len(noted)
    <2> HIDE DEF N
    <2>1. Len(readers) > 0
      BY <1>2
    <2> QED
      BY <1>1, <1>3, <2>1, MergedTally
  <1> HIDE DEF all
  <1>5. Summed(<<all>>, Len(noted))
    BY <1>3, <1>4, SummedOne
  <1>6. readers' \in Seq(Reader) /\ DOMAIN readers' = {1} /\ readers'[1] = all
    BY <1>2, <1>4
  <1>7. Summed(readers', Len(noted'))
    BY <1>2, <1>5
  <1>8. \A k \in DOMAIN readers' : Tally(readers'[k], Range(noted'))
    BY <1>2, <1>4, <1>6
  <1>9. LatestTrusted'
    BY <1>2 DEF LatestTrusted
  <1> QED
    BY <1>1, <1>2, <1>6, <1>7, <1>8, <1>9 DEF InputInv, Summed, Tally, Range

LEMMA InputInv_Invariant == InputSpec => []InputInv
  <1>1. InputInit => InputInv
    BY InputInit_Inv
  <1>2. InputInv /\ [InputNext]_inputVars => InputInv'
    <2> SUFFICES ASSUME InputInv, [InputNext]_inputVars PROVE InputInv'
      OBVIOUS
    <2>1. CASE SetFvek \/ \E name \in DOMAIN Sources : Unlock(name)
      BY <2>1, KeyActions_Inv
    <2>2. CASE Release \/ \E name \in DOMAIN Sources, use \in {"scan", "image"} : Bind(name, use)
      BY <2>2, OperationEnds_Inv
    <2>3. CASE Spawn
      BY <2>3, Spawn_Inv
    <2>4. CASE Join
      BY <2>4, Join_Inv
    <2>5. CASE \E r \in DOMAIN readers, span \in Spans : ReadSpan(r, span)
      BY <2>5, ReadSpan_Inv
    <2>6. CASE UNCHANGED inputVars
      <3>1. UNCHANGED <<platform, engine, readers, latest, noted>>
        BY <2>6 DEF inputVars
      <3>2. engine' \in Lock
        BY <3>1 DEF InputInv
      <3> QED
        BY <3>1, <3>2, KeyChanges_Inv
    <2> QED
      BY <2>1, <2>2, <2>3, <2>4, <2>5, <2>6 DEF InputNext
  <1> QED
    BY <1>1, <1>2, PTL DEF InputSpec

\* What may be relied on of a reply is what InputIsTrue says of it.
LEMMA TrustedIsTrue ==
    ASSUME InputInv
    PROVE  InputIsTrue
  <1>1. UnreadIsCounted
    <2> SUFFICES ASSUME Len(readers) = 1
                 PROVE  /\ readers[1].bad = Len(noted)
                        /\ Len(readers[1].samples) <= MaxSamples
                        /\ Range(readers[1].samples) \subseteq Range(noted)
                        /\ Len(noted) <= MaxSamples => Len(readers[1].samples) = Len(noted)
      BY DEF UnreadIsCounted
    <2>1. 1 \in DOMAIN readers
      <3>1. DOMAIN readers = 1..Len(readers)
        BY DEF InputInv
      <3> QED
        BY <3>1
    <2>2. Tally(readers[1], Range(noted))
      BY <2>1 DEF InputInv
    <2>3. readers[1].bad = Len(noted)
      <3>1. PICK t \in [0..1 -> Nat] : t[0] = 0 /\ t[1] = Len(noted)
                                       /\ \A k \in 1..1 : t[k] = t[k - 1] + readers[k].bad
        BY DEF InputInv, Summed
      <3>2. t[1] = t[1 - 1] + readers[1].bad
        BY <3>1
      <3>3. readers[1].bad \in Nat
        BY <2>2 DEF Tally
      <3> QED
        BY <3>1, <3>2, <3>3
    <2>4. Range(readers[1].samples) \subseteq Range(noted)
      <3> DEFINE s == readers[1].samples
                 N == Range(noted)
      <3>1. s \in Seq(N)
        BY <2>2 DEF Tally
      <3> HIDE DEF s, N
      <3>2. \A k \in DOMAIN s : s[k] \in N
        BY <3>1
      <3>3. Range(s) \subseteq N
        BY <3>2 DEF Range
      <3> QED
        BY <3>3 DEF s, N
    <2> QED
      BY <2>2, <2>3, <2>4 DEF Tally
  <1>2. ASSUME latest # NoRead
        PROVE  LET reader == readers[latest.by]
                   result == latest.result
                   at == latest.span.at
                   length == latest.span.length
               IN  /\ Trusted(reader, at, length, result) /\ reader.stuck = result.stuck
                   /\ reader \in Reader /\ at \in Nat /\ length \in Nat \ {0}
    <2>1. /\ latest.by \in DOMAIN readers /\ latest.span \in Spans
          /\ Trusted(readers[latest.by], latest.span.at, latest.span.length, latest.result)
          /\ readers[latest.by].stuck = latest.result.stuck
      BY <1>2 DEF InputInv, LatestTrusted
    <2>2. readers[latest.by] \in Reader
      BY <2>1 DEF InputInv
    <2> QED
      BY <2>1, <2>2, InputAssumption
  <1>3. ReadsAreWhole
    <2> SUFFICES ASSUME latest # NoRead PROVE ReadsAreWhole
      BY DEF ReadsAreWhole
    <2>1. Trusted(readers[latest.by], latest.span.at, latest.span.length, latest.result)
      BY <1>2
    <2>2. BytesTrusted(readers[latest.by], latest.span.at, latest.result)
      BY <2>1 DEF Trusted
    <2>3. latest.result.success => \/ latest.result.got > 0 \/ latest.result.padded
                                   \/ Sources[readers[latest.by].source].kind \in {"drive", "volume"}
      BY <2>1 DEF Trusted
    <2> QED
      BY <2>2, <2>3 DEF ReadsAreWhole, BytesTrusted, Suits, Truth
  <1>4. FailsForAReason
    <2> DEFINE reader == readers[latest.by]
               src == Sources[reader.source]
               at == latest.span.at
               length == latest.span.length
    <2> SUFFICES ASSUME latest # NoRead, src.kind \notin {"drive", "volume", "http"}, ~latest.result.success,
                        SectorsIn(at, length) \cap src.bad = {}
                 PROVE  reader.stuck # {} \/ \E s \in SectorsIn(at, length) : s * SourceSector >= SizeOf(src)
      BY DEF FailsForAReason
    <2>1. /\ Trusted(reader, at, length, latest.result) /\ reader.stuck = latest.result.stuck
          /\ reader \in Reader /\ at \in Nat /\ length \in Nat \ {0}
      BY <1>2
    <2>2. InputSource(src)
      BY <2>1, ReaderFacts
    <2>3. reader.stuck # {} \/ Excuse(reader, at, length)
      BY <2>1 DEF Trusted
    <2>4. CASE Excuse(reader, at, length)
      <3>1. at + length > SizeOf(src)
        BY <2>4 DEF Excuse, InOrder
      <3> QED
        BY <2>1, <2>2, <3>1, BeyondTheEnd
    <2> QED
      BY <2>3, <2>4
  <1> QED
    BY <1>1, <1>3, <1>4 DEF InputIsTrue

\* Whatever is read, with whichever key, through however many clones: a read
\* that counts as complete has the bytes of the source, one that fails has a
\* reason, and every sector that did not read is counted once.
THEOREM InputsAreTrue == InputSpec => []InputIsTrue
  BY InputInv_Invariant, TrustedIsTrue, PTL
=============================================================================
