----------------------------- MODULE ScanSession -----------------------------
(***************************************************************************)
(* The life of one scan across stops, resumes and process deaths: the      *)
(* scan thread (ScanCoordinator::scanWorker with its metadata and carve    *)
(* phases), the callbacks of the bridge that buffer its records and report *)
(* its progress (StartScan), the flush that ends it (flushScanToDb), and   *)
(* the scan's row and files in the metadata store.                         *)
(*                                                                         *)
(* A disk is NMeta metadata records followed by NCarve carve positions of  *)
(* one record each; sectors are counted in the same unit.  The carve phase *)
(* is the sequential one; ParallelCarve models the other.  Store updates   *)
(* other than a batch of records are taken to succeed.                     *)
(***************************************************************************)
EXTENDS Naturals, Sequences, FiniteSets

CONSTANTS
    Kinds,       \* scan types considered, of "quick", "deep", "carve_only"
    NMeta, NCarve,
    RangeEnds,   \* carve positions at which a carve range ends
    BufferCap,   \* records buffered before a batch is written (500)
    NRuns        \* bound: times the scan is started or resumed

ASSUME SessionAssumption ==
    /\ Kinds \subseteq {"quick", "deep", "carve_only"}
    /\ NMeta \in Nat \ {0} /\ NCarve \in Nat \ {0}
    /\ RangeEnds \subseteq 1..NCarve /\ NCarve \in RangeEnds
    /\ BufferCap \in Nat \ {0} /\ NRuns \in Nat

Total == NMeta + NCarve
Records == 1..Total            \* metadata records, then carve positions
Carved(p) == NMeta + p         \* the record of a carve position

VARIABLES
    row,          \* the scan's row
    stored,       \* rows of each record in the files table
    pc,           \* the scan thread; "idle" when none runs, "down" when no process
    isRunning,
    kind, resume, \* scanType and the row as a resume found it
    found,        \* metadata records this run has met
    pos, rangeEnd, \* carvedSectors plus the chunks of the open range; its end
    last,         \* MonotonicMeter of the whole scan
    buffer, dbFlushFailed, lastScannedSectors, status,
    runs,
    seen,         \* records met by any run    } observations,
    died          \* a process died on the scan } not state of the code

context == <<buffer, dbFlushFailed, lastScannedSectors>>
thread  == <<kind, resume, found, pos, rangeEnd, last, status>>
\* What a progress report leaves alone, whatever the loop position
reportFrame == <<stored, kind, resume, found, buffer, dbFlushFailed, runs, seen, died>>
vars == <<row, stored, pc, isRunning, thread, context, runs, seen, died>>

\* The row of a scan; its status is "running", "complete", "stopped", "failed" or
\* "paused", and its total the disk's once a progress was written
NoRow == [status |-> "none", scanned |-> 0, total |-> 0,
          metadataComplete |-> FALSE, carveResumeSector |-> 0]

Init ==
    /\ row = NoRow /\ stored = [r \in Records |-> 0]
    /\ pc = "idle" /\ isRunning = FALSE
    /\ kind \in Kinds /\ resume = NoRow
    /\ found = 0 /\ pos = 0 /\ rangeEnd = 0 /\ last = 0
    /\ buffer = <<>> /\ dbFlushFailed = FALSE /\ lastScannedSectors = 0
    /\ status = "failed" /\ runs = 0 /\ seen = {} /\ died = FALSE

----------------------------------------------------------------------------
(* The callbacks of the bridge                                             *)

\* insertFilesBatch is one transaction; a failed one leaves the buffer as it is.
Count(r, b) == Cardinality({i \in DOMAIN b : b[i] = r})
Inserted(b) == stored' = [r \in Records |-> stored[r] + Count(r, b)]

\* flushFileBufferLocked during the scan, whose failure stops it
Flush(b) ==
    \/ Inserted(b) /\ buffer' = <<>> /\ UNCHANGED <<dbFlushFailed, isRunning>>
    \/ /\ b # <<>> /\ dbFlushFailed' = TRUE /\ isRunning' = FALSE /\ buffer' = b
       /\ UNCHANGED stored

\* onFileFound; callbackWrapper drops a record met after a stop.
FileFound(r) ==
    IF ~isRunning
    THEN UNCHANGED <<stored, context, isRunning, seen>>
    ELSE LET b == Append(buffer, r)
         IN  /\ IF Len(b) >= BufferCap THEN Flush(b)
                ELSE buffer' = b /\ UNCHANGED <<stored, dbFlushFailed, isRunning>>
             /\ seen' = seen \cup {r} /\ UNCHANGED lastScannedSectors

\* What a progress report may leave in the row: the first sets total_sectors;
\* scanned_sectors follows now and then (500 ms) and always at the end, and in
\* the metadata phase the checkpoint may be put back with it.
Reported(r, t, metadataPhase) ==
    LET rt == [r EXCEPT !.total = Total]
        rs == [rt EXCEPT !.scanned = t]
        rm == [rs EXCEPT !.metadataComplete = FALSE, !.carveResumeSector = 0]
    IN  (IF t = Total THEN {rs} ELSE {rt, rs}) \cup (IF metadataPhase THEN {rm} ELSE {})

Meter(p) == IF p < last THEN last ELSE p

\* A resumed scan never reports less than the row it found.
MeterStart == resume'.scanned

Progress(p, metadataPhase) ==
    /\ last' = Meter(p) /\ lastScannedSectors' = Meter(p)
    /\ row' \in Reported(row, Meter(p), metadataPhase)

----------------------------------------------------------------------------
(* StartScan                                                               *)

Launch ==
    /\ runs < NRuns /\ runs' = runs + 1
    /\ pc' = IF kind = "carve_only" \/ resume'.metadataComplete THEN "carve" ELSE "meta"
    /\ isRunning' = TRUE
    /\ found' = 0 /\ pos' = 0 /\ rangeEnd' = 0 /\ last' = MeterStart /\ status' = "failed"
    /\ buffer' = <<>> /\ dbFlushFailed' = FALSE /\ lastScannedSectors' = 0
    /\ UNCHANGED <<stored, kind, seen, died>>

StartNew ==
    /\ pc = "idle" /\ row.status = "none"
    /\ row' = [NoRow EXCEPT !.status = "running"] /\ resume' = NoRow
    /\ Launch

\* Only a paused scan is, and a quick one never.
Resumable(r) == r.status = "paused" /\ kind # "quick"

Resume ==
    /\ pc = "idle" /\ Resumable(row)
    /\ row' = [row EXCEPT !.status = "running"] /\ resume' = row
    /\ Launch

----------------------------------------------------------------------------
(* The metadata phase: runQuickScan, by itself or inside a deep scan       *)

MetaShare == IF kind = "quick" THEN Total ELSE NMeta
MetaMapped(n) == IF n < MetaShare THEN n ELSE MetaShare - 1

FindMetadata ==
    /\ pc = "meta" /\ isRunning /\ found < NMeta
    /\ found' = found + 1 /\ FileFound(found + 1)
    /\ pc' = "metaTick"
    /\ UNCHANGED <<row, kind, resume, pos, rangeEnd, last, status, runs, died>>

MetadataTick ==
    /\ pc = "metaTick" /\ pc' = "meta"
    /\ Progress(MetaMapped(found), TRUE)
    /\ UNCHANGED <<reportFrame, isRunning, pos, rangeEnd, status>>

\* Mutant: the phase counts as done also after a stop.
EndMetadataAnyway ==
    /\ pc = "meta" /\ (~isRunning \/ found = NMeta)
    /\ pc' = IF kind = "quick" THEN "last" ELSE "metaDone"
    /\ UNCHANGED <<row, stored, isRunning, thread, context, runs, seen, died>>

\* The phase ends; a deep scan that was stopped goes no further.
EndMetadata ==
    /\ pc = "meta" /\ (~isRunning \/ found = NMeta)
    /\ pc' = IF kind = "quick" \/ ~isRunning THEN "last" ELSE "metaDone"
    /\ UNCHANGED <<row, stored, isRunning, thread, context, runs, seen, died>>

CheckpointMetadata ==
    /\ pc = "metaDone" /\ pc' = "metaEnd"
    /\ row' = [row EXCEPT !.metadataComplete = TRUE, !.carveResumeSector = 0]
    /\ UNCHANGED <<stored, isRunning, thread, context, runs, seen, died>>

\* The phase name is still "metadata": this report may undo the checkpoint.
ReportMetadata ==
    /\ pc = "metaEnd" /\ pc' = "carve"
    /\ Progress(NMeta, TRUE)
    /\ UNCHANGED <<reportFrame, isRunning, pos, rangeEnd, status>>

----------------------------------------------------------------------------
(* The carve phase                                                         *)

RangeEnd(p) == CHOOSE e \in RangeEnds : e > p /\ \A f \in RangeEnds : f > p => e <= f
CarveMapped(p) == IF kind = "carve_only" THEN (p * Total) \div NCarve ELSE NMeta + p

\* carveProgress: the report, then the checkpoint
CarveProgress(p) ==
    /\ last' = Meter(CarveMapped(p)) /\ lastScannedSectors' = Meter(CarveMapped(p))
    /\ row' \in {[r EXCEPT !.metadataComplete = TRUE, !.carveResumeSector = p] :
                   r \in Reported(row, Meter(CarveMapped(p)), FALSE)}

\* A range below the checkpoint is passed over.
SkipRange ==
    /\ pc = "carve" /\ isRunning /\ pos < NCarve
    /\ RangeEnd(pos) <= resume.carveResumeSector
    /\ pos' = RangeEnd(pos) /\ CarveProgress(RangeEnd(pos))
    /\ UNCHANGED <<reportFrame, pc, isRunning, rangeEnd, status>>

\* A range is entered at its start, or at the checkpoint if that lies inside.
EnterRange ==
    /\ pc = "carve" /\ isRunning /\ pos < NCarve
    /\ RangeEnd(pos) > resume.carveResumeSector
    /\ rangeEnd' = RangeEnd(pos) /\ pc' = "chunk"
    /\ pos' = IF pos < resume.carveResumeSector THEN resume.carveResumeSector ELSE pos
    /\ UNCHANGED <<row, stored, isRunning, kind, resume, found, last, status, context,
                   runs, seen, died>>

CarveChunk ==
    /\ pc = "chunk" /\ isRunning /\ pos < rangeEnd
    /\ pos' = pos + 1 /\ pc' = "chunkFound"
    /\ UNCHANGED <<row, stored, isRunning, kind, resume, found, rangeEnd, last, status,
                   context, runs, seen, died>>

DeliverChunk ==
    /\ pc = "chunkFound" /\ FileFound(Carved(pos)) /\ pc' = "chunkTick"
    /\ UNCHANGED <<row, thread, runs, died>>

CarveTick ==
    /\ pc = "chunkTick" /\ CarveProgress(pos) /\ pc' = "chunk"
    /\ UNCHANGED <<reportFrame, isRunning, pos, rangeEnd, status>>

\* Mutant: a stop inside a range is not noticed.
LeaveRangeAtEnd ==
    /\ pc = "chunk" /\ pos = rangeEnd
    /\ pos' = rangeEnd /\ CarveProgress(rangeEnd) /\ pc' = "carve"
    /\ UNCHANGED <<reportFrame, isRunning, rangeEnd, status>>

\* A stop inside a range is reported as the end of the range.
LeaveRange ==
    /\ pc = "chunk" /\ (~isRunning \/ pos = rangeEnd)
    /\ pos' = rangeEnd /\ CarveProgress(rangeEnd) /\ pc' = "carve"
    /\ UNCHANGED <<reportFrame, isRunning, rangeEnd, status>>

LeaveCarve ==
    /\ pc = "carve" /\ (~isRunning \/ pos = NCarve)
    /\ pc' = "carveEnd"
    /\ UNCHANGED <<row, stored, isRunning, thread, context, runs, seen, died>>

\* The phase reports the whole disk, stopped or not.
ReportCarve ==
    /\ pc = "carveEnd" /\ pc' = "last"
    /\ Progress(Total, FALSE)
    /\ UNCHANGED <<reportFrame, isRunning, pos, rangeEnd, status>>

----------------------------------------------------------------------------
(* The end of a run                                                        *)

\* scanWorker decides the status; a complete scan reports the total once more.
DecideStatus ==
    /\ pc = "last" /\ pc' = "flush"
    /\ IF isRunning
       THEN /\ status' = "complete"
            /\ Progress(Total, kind = "quick")
       ELSE status' = "stopped" /\ UNCHANGED <<last, lastScannedSectors, row>>
    /\ UNCHANGED <<reportFrame, isRunning, pos, rangeEnd>>

\* The source does not open, or a parser or the carver throws.
ScanFails ==
    /\ pc \in {"meta", "carve", "chunk"} /\ pc' = "flush" /\ status' = "failed"
    /\ UNCHANGED <<row, stored, isRunning, kind, resume, found, pos, rangeEnd, last,
                   context, runs, seen, died>>

\* flushScanToDb: what is left of the buffer, ...
FlushRest ==
    /\ pc = "flush" /\ pc' = "progress"
    /\ \/ /\ Inserted(buffer) /\ buffer' = <<>>
          /\ UNCHANGED dbFlushFailed
       \/ /\ buffer # <<>> /\ dbFlushFailed' = TRUE
          /\ UNCHANGED <<stored, buffer>>
    /\ UNCHANGED <<row, isRunning, thread, lastScannedSectors, runs, seen, died>>

\* ... the last progress, ...
WriteProgress ==
    /\ pc = "progress" /\ pc' = "settle"
    /\ row' = [row EXCEPT !.scanned = lastScannedSectors]
    /\ UNCHANGED <<stored, isRunning, thread, context, runs, seen, died>>

\* Mutant: a failed batch does not count.
DbStatusUnflushed ==
    IF status = "stopped" /\ row.total > 0
       /\ 0 < lastScannedSectors /\ lastScannedSectors < row.total
    THEN "paused" ELSE status

\* ... and the status: a stop short of the total is a pause.
DbStatus ==
    IF dbFlushFailed THEN "failed"
    ELSE IF status = "stopped" /\ row.total > 0
            /\ 0 < lastScannedSectors /\ lastScannedSectors < row.total
    THEN "paused" ELSE status

CompleteScan ==
    /\ pc = "settle" /\ pc' = "idle" /\ isRunning' = FALSE
    /\ row' = [row EXCEPT !.status = DbStatus]
    /\ UNCHANGED <<stored, thread, context, runs, seen, died>>

----------------------------------------------------------------------------
\* requestStop, from StopScan or from the stopScan of a restart
Stop ==
    /\ isRunning /\ isRunning' = FALSE
    /\ UNCHANGED <<row, stored, pc, thread, context, runs, seen, died>>

\* The process dies; what it kept in memory is gone.
Dies ==
    /\ pc \notin {"idle", "down"} /\ pc' = "down"
    /\ isRunning' = FALSE /\ died' = TRUE
    /\ found' = 0 /\ pos' = 0 /\ rangeEnd' = 0 /\ last' = 0 /\ status' = "failed"
    /\ resume' = NoRow
    /\ buffer' = <<>> /\ dbFlushFailed' = FALSE /\ lastScannedSectors' = 0
    /\ UNCHANGED <<row, stored, kind, runs, seen>>

\* reclaimOrphanRunningScans
Reclaimed(r) ==
    IF r.status # "running" THEN r
    ELSE IF r.total > 0 /\ r.scanned >= r.total /\ (kind = "quick" \/ r.metadataComplete)
         THEN [r EXCEPT !.status = "complete"] ELSE [r EXCEPT !.status = "paused"]

\* InitDatabase of the next process
Restart ==
    /\ pc = "down" /\ pc' = "idle"
    /\ row' = Reclaimed(row)
    /\ UNCHANGED <<stored, isRunning, thread, context, runs, seen, died>>

\* The scan is settled and nobody touches it.
Idle == pc = "idle" /\ UNCHANGED vars

ScanThread ==
    \/ FindMetadata \/ MetadataTick \/ EndMetadata \/ CheckpointMetadata \/ ReportMetadata
    \/ SkipRange \/ EnterRange \/ CarveChunk \/ DeliverChunk \/ CarveTick \/ LeaveRange
    \/ LeaveCarve \/ ReportCarve \/ DecideStatus \/ FlushRest \/ WriteProgress
    \/ CompleteScan

Next == StartNew \/ Resume \/ ScanThread \/ ScanFails \/ Stop \/ Dies \/ Restart \/ Idle

\* A scan thread that runs is scheduled; it need not fail.
Spec == Init /\ [][Next]_vars /\ WF_vars(ScanThread)

----------------------------------------------------------------------------
(* Properties                                                              *)

Wanted == IF kind = "quick" THEN 1..NMeta
          ELSE IF kind = "carve_only" THEN {Carved(p) : p \in 1..NCarve} ELSE Records

\* A scan whose processes all ended in order and that is recorded complete has
\* every record of the disk in the store, through any number of stops, resumes
\* and full or half full buffers.
CompleteHasAll ==
    row.status = "complete" /\ ~died => \A r \in Wanted : stored[r] > 0

\* No scan is recorded complete, or resumed past its metadata, before some run
\* has met every metadata record, whoever died when.
MetadataFirst ==
    kind # "carve_only" /\ (row.status = "complete" \/ row.metadataComplete)
        => 1..NMeta \subseteq seen

\* metadata_store.cpp insertFilesBatch: records that never reached the store
\* are not silently cleared.  A run that ends in order without having stored
\* what it met is recorded failed.
NothingLostSilently ==
    pc = "idle" /\ ~died /\ (\E r \in seen : stored[r] = 0) => row.status = "failed"

\* No record is lost without a trace: a scan that says it is complete has all
\* of them, and one that could not store some says that it failed.
NothingLost == CompleteHasAll /\ NothingLostSilently

\* A scan does not stay "running" as long as its process lives.
ScanSettles == row.status = "running" ~> (row.status # "running" \/ pc = "down")
=============================================================================
