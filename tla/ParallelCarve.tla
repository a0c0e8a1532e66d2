--------------------------- MODULE ParallelCarve ---------------------------
(***************************************************************************)
(* One carve phase of a scan: runCarveScanRangesImpl (scan_coordinator.cpp)*)
(* with its bounded queue, its workers and its consumer, the sequential    *)
(* loop it falls back on, and the resume checkpoint every progress report  *)
(* writes (carveProgress in runDeepScan, runFullCarveScan and              *)
(* runCarveOnlyScan).                                                      *)
(*                                                                         *)
(* A range is a number of 4 MiB chunks, the unit the carver reads.  A file *)
(* is handed over in the chunk where its carve closes, which may be later  *)
(* than the one where it began, or once the range is read, if it was still *)
(* open then; its record is named by that place.  Positions count chunks   *)
(* in the order of the range list, as resumeCarveSector counts sectors.    *)
(***************************************************************************)
EXTENDS Integers, Sequences, FiniteSets

CONSTANTS
    Lens,        \* chunks of each range
    Opens,       \* for each place, the chunk where the file closed there began; 0: none is
    Modes,       \* which of "parallel", "sequential" target.parallelCarve asks for
    Workers,     \* workerCount threads
    QueueCap     \* capacity of the record queue (10000)

Ranges == DOMAIN Lens
before[r \in Ranges] == IF r = 1 THEN 0 ELSE before[r - 1] + Lens[r - 1]
Total == before[Len(Lens)] + Lens[Len(Lens)]
Position(c) == before[c[1]] + c[2]

\* The chunks of a range, and its end as one place more.
Places == {c \in Ranges \X (1..(Total + 1)) : c[2] <= Lens[c[1]] + 1}
Chunks == {c \in Places : c[2] <= Lens[c[1]]}

ASSUME CarveAssumption ==
    /\ Lens \in Seq(Nat \ {0}) /\ Len(Lens) > 0
    /\ Opens \in [Places -> Nat]
    /\ \A c \in Places : Opens[c] <= c[2] /\ Opens[c] <= Lens[c[1]]
    /\ Modes \subseteq {"parallel", "sequential"}
    /\ IsFiniteSet(Workers) /\ Cardinality(Workers) >= 2
    /\ QueueCap \in Nat \ {0}

VARIABLES
    mode, resume,        \* allowParallelCarve and resumeCarveSector
    isRunning,           \* cleared by requestStop
    cpc, record,         \* the calling thread and the record it popped
    wpc, wrange, wpos,   \* the workers: chunk wpos of range wrange was read
    nextRange, liveWorkers, workerFailed, consumerGone, scannedSectors,
    queue, closed,       \* BoundedRecordQueue
    srange, spos,        \* the sequential loop
    last,                \* MonotonicMeter::last
    checkpoint,          \* carve_resume_sector in the scan's row
    carved,              \* places passed in this or an earlier phase
    delivered            \* records given to onFileFound, in order

workerVars == <<wpc, wrange, wpos, nextRange, liveWorkers, workerFailed, scannedSectors>>
queueVars  == <<queue, closed>>
meterVars  == <<last, checkpoint>>
seqVars    == <<srange, spos>>
vars == <<mode, resume, isRunning, cpc, record, workerVars, consumerGone, queueVars,
          seqVars, meterVars, carved, delivered>>

(***************************************************************************)
(* The resume skip: what is left of a range, and the work list, largest    *)
(* ranges first and ties in list order.                                    *)
(***************************************************************************)
FirstFrom(p, r) == IF p <= before[r] THEN 0
                   ELSE IF p - before[r] < Lens[r] THEN p - before[r] ELSE Lens[r]
First(r) == FirstFrom(resume, r)
Left(r) == Lens[r] - First(r)
Pending == {r \in Ranges : Left(r) > 0}
PendingPlaces == {c \in Places : c[1] \in Pending /\ c[2] > First(c[1])}

\* What a phase resumed at p comes to hand over: the automaton starts afresh, so
\* a file that began before its range is resumed is not seen again.
FilesFrom(p) == {c \in Places : Opens[c] > FirstFrom(p, c[1])}
Files == FilesFrom(resume)

Earlier(q, r) == Left(q) > Left(r) \/ (Left(q) = Left(r) /\ q < r)
Work == [i \in 1..Cardinality(Pending) |->
           CHOOSE r \in Pending :
             Cardinality({q \in Pending : Earlier(q, r)}) = i - 1]
\* Mutant: the last range of the list is never claimed.
ExhaustedEarly(i) == i >= Len(Work)

\* Every claim past the end of the list sends a worker home.
Exhausted(i) == i > Len(Work)

Init ==
    /\ mode \in Modes /\ resume \in 0..Total /\ isRunning = TRUE
    /\ cpc = "plan" /\ record = <<>>
    /\ wpc = [w \in Workers |-> "none"]
    /\ wrange = [w \in Workers |-> 1] /\ wpos = [w \in Workers |-> 0]
    /\ nextRange = 1 /\ liveWorkers = 0 /\ scannedSectors = 0
    /\ workerFailed = FALSE /\ consumerGone = FALSE
    /\ queue = <<>> /\ closed = FALSE
    /\ srange = 1 /\ spos = 0
    /\ last = 0 /\ checkpoint = resume
    /\ carved = Places \ PendingPlaces /\ delivered = <<>>

\* onProgress(meter.tick(p), ...), which also writes the checkpoint
Tick(p) == LET t == IF p < last THEN last ELSE p
           IN  last' = t /\ checkpoint' = t

----------------------------------------------------------------------------
(* The calling thread: plan, consume, shut down                            *)

\* The skip loop reports every range it passes over whole; a stop there, or
\* fewer than two ranges of work, leaves the phase to the sequential loop.
Skipped == {r \in Ranges : before[r] + Lens[r] <= resume}
ReportSkipped ==
    IF Skipped = {} THEN UNCHANGED meterVars
    ELSE LET r == CHOOSE s \in Skipped : \A q \in Skipped : q <= s
         IN  Tick(before[r] + Lens[r])

StartWorkers ==
    /\ cpc = "plan" /\ isRunning /\ mode = "parallel" /\ Cardinality(Pending) >= 2
    /\ ReportSkipped
    /\ \E W \in SUBSET Workers :
         /\ Cardinality(W) = IF Cardinality(Workers) < Cardinality(Pending)
                             THEN Cardinality(Workers) ELSE Cardinality(Pending)
         /\ wpc' = [w \in Workers |-> IF w \in W THEN "next" ELSE "exit"]
         /\ liveWorkers' = Cardinality(W)
    /\ cpc' = "pop"
    /\ UNCHANGED <<mode, resume, isRunning, record, wrange, wpos, nextRange, workerFailed,
                   scannedSectors, consumerGone, queueVars, seqVars, carved, delivered>>

FallBack ==
    /\ cpc = "plan" /\ ~(isRunning /\ mode = "parallel" /\ Cardinality(Pending) >= 2)
    /\ IF mode = "parallel" THEN ReportSkipped ELSE UNCHANGED meterVars
    /\ cpc' = "range"
    /\ UNCHANGED <<mode, resume, isRunning, record, workerVars, consumerGone, queueVars,
                   seqVars, carved, delivered>>

\* popFor: takes the head ...
Pop(from, to) ==
    /\ cpc = from /\ queue # <<>>
    /\ record' = Head(queue) /\ queue' = Tail(queue)
    /\ cpc' = to
    /\ UNCHANGED <<mode, resume, isRunning, workerVars, consumerGone, closed, seqVars,
                   meterVars, carved, delivered>>

\* ... and, the lock released, wakes one producer that waits for room.
Notify ==
    /\ cpc = "notify" /\ cpc' = "call"
    /\ IF \E w \in Workers : wpc[w] = "full"
       THEN \E w \in Workers : wpc[w] = "full" /\ wpc' = [wpc EXCEPT ![w] = "push"]
       ELSE wpc' = wpc
    /\ UNCHANGED <<mode, resume, isRunning, record, wrange, wpos, nextRange, liveWorkers,
                   workerFailed, scannedSectors, consumerGone, queueVars, seqVars,
                   meterVars, carved, delivered>>

\* callbackWrapper: a record met after a stop is dropped.
Deliver(from, to) ==
    /\ cpc = from /\ cpc' = to
    /\ delivered' = IF isRunning THEN Append(delivered, record) ELSE delivered
    /\ UNCHANGED <<mode, resume, isRunning, record, workerVars, consumerGone, queueVars,
                   seqVars, meterVars, carved>>

\* emitParallelProgress, for s sectors counted
ParallelProgress(s) == resume + (IF s < Total - resume THEN s ELSE Total - resume)

\* 200 ms went by with an empty queue.
Poll ==
    /\ cpc = "pop" /\ queue = <<>>
    /\ Tick(ParallelProgress(scannedSectors))
    /\ cpc' = "poll"
    /\ UNCHANGED <<mode, resume, isRunning, record, workerVars, consumerGone, queueVars,
                   seqVars, carved, delivered>>

LeaveLoop ==
    /\ cpc = "poll"
    /\ cpc' = IF liveWorkers = 0 /\ queue = <<>> THEN "join" ELSE "pop"
    /\ UNCHANGED <<mode, resume, isRunning, record, workerVars, consumerGone, queueVars,
                   seqVars, meterVars, carved, delivered>>

AllExited == \A w \in Workers : wpc[w] = "exit"

JoinWorkers ==
    /\ cpc = "join" /\ AllExited
    /\ closed' = TRUE /\ cpc' = "drain"
    /\ UNCHANGED <<mode, resume, isRunning, record, workerVars, consumerGone, queue,
                   seqVars, meterVars, carved, delivered>>

Drained ==
    /\ cpc = "drain" /\ queue = <<>>
    /\ Tick(ParallelProgress(scannedSectors))
    /\ cpc' = "final"
    /\ UNCHANGED <<mode, resume, isRunning, record, workerVars, consumerGone, queueVars,
                   seqVars, carved, delivered>>

\* The last report says the whole phase is done, stopped or not.
ReportTotal ==
    /\ cpc = "final" /\ Tick(Total)
    /\ cpc' = "done"
    /\ UNCHANGED <<mode, resume, isRunning, record, workerVars, consumerGone, queueVars,
                   seqVars, carved, delivered>>

\* onFileFound or onProgress throws: the catch block of the parallel branch,
\* or straight out of the sequential loop.
CallbackThrows ==
    /\ cpc \in {"call", "poll", "drainCall", "final", "emit", "flush"}
    /\ cpc' = IF cpc \in {"emit", "flush"} THEN "thrown" ELSE "throw"
    /\ UNCHANGED <<mode, resume, isRunning, record, workerVars, consumerGone, queueVars,
                   seqVars, meterVars, carved, delivered>>

\* Mutant: the queue stays open, and producers that wait stay waiting.
AbandonOpen ==
    /\ cpc = "throw" /\ consumerGone' = TRUE /\ cpc' = "joinThrow"
    /\ UNCHANGED <<mode, resume, isRunning, record, workerVars, queueVars, seqVars,
                   meterVars, carved, delivered>>

Abandon ==
    /\ cpc = "throw"
    /\ consumerGone' = TRUE /\ closed' = TRUE
    /\ wpc' = [w \in Workers |-> IF wpc[w] = "full" THEN "push" ELSE wpc[w]]
    /\ cpc' = "joinThrow"
    /\ UNCHANGED <<mode, resume, isRunning, record, wrange, wpos, nextRange, liveWorkers,
                   workerFailed, scannedSectors, queue, seqVars, meterVars, carved,
                   delivered>>

\* Mutant: the exception leaves before the workers are joined.
RethrowAtOnce ==
    /\ cpc = "joinThrow" /\ cpc' = "thrown"
    /\ UNCHANGED <<mode, resume, isRunning, record, workerVars, consumerGone, queueVars,
                   seqVars, meterVars, carved, delivered>>

Rethrow ==
    /\ cpc = "joinThrow" /\ AllExited /\ cpc' = "thrown"
    /\ UNCHANGED <<mode, resume, isRunning, record, workerVars, consumerGone, queueVars,
                   seqVars, meterVars, carved, delivered>>

----------------------------------------------------------------------------
(* The workers                                                             *)

workerFrame == <<mode, resume, isRunning, cpc, record, consumerGone, seqVars, meterVars,
                 delivered>>

ClaimRange(w) ==
    /\ wpc[w] = "next" /\ ~consumerGone /\ isRunning
    /\ nextRange' = nextRange + 1
    /\ IF Exhausted(nextRange)
       THEN /\ wpc' = [wpc EXCEPT ![w] = "exit"] /\ liveWorkers' = liveWorkers - 1
            /\ UNCHANGED <<wrange, wpos>>
       ELSE LET r == Work[nextRange]
            IN  /\ wpc' = [wpc EXCEPT ![w] = "scan"]
                /\ wrange' = [wrange EXCEPT ![w] = r]
                /\ wpos' = [wpos EXCEPT ![w] = First(r)]
                /\ UNCHANGED liveWorkers
    /\ UNCHANGED <<workerFrame, queueVars, workerFailed, scannedSectors, carved>>

\* The consumer died or the scan was stopped.
GoHome(w) ==
    /\ wpc[w] = "next" /\ (consumerGone \/ ~isRunning)
    /\ wpc' = [wpc EXCEPT ![w] = "exit"] /\ liveWorkers' = liveWorkers - 1
    /\ UNCHANGED <<workerFrame, queueVars, wrange, wpos, nextRange, workerFailed,
                   scannedSectors, carved>>

\* scanRangeSingle reads on, chunk by chunk; what closes in a chunk is pushed
\* before the chunk's progress.
ReadChunk(w) ==
    /\ wpc[w] = "scan" /\ isRunning /\ wpos[w] < Lens[wrange[w]]
    /\ wpos' = [wpos EXCEPT ![w] = @ + 1]
    /\ LET c == <<wrange[w], wpos[w] + 1>>
       IN  /\ carved' = carved \cup {c}
           /\ wpc' = [wpc EXCEPT ![w] = IF c \in Files THEN "push" ELSE "tick"]
    /\ UNCHANGED <<workerFrame, queueVars, wrange, nextRange, liveWorkers, workerFailed,
                   scannedSectors>>

\* The end of the range: what is still open is handed over as it is.
EndRange(w) ==
    /\ wpc[w] = "scan" /\ wpos[w] = Lens[wrange[w]]
    /\ wpos' = [wpos EXCEPT ![w] = @ + 1]
    /\ LET c == <<wrange[w], wpos[w] + 1>>
       IN  /\ carved' = carved \cup {c}
           /\ wpc' = [wpc EXCEPT ![w] = IF c \in Files THEN "push" ELSE "next"]
    /\ UNCHANGED <<workerFrame, queueVars, wrange, nextRange, liveWorkers, workerFailed,
                   scannedSectors>>

\* A stop inside the range: the records of what is open reach nobody.
BreakOff(w) ==
    /\ wpc[w] = "scan" /\ ~isRunning /\ wpos[w] < Lens[wrange[w]]
    /\ wpc' = [wpc EXCEPT ![w] = "next"]
    /\ UNCHANGED <<workerFrame, queueVars, wrange, wpos, nextRange, liveWorkers,
                   workerFailed, scannedSectors, carved>>

\* push: waits while full, drops the record once closed.
Push(w) ==
    /\ wpc[w] = "push"
    /\ \/ /\ closed \/ Len(queue) < QueueCap
          /\ queue' = IF closed THEN queue ELSE Append(queue, <<wrange[w], wpos[w]>>)
          /\ wpc' = [wpc EXCEPT ![w] = IF wpos[w] <= Lens[wrange[w]] THEN "tick" ELSE "next"]
       \/ /\ ~closed /\ Len(queue) = QueueCap
          /\ wpc' = [wpc EXCEPT ![w] = "full"] /\ UNCHANGED queue
    /\ UNCHANGED <<workerFrame, closed, wrange, wpos, nextRange, liveWorkers, workerFailed,
                   scannedSectors, carved>>

\* The tick adds the distance from the start of the range, not from the last tick.
TickWorker(w) ==
    /\ wpc[w] = "tick"
    /\ scannedSectors' = scannedSectors + (wpos[w] - First(wrange[w]))
    /\ wpc' = [wpc EXCEPT ![w] = "scan"]
    /\ UNCHANGED <<workerFrame, queueVars, wrange, wpos, nextRange, liveWorkers,
                   workerFailed, carved>>

\* An exception in the carver ends the worker; its range stays half carved.
WorkerThrows(w) ==
    /\ wpc[w] = "scan"
    /\ workerFailed' = TRUE
    /\ wpc' = [wpc EXCEPT ![w] = "exit"] /\ liveWorkers' = liveWorkers - 1
    /\ UNCHANGED <<workerFrame, queueVars, wrange, wpos, nextRange, scannedSectors, carved>>

----------------------------------------------------------------------------
(* The sequential loop                                                     *)

seqFrame == <<mode, resume, isRunning, workerVars, consumerGone, queueVars>>

EnterRange ==
    /\ cpc = "range"
    /\ IF ~isRunning \/ srange > Len(Lens)
       THEN cpc' = "done" /\ UNCHANGED <<srange, spos, meterVars>>
       ELSE IF before[srange] + Lens[srange] <= resume
       THEN /\ Tick(before[srange] + Lens[srange])
            /\ srange' = srange + 1 /\ UNCHANGED <<cpc, spos>>
       ELSE /\ cpc' = "chunk" /\ spos' = First(srange)
            /\ UNCHANGED <<srange, meterVars>>
    /\ UNCHANGED <<seqFrame, record, carved, delivered>>

CarveChunk ==
    /\ cpc = "chunk" /\ isRunning /\ spos < Lens[srange]
    /\ spos' = spos + 1
    /\ carved' = carved \cup {<<srange, spos + 1>>} /\ record' = <<srange, spos + 1>>
    /\ cpc' = "emit"
    /\ UNCHANGED <<seqFrame, srange, meterVars, delivered>>

\* callbackWrapper, if there is a record
HandOver == delivered' = IF isRunning /\ record \in Files THEN Append(delivered, record)
                         ELSE delivered

\* Mutant: a chunk reports its whole range.
EmitChunkAhead ==
    /\ cpc = "emit" /\ cpc' = "chunk"
    /\ HandOver
    /\ Tick(before[srange] + Lens[srange])
    /\ UNCHANGED <<seqFrame, record, seqVars, carved>>

\* What closed in the chunk, then its progress.
EmitChunk ==
    /\ cpc = "emit" /\ cpc' = "chunk"
    /\ HandOver
    /\ Tick(before[srange] + spos)
    /\ UNCHANGED <<seqFrame, record, seqVars, carved>>

\* The end of the range: what is still open is handed over as it is ...
FlushRange ==
    /\ cpc = "chunk" /\ spos = Lens[srange]
    /\ spos' = spos + 1
    /\ carved' = carved \cup {<<srange, spos + 1>>} /\ record' = <<srange, spos + 1>>
    /\ cpc' = "flush"
    /\ UNCHANGED <<seqFrame, srange, meterVars, delivered>>

\* ... and the range, or a stop inside it, is reported as the whole range.
LeaveRange ==
    /\ \/ cpc = "flush" /\ HandOver
       \/ cpc = "chunk" /\ ~isRunning /\ spos < Lens[srange] /\ UNCHANGED delivered
    /\ Tick(before[srange] + Lens[srange])
    /\ srange' = srange + 1 /\ cpc' = "range"
    /\ UNCHANGED <<seqFrame, record, spos, carved>>

----------------------------------------------------------------------------
\* requestStop, from JavaScript or from a flush that failed; also once more.
Stop ==
    /\ isRunning' = FALSE
    /\ UNCHANGED <<mode, resume, cpc, record, workerVars, consumerGone, queueVars, seqVars,
                   meterVars, carved, delivered>>

Caller ==
    \/ StartWorkers \/ FallBack
    \/ Pop("pop", "notify") \/ Notify \/ Deliver("call", "pop")
    \/ Poll \/ LeaveLoop \/ JoinWorkers
    \/ Pop("drain", "drainCall") \/ Deliver("drainCall", "drain") \/ Drained \/ ReportTotal
    \/ CallbackThrows \/ Abandon \/ Rethrow
    \/ EnterRange \/ CarveChunk \/ EmitChunk \/ FlushRange \/ LeaveRange

Worker(w) ==
    \/ ClaimRange(w) \/ GoHome(w) \/ ReadChunk(w) \/ EndRange(w) \/ BreakOff(w)
    \/ Push(w) \/ TickWorker(w) \/ WorkerThrows(w)

Next == Caller \/ (\E w \in Workers : Worker(w)) \/ Stop

\* Threads that can run are scheduled; nobody has to press stop.
Spec == Init /\ [][Next]_vars /\ WF_vars(Caller) /\ \A w \in Workers : WF_vars(Worker(w))

----------------------------------------------------------------------------
(* Properties                                                              *)

\* scan_coordinator.cpp:933-936: the parallel result set equals the
\* sequential one as a multiset.  No file is handed over twice, or without
\* beginning in what the resume left, and a phase that was neither stopped nor
\* met an exception hands over every one that does.
EachRecordOnce ==
    /\ \A i, j \in DOMAIN delivered : delivered[i] = delivered[j] => i = j
    /\ \A i \in DOMAIN delivered : delivered[i] \in Files
    /\ cpc = "done" /\ isRunning /\ ~workerFailed => Len(delivered) = Cardinality(Files)

\* The phase never returns, or unwinds, past a thread that is still joinable:
\* that would be std::terminate (scan_coordinator.cpp:1094-1099).
NoThreadLeft ==
    cpc \in {"done", "thrown"} => \A w \in Workers : wpc[w] \in {"none", "exit"}

\* The files that a position cuts: begun at or below it and closed above.  A
\* resume from there does not find them (section 6 of the README).
CutAt(p) == {c \in Places : /\ Opens[c] > 0 /\ before[c[1]] + Opens[c] <= p
                            /\ p < Position(c)}

\* scan_coordinator.cpp:961-962, 1267: every progress report becomes the place
\* a dead process is resumed at.  While nobody stops a sequential scan, every
\* chunk at or below that place was read, and every file of the phase was
\* handed over, or is found again by a phase resumed there, or is cut by it: a
\* death loses no file but those.  (The parallel path stores a sum for a prefix
\* and loses more.)
SequentialCheckpoint ==
    mode = "sequential" /\ isRunning =>
        /\ \A c \in Chunks : Position(c) <= checkpoint => c \in carved
        /\ \A c \in Files : \/ \E i \in DOMAIN delivered : delivered[i] = c
                           \/ c \in FilesFrom(checkpoint)
                           \/ c \in CutAt(checkpoint)

\* Every phase comes to an end, by return or by exception: a full queue, a dead
\* consumer, failing workers and a stop never leave it waiting.
CarveEnds == <>(cpc \in {"done", "thrown"})
============================================================================
