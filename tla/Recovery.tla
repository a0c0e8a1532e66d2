------------------------------ MODULE Recovery ------------------------------
(***************************************************************************)
(* Recovering found files to a folder: RecoverFile and RecoverFilesBatch,  *)
(* their workers on the thread pool, RecoveryEngine::recoverFile with its  *)
(* validation, and the count of recovered files in the database.           *)
(*                                                                         *)
(* Bytes are counted in sectors.  A sector of the evidence is <<id, n>>,   *)
(* the n-th of record id, of a compressed one the n-th that is inflated;   *)
(* Zero is a sector of zeros.  The destination is a                        *)
(* function from paths to what the file there holds; a path is a stem and  *)
(* the number uniqueDestPath has appended to it, 0 when it appended none.  *)
(***************************************************************************)
EXTENDS Integers, Sequences, FiniteSets

CONSTANTS
    Records,       \* the files of the scan, by id: a function to records
                   \* [form, source, name, size, deleted, runs, checked, sound, repairable],
                   \* a compressed one with inflates: what its first k runs inflate to
    Requests,      \* sequence of the requests of a behaviour: [batch, ids]
    Existing,      \* paths that are there before
    ReadChunk,     \* readChunk, in sectors
    InflateCap,    \* kMaxCompressedBuffer, in sectors
    MaxSuffix,     \* uniqueDestPath gives up here
    DestMayFill    \* whether the destination may run full

Corrupt == -1      \* lznt1Decompress gives up

\* The data of a resident file is in its record: it always reads.
ASSUME RecoveryAssumption ==
    /\ \A id \in DOMAIN Records :
          /\ Records[id].size \in Nat
          /\ Records[id].runs \in Seq([length : Nat, hole : BOOLEAN, bad : SUBSET Nat])
          /\ Records[id].form = "resident" => \A k \in DOMAIN Records[id].runs :
                                                Records[id].runs[k].bad = {}
          /\ Records[id].form = "compressed" =>
               Records[id].inflates \in [0..Len(Records[id].runs) -> Nat \cup {Corrupt}]
    /\ Requests \in Seq([batch : BOOLEAN, ids : Seq(Nat)])
    /\ {ReadChunk, InflateCap} \subseteq Nat \ {0} /\ MaxSuffix \in Nat /\ DestMayFill \in BOOLEAN

Zero == <<0, 0>>
NoPath == <<"", 0>>
NoResult(id) == [id |-> id, success |-> FALSE, path |-> NoPath, size |-> 0, zeroFilled |-> FALSE]

VARIABLES
    dest,          \* path -> sequence of sectors
    workers,       \* one per request made: pc, batch, ids left, path chosen, results
    heavyOp,       \* whether the gate is taken by somebody
    recoveredFiles \* scans.recovered_files

recoveryVars == <<dest, workers, heavyOp, recoveredFiles>>

Ids == DOMAIN Records
Metadata == {"ntfs", "refs"}
Carved == {"carver", "carver_bgc"}

----------------------------------------------------------------------------
(* What is read                                                            *)

\* Run k of a record begins behind sector RunBases[k - 1] of the file.
RunBases(record) ==
    LET base[k \in 0..Len(record.runs)] ==
            IF k = 0 THEN 0 ELSE base[k - 1] + record.runs[k].length
    IN  base

RunsSpan(record) == RunBases(record)[Len(record.runs)]

\* evidenceClampedSize: the runs bound what the record claims.
ClampedSize(record) ==
    IF record.size < RunsSpan(record) THEN record.size ELSE RunsSpan(record)

\* A read of one chunk fails as a whole.
ChunkFails(run, n) ==
    \E b \in run.bad : b < run.length /\ b \div ReadChunk = n \div ReadChunk

InRun(record, k, n) == RunBases(record)[k - 1] < n /\ n <= RunBases(record)[k]

\* Sector n of the file is in a hole, ...
InHole(record, n) ==
    \E k \in DOMAIN record.runs : record.runs[k].hole /\ InRun(record, k, n)

\* ... or in a chunk that does not read.
Unread(record, n) ==
    \E k \in DOMAIN record.runs :
        /\ ~record.runs[k].hole /\ InRun(record, k, n)
        /\ ChunkFails(record.runs[k], n - 1 - RunBases(record)[k - 1])

\* What is written: zeros for either of them, but what a stream inflates to
Sectors(id) ==
    LET record == Records[id]
    IN  [n \in 1..ClampedSize(record) |->
            IF record.form # "compressed" /\ (InHole(record, n) \/ Unread(record, n))
            THEN Zero ELSE <<id, n>>]

AtMost(m, n) == IF m < n THEN m ELSE n

\* compressedLen: the runs of a compressed record without its holes
StoredSpan(record) ==
    LET stored[k \in 0..Len(record.runs)] ==
            IF k = 0 THEN 0
            ELSE stored[k - 1] + (IF record.runs[k].hole THEN 0 ELSE record.runs[k].length)
    IN  stored[Len(record.runs)]

\* Nothing stored, and more than the buffer takes, is not inflated.
Inflatable(record) == StoredSpan(record) \in 1..InflateCap

\* lznt1Decompress ends at a header of zeros, and a hole is zeros in the
\* stream: only the runs before the first hole are inflated.
Unbroken(record) ==
    LET ends == {k \in 0..Len(record.runs) : k = Len(record.runs) \/ record.runs[k + 1].hole}
    IN  CHOOSE k \in ends : \A m \in ends : k <= m

\* A run that does not read is zeros in the stream; behind compressedLen, to
\* which the holes count as well, nothing is read.
StreamUnread(record) ==
    \E k \in DOMAIN record.runs : \E b \in record.runs[k].bad :
        /\ ~record.runs[k].hole /\ b < record.runs[k].length
        /\ RunBases(record)[k - 1] + b < StoredSpan(record)

\* What comes out of the stream; with zeros in the place of a run that did not
\* read it may end anywhere.
Inflations(record) ==
    IF ~Inflatable(record) THEN {Corrupt}
    ELSE IF StreamUnread(record) THEN {Corrupt} \cup 0..ClampedSize(record)
    ELSE {record.inflates[Unbroken(record)]}

\* How much is written; Corrupt when the stream is refused or malformed
Lengths(record) ==
    IF record.form = "compressed" THEN {AtMost(ClampedSize(record), n) : n \in Inflations(record)}
    ELSE {ClampedSize(record)}

\* Mutant: a failed read is padded and nothing remembers it.
PaddedSilently(id) == FALSE

\* result.zeroFilled: a chunk that is part of the file did not read
Padded(id) ==
    IF Records[id].form = "compressed"
    THEN Inflatable(Records[id]) /\ StreamUnread(Records[id])
    ELSE \E n \in 1..ClampedSize(Records[id]) : Unread(Records[id], n)

\* What recoverFile refuses before it opens a file
Refused(record) ==
    \/ record.source = "discovery"
    \/ record.form = "runs" /\ record.runs = <<>> /\ record.source \notin Carved

----------------------------------------------------------------------------
(* Where it goes                                                           *)

\* Mutant: the number is not appended.
UniqueDestPathPlain(stem) == {Append(stem, 0)}

\* uniqueDestPath: the first path that is free
UniqueDestPath(stem) ==
    LET free == {n \in 0..MaxSuffix : Append(stem, n) \notin DOMAIN dest}
    IN  {Append(stem, n) : n \in {m \in free : \A k \in free : m <= k}}

Put(path, content) ==
    [p \in DOMAIN dest \cup {path} |-> IF p = path THEN content ELSE dest[p]]

----------------------------------------------------------------------------
(* What is made of it (applyPostRecoveryValidation)                        *)

\* checkSizeConsistency: of a deleted file found by its metadata 90 percent
\* must be there.
TooShort(record, size) ==
    /\ record.size > 0 /\ size > 0 /\ size < record.size
    /\ record.deleted /\ record.source \in Metadata
    /\ (size * 100) \div record.size < 90

\* maybeAppendJpegEoiOnDisk, maybeRebuildPdfXrefOnDisk,
\* maybeRebuildZipDirectoryOnDisk: a repaired copy beside the file
Repaired(record, content) ==
    record.checked /\ ~record.sound /\ record.repairable /\ content # <<>>

\* validateRecoveredStructure, on the file or the repaired copy of it: it is
\* empty, or its format is known and it is not well formed.
Malformed(record, content, repaired) ==
    \/ content = <<>>
    \/ record.checked /\ ~record.sound /\ ~repaired

\* finishRecoverWrite and applyPostRecoveryValidation
Outcome(id, path, content, size, repaired) ==
    LET record == Records[id]
        padded == Padded(id) /\ record.form # "resident"
    IN  [id |-> id, path |-> path, size |-> IF size = Corrupt THEN 0 ELSE size,
         zeroFilled |-> padded,
         success |-> /\ ~padded /\ size # Corrupt
                     /\ ~TooShort(record, size)
                     /\ ~Malformed(record, content, repaired)]

CountsAsRecovered(result) == result.success /\ ~result.zeroFilled

----------------------------------------------------------------------------
RecoveryInit ==
    /\ dest = [p \in Existing |-> <<Zero>>]
    /\ workers = <<>>
    /\ heavyOp \in BOOLEAN
    /\ recoveredFiles = 0

\* RecoverFile, RecoverFilesBatch: the gate is looked at, not taken.
Recover ==
    /\ Len(workers) < Len(Requests) /\ ~heavyOp
    /\ workers' = Append(workers, [pc |-> "record", batch |-> Requests[Len(workers) + 1].batch,
                                   ids |-> Requests[Len(workers) + 1].ids,
                                   path |-> NoPath, results |-> <<>>])
    /\ UNCHANGED <<dest, heavyOp, recoveredFiles>>

\* A scan, an image or a wipe begins or ends.
OtherOperation ==
    /\ heavyOp' = ~heavyOp
    /\ UNCHANGED <<dest, workers, recoveredFiles>>

Done(w, result) ==
    [workers EXCEPT ![w].pc = "record", ![w].ids = Tail(@), ![w].results = Append(@, result)]

\* The record is not in the scan, its disk does not open, there is nothing to
\* recover or no path is free; or a path is chosen.
ChoosePath(w) ==
    /\ workers[w].pc = "record" /\ workers[w].ids # <<>>
    /\ LET id == Head(workers[w].ids)
       IN  \/ workers' = Done(w, NoResult(id))
           \/ /\ id \in Ids /\ ~Refused(Records[id])
              /\ \E path \in UniqueDestPath(<<Records[id].name>>) :
                    workers' = [workers EXCEPT ![w].pc = "open", ![w].path = path]
    /\ UNCHANGED <<dest, heavyOp, recoveredFiles>>

\* ofstream with trunc; the folder may refuse.
OpenDest(w) ==
    /\ workers[w].pc = "open"
    /\ \/ workers' = Done(w, NoResult(Head(workers[w].ids))) /\ UNCHANGED dest
       \/ /\ workers' = [workers EXCEPT ![w].pc = "write"]
          /\ dest' = Put(workers[w].path, <<>>)
    /\ UNCHANGED <<heavyOp, recoveredFiles>>

Counted(result) == IF CountsAsRecovered(result) THEN 1 ELSE 0

\* The sectors are written and hashed, a compressed file's once they are
\* inflated, the file is closed, repaired and validated, and counted.  That a
\* stream inflates to less than the file is not looked at, and no write is
\* checked: with the destination full the file ends early and the result does
\* not say so.
WriteAndSettle(w) ==
    /\ workers[w].pc = "write"
    /\ LET id == Head(workers[w].ids)
           path == workers[w].path
       IN  \E length \in Lengths(Records[id]) :
           \E n \in (IF DestMayFill THEN 0..length ELSE {}) \cup {length} :
             LET content == SubSeq(Sectors(id), 1, n)
                 written == Put(path, content)
                 copies == IF ~Padded(id) /\ Repaired(Records[id], content)
                           THEN UniqueDestPath(Append(path, "repaired")) ELSE {}
                 result == Outcome(id, path, content, length, copies # {})
             IN  /\ dest' = [p \in DOMAIN written \cup copies |->
                               IF p \in copies THEN content ELSE written[p]]
                 /\ workers' = Done(w, result)
                 /\ recoveredFiles' = recoveredFiles + Counted(result)
    /\ UNCHANGED heavyOp

\* The promise of the request is fulfilled, a batch's with its summary.
Fulfil(w) ==
    /\ workers[w].pc = "record" /\ workers[w].ids = <<>>
    /\ workers' = [workers EXCEPT ![w].pc = "fulfilled"]
    /\ UNCHANGED <<dest, heavyOp, recoveredFiles>>

\* Something throws: one file is a failed result, a batch is rejected, and
\* what it had recovered and counted stays.
Throws(w) ==
    /\ workers[w].pc \in {"record", "open"} /\ workers[w].ids # <<>>
    /\ workers' = IF workers[w].batch THEN [workers EXCEPT ![w].pc = "rejected"]
                  ELSE Done(w, NoResult(Head(workers[w].ids)))
    /\ UNCHANGED <<dest, heavyOp, recoveredFiles>>

RecoverWorker(w) ==
    ChoosePath(w) \/ OpenDest(w) \/ WriteAndSettle(w) \/ Fulfil(w) \/ Throws(w)

RecoveryNext ==
    \/ Recover \/ OtherOperation
    \/ \E w \in DOMAIN workers : RecoverWorker(w)

RecoverySpec == RecoveryInit /\ [][RecoveryNext]_recoveryVars

----------------------------------------------------------------------------
(* Properties                                                              *)

\* The results given so far, each by its worker and its place; those of success
Reported ==
    UNION {{<<w, k>> : k \in DOMAIN workers[w].results} : w \in DOMAIN workers}
Result(s) == workers[s[1]].results[s[2]]
Successes == {s \in Reported : Result(s).success}

\* What of a record is delivered: all that its runs bound, but of a compressed
\* one no more than its stream inflates to before its first hole
\* (recovery_engine.cpp:292-299 does not compare that with the file's size).
Delivered(record) ==
    IF record.form = "compressed"
    THEN AtMost(ClampedSize(record), record.inflates[Unbroken(record)])
    ELSE ClampedSize(record)
Evidence(id) ==
    [n \in 1..Delivered(Records[id]) |->
        IF Records[id].form # "compressed" /\ InHole(Records[id], n) THEN Zero ELSE <<id, n>>]

\* A file that is reported as recovered holds the sectors of the evidence, in
\* their order, and no zeros in the place of sectors that did not read.  It is
\* as long as the result says and as its record, unless it was compressed: then
\* the first part of it is reported as the file.  Of a deleted file nine tenths
\* are there all the same (finishRecoverWrite, checkSizeConsistency).
SuccessIsTrue ==
    \A s \in Successes :
        LET id == Result(s).id
            record == Records[id]
            file == dest[Result(s).path]
        IN  /\ file = Evidence(id) /\ Result(s).size = Delivered(record)
            /\ record.deleted /\ record.source \in Metadata =>
                 10 * Delivered(record) >= 9 * record.size

\* No recovery touches what was in the folder before it, and no two files are
\* recovered to the same path (uniqueDestPath).
NothingOverwritten ==
    /\ \A p \in Existing : dest[p] = <<Zero>>
    /\ \A r, s \in Successes : Result(r).path = Result(s).path => r = s

\* The scan's count of recovered files is the number of results that say
\* success, those of a batch that was rejected included
\* (BatchRecoverWorker, incrementRecovered).
CountIsHonest == recoveredFiles = Cardinality(Successes)

\* What the results and the count say was done was done.
ReportIsTrue == SuccessIsTrue /\ CountIsHonest
=============================================================================
