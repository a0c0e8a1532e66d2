----------------------------- MODULE RawImaging -----------------------------
(***************************************************************************)
(* Raw imaging of a source into a file (imager/disk_imager.cpp): the .part *)
(* file, the resume sidecar beside it, the decision to resume or to start  *)
(* over, the chunk loop, and the promotion of the .part to the image.      *)
(*                                                                         *)
(* One source is attached at a time and may be replaced by another of the  *)
(* same size between two runs.  A run may be stopped, may fail at any file *)
(* operation, and its process may die between any two of them.             *)
(*                                                                         *)
(* Data is a sequence of sector values, 0 being a sector of zeros.  MD5 is *)
(* taken to be injective: its state is the data hashed so far.             *)
(***************************************************************************)
EXTENDS Naturals, Sequences

CONSTANTS
    Sources,   \* contents a source can have, all of NSectors sectors
    NSectors,
    Chunk,     \* sectors read and written at a time (16 MiB)
    Bad,       \* sectors a read may fail on, now and then
    MayFail,   \* file operations that may fail: "open", "write", "close",
               \* "sidecar", "remove", "rename"
    NRuns      \* bound: imaging runs

ASSUME ImagingAssumption ==
    /\ NSectors \in Nat \ {0} /\ Chunk \in Nat \ {0} /\ NRuns \in Nat
    /\ Sources \subseteq [1..NSectors -> Nat] /\ Bad \subseteq 1..NSectors

Sectors == 1..NSectors
Values == {0} \cup UNION {{s[i] : i \in Sectors} : s \in Sources}

(***************************************************************************)
(* What identifies a source besides its name and size: the fingerprint     *)
(* windows at its head, middle and tail, zeros where the read fails, and   *)
(* the sample of the head that a resume compares with the .part.           *)
(***************************************************************************)
Windows == {1, NSectors \div 2 + 1, NSectors}
Sample == 1

\* Mutant: the fingerprint is left out of the key.
SourceKeyByName(s, failed) == [w \in Windows |-> 0]

SourceKey(s, failed) == [w \in Windows |-> IF w \in failed THEN 0 ELSE s[w]]

VARIABLES
    source,     \* the source that is attached
    part, dest, \* the data of the files; <<>> when empty or absent
    side,       \* the sidecar; its doneBytes are 0 when absent or torn
    pc,         \* the imaging thread
    isRunning,
    srcKey, sector, buffer, rawMd5,
    lastImageMd5,   \* <<>> when there is none
    runs

files == <<part, side, dest>>
run   == <<srcKey, sector, buffer, rawMd5>>
imagingVars == <<source, files, pc, isRunning, run, lastImageMd5, runs>>

Data == Seq(Values)
\* The sidecar.  Two fields are observations the code does not have: the source
\* it was written for, and whether a stop wrote it whose .part is still there.
NoSidecar == [done |-> 0, key |-> [w \in Windows |-> 0], md5 |-> <<>>,
              source |-> CHOOSE s \in Sources : TRUE, stopped |-> FALSE]

ImagingInit ==
    /\ source \in Sources
    /\ part = <<>> /\ dest = <<>> /\ side = NoSidecar
    /\ pc = "idle" /\ isRunning = FALSE
    /\ srcKey = NoSidecar.key /\ sector = 0 /\ buffer = <<>> /\ rawMd5 = <<>>
    /\ lastImageMd5 = <<>> /\ runs = 0

Prefix(data, n) == SubSeq(data, 1, n)

----------------------------------------------------------------------------
(* Starting, and the decision to resume                                    *)

\* stopImaging has joined an earlier run; the source is opened and keyed.
StartImaging ==
    /\ pc = "idle" /\ runs < NRuns
    /\ runs' = runs + 1 /\ lastImageMd5' = <<>>
    /\ \/ \E failed \in SUBSET (Bad \cap Windows) :
            /\ srcKey' = SourceKey(source, failed)
            /\ pc' = "decide" /\ isRunning' = TRUE
       \/ /\ pc' = "idle" /\ isRunning' = FALSE      \* the source does not open
          /\ UNCHANGED srcKey
    /\ UNCHANGED <<source, files, sector, buffer, rawMd5>>

\* The sidecar is this source's, and the .part holds at least doneBytes: the
\* .part is cut back to them.
Claimed == side.done > 0 /\ side.key = srcKey /\ Len(part) >= side.done

ReadSidecar ==
    /\ pc = "decide"
    /\ IF Claimed THEN part' = Prefix(part, side.done) /\ pc' = "verify"
                  ELSE part' = part /\ pc' = "discard"
    /\ UNCHANGED <<source, side, dest, isRunning, run, lastImageMd5, runs>>

\* Mutant: the hash starts anew instead of from the prefix.
ResumedMd5Fresh == <<>>

\* The hash is continued from the reread prefix.
ResumedMd5 == part

\* verifyResumePrefix and statesMatch
VerifyPrefix ==
    /\ pc = "verify"
    /\ \E sampled \in IF Sample \in Bad THEN BOOLEAN ELSE {TRUE} :
         pc' = IF part = side.md5 /\ sampled /\ part[Sample] = source[Sample]
               THEN "append" ELSE "discard"
    /\ UNCHANGED <<source, files, isRunning, run, lastImageMd5, runs>>

OpenToAppend ==
    /\ pc = "append"
    /\ \/ pc' = "read" /\ sector' = side.done /\ rawMd5' = ResumedMd5
       \/ "open" \in MayFail /\ pc' = "discard" /\ UNCHANGED <<sector, rawMd5>>
    /\ UNCHANGED <<source, files, isRunning, srcKey, buffer, lastImageMd5, runs>>

\* A fresh start removes the .part, then the sidecar, then creates the .part.
Discard ==
    /\ pc = "discard"
    /\ part' = <<>> /\ side' = [side EXCEPT !.stopped = FALSE]
    /\ pc' = "create"
    /\ UNCHANGED <<source, dest, isRunning, run, lastImageMd5, runs>>

Create ==
    /\ pc = "create"
    /\ \/ side' = NoSidecar
       \/ "remove" \in MayFail /\ UNCHANGED side
    /\ \/ pc' = "read" /\ sector' = 0 /\ rawMd5' = <<>> /\ UNCHANGED isRunning
       \/ "open" \in MayFail /\ pc' = "idle" /\ isRunning' = FALSE /\ UNCHANGED <<sector, rawMd5>>
    /\ UNCHANGED <<source, part, dest, srcKey, buffer, lastImageMd5, runs>>

----------------------------------------------------------------------------
(* The chunk loop                                                          *)

ChunkLen == IF NSectors - sector < Chunk THEN NSectors - sector ELSE Chunk

\* A read that fails is retried down to single sectors; those that still fail
\* are zeros.
ReadChunk ==
    /\ pc = "read" /\ isRunning /\ sector < NSectors
    /\ \E failed \in SUBSET (Bad \cap {s \in Sectors : s > sector /\ s <= sector + ChunkLen}) :
         buffer' = [i \in 1..ChunkLen |->
                      IF sector + i \in Sectors \ failed THEN source[sector + i] ELSE 0]
    /\ pc' = "write"
    /\ UNCHANGED <<source, files, isRunning, srcKey, sector, rawMd5, lastImageMd5, runs>>

WriteChunk ==
    /\ pc = "write"
    /\ part' = part \o buffer /\ rawMd5' = rawMd5 \o buffer
    /\ sector' = sector + Len(buffer) /\ buffer' = <<>>
    /\ pc' = "read"
    /\ UNCHANGED <<source, side, dest, isRunning, srcKey, lastImageMd5, runs>>

\* Some of the chunk may be in the file; all of it is in the hash.
WriteFails ==
    /\ pc = "write" /\ "write" \in MayFail
    /\ \E n \in 0..(Len(buffer) - 1) : part' = part \o Prefix(buffer, n)
    /\ rawMd5' = rawMd5 \o buffer /\ buffer' = <<>>
    /\ pc' = "saveError"
    /\ UNCHANGED <<source, side, dest, isRunning, srcKey, sector, lastImageMd5, runs>>

StopSeen ==
    /\ pc = "read" /\ ~isRunning /\ sector < NSectors
    /\ pc' = "saveStop"
    /\ UNCHANGED <<source, files, isRunning, run, lastImageMd5, runs>>

\* Mutant: the resume point is the chunk that comes next.
SavedAhead == [done |-> sector + ChunkLen, key |-> srcKey, md5 |-> rawMd5,
               source |-> source, stopped |-> pc = "saveStop"]

Saved == [done |-> sector, key |-> srcKey, md5 |-> rawMd5,
          source |-> source, stopped |-> pc = "saveStop"]

\* writeResumeSidecar truncates the old sidecar and writes the new one.
SaveResumePoint ==
    /\ pc \in {"saveStop", "saveError"}
    /\ \/ side' = Saved
       \/ "sidecar" \in MayFail /\ side' \in {side, NoSidecar}
    /\ pc' = "idle" /\ isRunning' = FALSE
    /\ UNCHANGED <<source, part, dest, run, lastImageMd5, runs>>

----------------------------------------------------------------------------
(* The end of a run that read every sector                                 *)

\* The result of close() is not looked at: what the stream's buffer still held
\* of the last chunk may be missing from the file.
LastChunk == ((NSectors - 1) % Chunk) + 1
Close ==
    /\ pc = "read" /\ sector = NSectors
    /\ \/ part' = part
       \/ /\ "close" \in MayFail
          /\ \E lost \in 1..LastChunk : part' = Prefix(part, NSectors - lost)
    /\ pc' = "replace"
    /\ UNCHANGED <<source, side, dest, isRunning, run, lastImageMd5, runs>>

RemoveDest ==
    /\ pc = "replace"
    /\ dest' = <<>> /\ pc' = "rename"
    /\ UNCHANGED <<source, part, side, isRunning, run, lastImageMd5, runs>>

Rename ==
    /\ pc = "rename"
    /\ \/ /\ dest' = part /\ part' = <<>> /\ side' = [side EXCEPT !.stopped = FALSE]
          /\ pc' = "finish" /\ UNCHANGED isRunning
       \/ /\ "rename" \in MayFail /\ pc' = "idle" /\ isRunning' = FALSE
          /\ UNCHANGED files
    /\ UNCHANGED <<source, run, lastImageMd5, runs>>

Finish ==
    /\ pc = "finish"
    /\ \/ side' = NoSidecar
       \/ "remove" \in MayFail /\ UNCHANGED side
    /\ lastImageMd5' = rawMd5
    /\ pc' = "idle" /\ isRunning' = FALSE
    /\ UNCHANGED <<source, part, dest, run, runs>>

----------------------------------------------------------------------------
\* StopImaging, or the stopImaging of a run that replaces this one
RequestStop ==
    /\ isRunning /\ isRunning' = FALSE
    /\ UNCHANGED <<source, files, pc, run, lastImageMd5, runs>>

\* The process dies; a chunk or a sidecar may be half written.
ImagerDies ==
    /\ pc # "idle" /\ pc' = "idle" /\ isRunning' = FALSE
    /\ IF pc = "write"
       THEN \E n \in 0..Len(buffer) : part' = part \o Prefix(buffer, n)
       ELSE part' = part
    /\ IF pc \in {"saveStop", "saveError"} THEN side' \in {side, NoSidecar} ELSE side' = side
    /\ sector' = 0 /\ buffer' = <<>> /\ rawMd5' = <<>> /\ lastImageMd5' = <<>>
    /\ UNCHANGED <<source, dest, srcKey, runs>>

\* Another source takes the place of this one.
ReplaceSource ==
    /\ pc = "idle" /\ runs < NRuns /\ source' \in Sources \ {source}
    /\ UNCHANGED <<files, pc, isRunning, run, lastImageMd5, runs>>

Idle == pc = "idle" /\ UNCHANGED imagingVars

ImagingNext ==
    \/ StartImaging \/ ReadSidecar \/ VerifyPrefix \/ OpenToAppend \/ Discard \/ Create
    \/ ReadChunk \/ WriteChunk \/ WriteFails \/ StopSeen \/ SaveResumePoint
    \/ Close \/ RemoveDest \/ Rename \/ Finish
    \/ RequestStop \/ ImagerDies \/ ReplaceSource \/ Idle

ImagingSpec == ImagingInit /\ [][ImagingNext]_imagingVars

----------------------------------------------------------------------------
(* Properties                                                              *)

\* disk_imager.cpp:344-346, the ceiling of the resume checks: two sources that
\* agree on the sample and on the fingerprint windows, as far as they can be read.
Confusable(s, t) == \A w \in (Windows \cup {Sample}) \ Bad : s[w] = t[w]

\* disk_imager.cpp:327: a resumed image is byte-identical to a one-shot run.
\* Whatever stops, failures, deaths and source swaps came before, the file that
\* is promoted has every sector of the source it is promoted for, zeros only
\* where a read failed; up to the ceiling.
ByteIdentical ==
    [][dest' # dest /\ dest' # <<>> =>
         /\ Len(dest') = NSectors
         /\ \A i \in Sectors :
              \/ i \in Bad /\ dest'[i] = 0
              \/ \E s \in Sources : Confusable(s, source) /\ dest'[i] = s[i]]_imagingVars

\* A digest is only ever published for an image whose every byte it hashes.
DigestOfImage == lastImageMd5 # <<>> => lastImageMd5 = dest

\* disk_imager.cpp:606-610: a truncated acquisition can never present itself
\* as a verified image.
VerifiedIsWhole == lastImageMd5 # <<>> => Len(dest) = NSectors

\* No read of what identifies the source can fail.
Readable == (Windows \cup {Sample}) \cap Bad = {}

\* The .part of a run that was stopped is not thrown away: unless the source
\* was replaced or its identity cannot be read, the next run resumes from it,
\* also when runs in between died.
StoppedRunResumes ==
    [][pc' = "discard" /\ pc \in {"decide", "verify"}
         => ~(side.stopped /\ side.done > 0 /\ side.source = source /\ Readable)]_imagingVars
=============================================================================
