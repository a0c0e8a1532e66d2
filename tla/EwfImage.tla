------------------------------ MODULE EwfImage ------------------------------
(***************************************************************************)
(* EwfWriter as DiskImager drives it, and EwfReader over what it leaves in *)
(* its files: segments of chunks, each with a table of where the chunks    *)
(* start, and in the last one the sectors that did not read and a digest.  *)
(*                                                                         *)
(* A job is [size, packed, sizes, damaged]: a disk of so many sectors,     *)
(* whether chunks are deflated and how long each chunk then is, and the    *)
(* sectors that do not read.  A stored byte of a deflated chunk says which *)
(* part of which chunk it is, a sector of a raw one is itself.             *)
(***************************************************************************)
EXTENDS Integers, Sequences, SequencesExt, FiniteSetsExt

CONSTANTS
    EwfJobs,
    EwfChunk,     \* sectorsPerChunk
    EwfBlock,     \* sectors DiskImager gives to one write
    MaxSection,   \* maxSectorsSectionBytes_
    WordLimit     \* 2^32, of the entries of a table

\* The chunks of a disk deflate to something.
EwfJob(j) ==
    /\ j.size \in Nat /\ j.packed \in BOOLEAN
    /\ j.sizes \in Seq(Nat \ {0}) /\ (j.packed => j.size <= Len(j.sizes) * EwfChunk)

ASSUME EwfAssumption ==
    /\ EwfChunk \in Nat \ {0} /\ EwfBlock \in Nat \ {0} /\ WordLimit \in Nat \ {0}
    /\ MaxSection \in Nat
    /\ \A j \in EwfJobs : EwfJob(j)

VARIABLES
    job,
    writer,       \* [pc, chunks, pending, fed, data, offsets, spoilt]
    segments,     \* the files that are closed: [sized, data, table, errors, digest, total]
    lost          \* ghost: a write, a file or a patch of a header was lost

ewfVars == <<job, writer, segments, lost>>

NoDigest == <<-1>>
NoSector == -1

Acquired(s) == IF s \in job.damaged THEN 0 ELSE s

----------------------------------------------------------------------------
(* EwfWriter                                                               *)

InChunk(n, plain) ==
    IF job.packed THEN [i \in 1..job.sizes[n] |-> [plain |-> plain, part |-> i, of |-> job.sizes[n]]]
    ELSE plain

flushChunk(w) ==
    IF w.pending = <<>> THEN w
    ELSE [w EXCEPT !.offsets = Append(@, Len(w.data)),
                   !.data = @ \o InChunk(w.chunks + 1, w.pending),
                   !.chunks = @ + 1, !.pending = <<>>]

PaddedTable(offsets, length) ==
    LET entries == Append(offsets, length % WordLimit)
    IN  entries \o [i \in 1..((4 - (Len(entries) % 4)) % 4) |-> 0]

\* The size of the sectors section is written last, over the zero that
\* startSegment put there: the stream of a write that failed never gets to it.
closeSegment(w, closing) ==
    [sized |-> ~w.spoilt, data |-> w.data, table |-> PaddedTable(w.offsets, Len(w.data)),
     errors |-> IF closing THEN job.damaged ELSE {},
     digest |-> IF closing THEN w.fed ELSE NoDigest, total |-> 1]

startSegment(w) == [w EXCEPT !.data = <<>>, !.offsets = <<>>, !.spoilt = FALSE]

Rotates(w) == Len(w.data) > 0 /\ Len(w.data) + EwfChunk > MaxSection

Fed(w, s) == [w EXCEPT !.pending = Append(@, s), !.fed = Append(@, s)]

\* EwfWriter::write, a sector: [writer, closed].  rotateSegment finds the chunk
\* still pending, so the segment that is full gets it too.
WriteSector(out, s) ==
    LET w == Fed(out.writer, s)
    IN  CASE Len(w.pending) < EwfChunk -> [writer |-> w, closed |-> out.closed]
          [] Len(w.pending) = EwfChunk /\ ~Rotates(w) -> [writer |-> flushChunk(w), closed |-> out.closed]
          [] OTHER -> [writer |-> startSegment(flushChunk(w)),
                       closed |-> Append(out.closed, closeSegment(flushChunk(w), FALSE))]

EwfInit ==
    /\ job \in EwfJobs
    /\ writer = [pc |-> "writing", chunks |-> 0, pending |-> <<>>, fed |-> <<>>, data |-> <<>>,
                 offsets |-> <<>>, spoilt |-> FALSE]
    /\ segments = <<>> /\ lost = FALSE

\* DiskImager::imagingRun, a block.  Where the file of the next segment cannot
\* be made the run fails, and nothing more is written.
WriteBlock ==
    LET read == Len(writer.fed)
        count == Min({EwfBlock, job.size - read})
        after[n \in 0..count] ==
            IF n = 0 THEN [writer |-> writer, closed |-> segments]
            ELSE WriteSector(after[n - 1], Acquired(read + n))
    IN  /\ writer.pc = "writing" /\ read < job.size
        /\ \E out \in {after[count]} :
             /\ segments' = out.closed
             /\ \/ writer' = out.writer /\ UNCHANGED lost
                \/ Len(out.closed) > Len(segments) /\ writer' = [out.writer EXCEPT !.pc = "failed"] /\ lost' = TRUE
    /\ UNCHANGED job

\* The disk is full: nothing looks at the state of the stream.
WriteLost ==
    /\ writer.pc = "writing" /\ ~writer.spoilt
    /\ writer' = [writer EXCEPT !.spoilt = TRUE] /\ lost' = TRUE
    /\ UNCHANGED <<job, segments>>

\* EwfWriter::finish at the end of the disk, abort where the run was stopped;
\* the header of the first segment may not take the number of segments.
CloseImage ==
    LET closing == Len(writer.fed) = job.size
        closed == Append(segments, closeSegment(flushChunk(writer), closing))
    IN  /\ writer.pc = "writing"
        /\ writer' = [flushChunk(writer) EXCEPT !.pc = IF closing THEN "finished" ELSE "aborted"]
        /\ \/ segments' = [closed EXCEPT ![1].total = Len(closed)] /\ UNCHANGED lost
           \/ segments' = closed /\ Len(closed) > 1 /\ lost' = TRUE
        /\ UNCHANGED job

EwfNext == WriteBlock \/ WriteLost \/ CloseImage

EwfSpec == EwfInit /\ [][EwfNext]_ewfVars

----------------------------------------------------------------------------
(* EwfReader, over the files as they are: a process that dies leaves them  *)
(* so, and the segment it was in without the size of its sectors.          *)

\* The padding goes, and the total behind it
ChunkTable(table) ==
    LET entries == Max({1} \cup {i \in DOMAIN table : table[i] # 0})
    IN  SubSeq(table, 1, entries - 1)

\* Mutant: a segment counts for what it stores.
StoredBytes(segment) == Len(segment.data)

ImageBytes(segment) ==
    IF job.packed THEN Len(ChunkTable(segment.table)) * EwfChunk ELSE Len(segment.data)

imageBaseOffset(k) ==
    LET base[j \in 0..Len(segments)] == IF j = 0 THEN 0 ELSE base[j - 1] + ImageBytes(segments[j])
    IN  base[k - 1]

parseAllSegments ==
    /\ segments # <<>>
    /\ segments[1].total <= Len(segments)
    /\ \A k \in 1..segments[1].total : segments[k].sized

\* inflateChunk: the bytes begin with one whole chunk, of so many sectors.
inflates(bytes, expected) ==
    /\ bytes # <<>> /\ bytes[1].of <= Len(bytes) /\ Len(bytes[1].plain) = expected
    /\ \A i \in 1..bytes[1].of : bytes[i] = [bytes[1] EXCEPT !.part = i]

\* The sector at image offset pos, counted from 0
Unpacked(segment, base, pos) ==
    LET table == ChunkTable(segment.table)
        k == (pos - base) \div EwfChunk + 1
        end == IF k < Len(table) THEN table[k + 1] ELSE Len(segment.data)
        bytes == SubSeq(segment.data, table[k] + 1, end)
        expected == Min({EwfChunk, job.size - base - (k - 1) * EwfChunk})
    IN  IF k > Len(table) \/ end < table[k] \/ end > Len(segment.data) \/ ~inflates(bytes, expected) THEN NoSector
        ELSE bytes[1].plain[((pos - base) % EwfChunk) + 1]

readEwf(pos) ==
    LET holds(k) == imageBaseOffset(k) <= pos /\ pos < imageBaseOffset(k) + ImageBytes(segments[k])
        found == {k \in 1..segments[1].total : holds(k)}
    IN  IF found = {} THEN NoSector
        ELSE IF job.packed THEN Unpacked(segments[Min(found)], imageBaseOffset(Min(found)), pos)
        ELSE segments[Min(found)].data[pos - imageBaseOffset(Min(found)) + 1]

StoredDigest ==
    LET with == {k \in 1..segments[1].total : segments[k].digest # NoDigest}
    IN  IF with = {} THEN NoDigest ELSE segments[Max(with)].digest

verifyDigest ==
    /\ StoredDigest # NoDigest
    /\ [i \in 1..job.size |-> readEwf(i - 1)] = StoredDigest

acquiryErrors == UNION {segments[k].errors : k \in 1..segments[1].total}

----------------------------------------------------------------------------
(* Properties                                                              *)

\* No deflated segment that has chunks stores a multiple of 2^32 bytes: the last
\* entry of its table would be zero and go with the padding, a chunk would go
\* with it, and the segments behind it would move up.
TotalsReadable ==
    \A k \in DOMAIN segments :
        job.packed /\ segments[k].data # <<>> => Len(segments[k].data) % WordLimit # 0

\* Whatever is lost, wherever a run stops and at every moment the process may
\* die, the files either do not open or give each sector as it was acquired or
\* not at all; they verify only if the run ended and every sector reads; and a
\* run that lost nothing leaves an image that opens, an aborted one the chunks
\* it had whole, a finished one all, with its errors, and verifies.
EwfReadsBack ==
    /\ parseAllSegments /\ TotalsReadable =>
         \A pos \in 0..(job.size - 1) : readEwf(pos) \in {NoSector, Acquired(pos + 1)}
    /\ parseAllSegments /\ verifyDigest =>
         /\ writer.pc = "finished" /\ acquiryErrors = job.damaged
         /\ \A pos \in 0..(job.size - 1) : readEwf(pos) = Acquired(pos + 1)
    /\ writer.pc \in {"finished", "aborted"} /\ ~lost /\ TotalsReadable =>
         /\ parseAllSegments
         /\ \A pos \in 0..((Len(writer.fed) \div EwfChunk) * EwfChunk - 1) :
               readEwf(pos) = Acquired(pos + 1)
         /\ writer.pc = "finished" => verifyDigest
=============================================================================
