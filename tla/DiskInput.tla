----------------------------- MODULE DiskInput -----------------------------
(***************************************************************************)
(* Where every operation reads from: DiskReader over a device, a file in   *)
(* parts, an EWF image, an object on a web server, a memory volume or a    *)
(* RAID set; its key for encrypted volumes, its clones for a parallel      *)
(* carve, and its count of the sectors that did not read.                  *)
(*                                                                         *)
(* A source is [kind, parts, sectors, bad, lock]: its parts are the files  *)
(* <<[there, sectors], ...>> its name counts up to; lock is the key and    *)
(* first encrypted sector of its volume.  A byte is [at, under]: where it  *)
(* is in the source, and under which encryption it still lies.             *)
(***************************************************************************)
EXTENDS Integers, Sequences, SequencesExt, FiniteSetsExt

CONSTANTS
    Sources,       \* sources by name
    Spans,         \* what is read: [at, length] in bytes
    SourceSector,   \* sectorSize_
    NWorkers,      \* clones of a parallel carve
    MaxSamples,    \* kMaxBadSamples
    MaxReads,      \* reads of one operation
    MaxUnlocks     \* keys set in a session

SourceKinds == {"memory", "file", "ewf", "http", "raid", "drive", "volume"}
InputSource(src) ==
    /\ src.kind \in SourceKinds /\ src.sectors \in Nat /\ src.lock \in [key : STRING, from : Nat]
    /\ src.parts \in Seq([there : BOOLEAN, sectors : Nat])

ASSUME InputAssumption ==
    /\ \A name \in DOMAIN Sources : InputSource(Sources[name])
    /\ \A span \in Spans : span.at \in Nat /\ span.length \in Nat \ {0}
    /\ SourceSector \in Nat \ {0} /\ MaxSamples \in Nat \ {0}
    /\ NWorkers \in Nat /\ MaxReads \in Nat /\ MaxUnlocks \in Nat

VARIABLES
    platform,      \* "windows" or "posix"
    engine,        \* the shared reader: [key, from]
    readers,       \* readers of the operation, the first its own: [source, key, from, stuck, bad, samples]
    latest,          \* the latest read: [by, span, result]
    noted,         \* sectors counted as unread in this operation, in order
    merged,        \* whether the counts of the clones were added
    reads, unlocks \* how many, against the bounds

inputVars == <<platform, engine, readers, latest, noted, merged, reads, unlocks>>

NoKey == [key |-> "none", from |-> 0]
NoRead == [by |-> 0]

----------------------------------------------------------------------------
(* What lies in a source                                                   *)

\* The parts a file is made of: those that are there, up to the first gap
collectSplitRawSegments(src) ==
    LET gap == SelectInSeq(src.parts, LAMBDA p : ~p.there)
    IN  IF gap = 0 THEN src.parts ELSE SubSeq(src.parts, 1, gap - 1)

\* The sectors before part k
PartBase(parts, k) ==
    LET base[j \in 0..Len(parts)] == IF j = 0 THEN 0 ELSE base[j - 1] + parts[j].sectors
    IN  base[k - 1]

SizeOf(src) ==
    SourceSector * (IF src.kind = "file" THEN PartBase(collectSplitRawSegments(src), Len(collectSplitRawSegments(src)) + 1) ELSE src.sectors)

OnMedium(src, b) ==
    LET s == b \div SourceSector
    IN  [at |-> b, under |-> IF src.lock.key # "none" /\ s >= src.lock.from
                             THEN <<[key |-> src.lock.key, tweak |-> s - src.lock.from]>> ELSE <<>>]

\* maybeDecryptXts, of a byte that was read: once more with the wrong key or
\* the wrong sector number leaves it encrypted twice.
Decrypted(reader, byte) ==
    LET s == byte.at \div SourceSector
        layer == [key |-> reader.key, tweak |-> s - reader.from]
    IN  IF reader.key = "none" \/ s < reader.from THEN byte
        ELSE [byte EXCEPT !.under = IF @ = <<layer>> THEN <<>> ELSE Append(@, layer)]

DecryptsHere(src) == platform = "windows" \/ src.kind = "raid"

Stale == [at |-> -1, under |-> <<>>]
ZeroByte == [at |-> -2, under |-> <<>>]

----------------------------------------------------------------------------
(* DiskReader::readSectors                                                 *)

SectorsIn(at, length) == {s \in 0..(at + length) : s * SourceSector < at + length /\ (s + 1) * SourceSector > at}

BytesOf(reader, at, length, upTo) ==
    LET src == Sources[reader.source]
        plain(b) == IF DecryptsHere(src) THEN Decrypted(reader, OnMedium(src, b)) ELSE OnMedium(src, b)
    IN  [i \in 1..length |-> IF i <= upTo THEN plain(at + i - 1) ELSE Stale]

Reply(success, got, padded, note, bytes, stuck) ==
    [success |-> success, got |-> got, padded |-> padded, note |-> note, bytes |-> bytes, stuck |-> stuck]

Replied(reader, at, length) ==
    Reply(TRUE, length, FALSE, FALSE, BytesOf(reader, at, length, length), reader.stuck)

NotRead(reader, length, note) ==
    Reply(FALSE, 0, FALSE, note, [i \in 1..length |-> Stale], reader.stuck)

\* What zeros stand for is padded: it was behind the end, or nothing was read.
PaddedTo(reader, at, length, avail, got, success) ==
    LET raw(i) == OnMedium(Sources[reader.source], at + i - 1)
    IN  Reply(success, got, TRUE, TRUE, [i \in 1..length |-> IF i <= avail THEN raw(i) ELSE ZeroByte],
               reader.stuck)

MemoryRead(reader, src, at, length) ==
    LET avail == Max({0, Min({length, SizeOf(src) - at})})
    IN  CASE SectorsIn(at, length) \cap src.bad # {} -> {NotRead(reader, length, TRUE)}
          [] SectorsIn(at, length) \cap src.bad = {} /\ avail = length -> {Replied(reader, at, length)}
          [] OTHER -> IF platform = "windows" THEN {PaddedTo(reader, at, length, avail, avail, TRUE)}
                      ELSE {NotRead(reader, length, FALSE)}

\* A stream of a file stays failed once a read of it has failed, and the parts
\* behind the one that fails are not read.
FileRead(reader, src, at, length) ==
    LET parts == collectSplitRawSegments(src)
        inPart(k) == SectorsIn(at, length) \cap PartBase(parts, k)..(PartBase(parts, k + 1) - 1)
        fails == {k \in DOMAIN parts : inPart(k) # {} /\ (k \in reader.stuck \/ inPart(k) \cap src.bad # {})}
    IN  CASE at + length > SizeOf(src) -> {NotRead(reader, length, TRUE)}
          [] at + length <= SizeOf(src) /\ fails # {} ->
               {[NotRead(reader, length, TRUE) EXCEPT !.stuck = @ \cup {Min(fails)}]}
          [] OTHER -> {Replied(reader, at, length)}

EwfRead(reader, src, at, length) ==
    IF at + length > SizeOf(src) \/ SectorsIn(at, length) \cap src.bad # {}
    THEN {NotRead(reader, length, TRUE)} ELSE {Replied(reader, at, length)}

\* Mutant: any 200 will do.
httpRangeReadStatusOkAny(status, at, length, size) == status \in {200, 206}

\* A 200 is the object from its first byte.
httpRangeReadStatusOk(status, at, length, size) ==
    status = 206 \/ (status = 200 /\ at = 0 /\ length = size)

\* An attempt and one more; a server that ignores Range answers 200 each time.
HttpRead(reader, src, at, length) ==
    LET from(status) == IF status = 200 THEN 0 ELSE at
        answered(status) ==
            [Replied(reader, at, length) EXCEPT !.bytes = BytesOf(reader, from(status), length, length)]
        ok(attempt) == attempt.whole /\ httpRangeReadStatusOk(attempt.status, at, length, SizeOf(src))
        attempts == [status : {200, 206, 500}, whole : BOOLEAN]
    IN  IF at + length > SizeOf(src) THEN {NotRead(reader, length, TRUE)}
        ELSE {IF ok(first) THEN answered(first.status)
              ELSE IF ok(second) THEN answered(second.status)
              ELSE NotRead(reader, length, TRUE) : first \in attempts, second \in attempts}

\* VirtualRaid::read ends with the array, and throws where too much is lost.
RaidRead(reader, src, at, length) ==
    LET avail == Max({0, Min({length, SizeOf(src) - at})})
    IN  CASE SectorsIn(at, length) \cap src.bad # {} -> {PaddedTo(reader, at, length, 0, 0, FALSE)}
          [] SectorsIn(at, length) \cap src.bad = {} /\ avail = length -> {Replied(reader, at, length)}
          [] OTHER -> {PaddedTo(reader, at, length, avail, length, TRUE)}

\* ReadFile with an event and a wait of five seconds: it may give less, fail,
\* run out of time and be cancelled, or the wait itself may fail.
DeviceRead(reader, src, at, length) ==
    LET whole == at + length <= SizeOf(src) /\ SectorsIn(at, length) \cap src.bad = {}
        short(n) == Reply(TRUE, n, FALSE, FALSE, BytesOf(reader, at, length, n), reader.stuck)
        upTo == {n \in 0..(length - 1) : n % SourceSector = 0 /\ at + n <= SizeOf(src)
                                         /\ SectorsIn(at, n) \cap src.bad = {}}
    IN  (IF whole THEN {Replied(reader, at, length)} ELSE {})
          \cup {short(n) : n \in upTo}
          \cup {NotRead(reader, length, note) : note \in BOOLEAN}

readSectors(reader, at, length) ==
    LET src == Sources[reader.source]
    IN  CASE src.kind = "memory" -> MemoryRead(reader, src, at, length)
          [] src.kind = "file" -> FileRead(reader, src, at, length)
          [] src.kind = "ewf" -> EwfRead(reader, src, at, length)
          [] src.kind = "http" -> HttpRead(reader, src, at, length)
          [] src.kind = "raid" -> RaidRead(reader, src, at, length)
          [] OTHER -> DeviceRead(reader, src, at, length)

\* What is copied out of the whole sectors around the bytes asked for.
Sliced(result, skip, length) ==
    LET got == Min({result.got - skip, length})
    IN  IF result.got > skip THEN [result EXCEPT !.got = got,
                 !.bytes = [i \in 1..length |-> IF i <= got THEN @[skip + i] ELSE Stale]]
        ELSE [result EXCEPT !.got = 0, !.bytes = [i \in 1..length |-> Stale],
                 !.success = FALSE]

readBytes(reader, span) ==
    LET skip == span.at % SourceSector
        length == ((skip + span.length + SourceSector - 1) \div SourceSector) * SourceSector
    IN  IF skip = 0 /\ span.length % SourceSector = 0 THEN readSectors(reader, span.at, span.length)
        ELSE {Sliced(result, skip, span.length) : result \in readSectors(reader, span.at - skip, length)}

----------------------------------------------------------------------------
(* Sectors that did not read                                               *)

SectorsRead(span) ==
    LET first == span.at \div SourceSector
        last == (span.at + span.length - 1) \div SourceSector
    IN  [i \in 1..((last - first) + 1) |-> first + (i - 1)]

\* noteBadRead: all are counted; a sample is kept, thinned when one read alone
\* would fill it.
noteBadRead(reader, sectors) ==
    LET count == Len(sectors)
        stride == IF count > MaxSamples THEN count \div MaxSamples + 1 ELSE 1
        thinned == [i \in 1..((count + stride - 1) \div stride) |-> sectors[(i - 1) * stride + 1]]
        room == Max({0, MaxSamples - Len(reader.samples)})
    IN  [reader EXCEPT !.bad = @ + count,
                       !.samples = @ \o SubSeq(thinned, 1, Min({room, Len(thinned)}))]

mergeBadSectorTelemetryFrom(reader, clone) ==
    LET room == Max({0, MaxSamples - Len(reader.samples)})
    IN  [reader EXCEPT !.bad = @ + clone.bad,
                       !.samples = @ \o SubSeq(clone.samples, 1, Min({room, Len(clone.samples)}))]

----------------------------------------------------------------------------
InputInit ==
    /\ platform \in {"windows", "posix"}
    /\ engine = NoKey
    /\ readers = <<>> /\ latest = NoRead /\ noted = <<>> /\ merged = FALSE
    /\ reads = 0 /\ unlocks = 0

NoOperation == readers = <<>>

\* SetBitLockerFvek: a key as text, or none, which forgets the offset too
SetFvek ==
    /\ NoOperation /\ unlocks < MaxUnlocks /\ unlocks' = unlocks + 1
    /\ \/ engine' = NoKey
       \/ \E name \in DOMAIN Sources :
             Sources[name].lock.key # "none" /\ engine' = [engine EXCEPT !.key = Sources[name].lock.key]
    /\ UNCHANGED <<platform, readers, latest, noted, merged, reads>>

\* SetLuksPassword, SetBitLockerPassword, SetBitLockerRecoveryPassword: the header
\* is read through the shared reader, with the key that is set; BitLocker
\* leaves the offset as it was.
Unlock(name) ==
    /\ NoOperation /\ platform = "windows" /\ unlocks < MaxUnlocks /\ unlocks' = unlocks + 1
    /\ Sources[name].kind = "drive" /\ Sources[name].lock.key # "none"
    /\ engine.key = "none" \/ engine.from > 0
    /\ engine' = IF Sources[name].lock.from > 0 THEN Sources[name].lock
                 ELSE [engine EXCEPT !.key = Sources[name].lock.key]
    /\ UNCHANGED <<platform, readers, latest, noted, merged, reads>>

\* bindReaderForRecord, ScanCoordinator::scanWorker, DiskImager::imagingWorker: a
\* reader of its own, with the key of the shared one; a shadow copy is read in
\* the clear, and so is what is imaged, but for RAID.
Bind(name, use) ==
    /\ NoOperation
    /\ platform = "windows" \/ Sources[name].kind \notin {"drive", "volume", "http"}
    /\ Sources[name].kind = "file" => Len(collectSplitRawSegments(Sources[name])) > 0
    /\ LET clear == use = "image" /\ Sources[name].kind # "raid"
           own == IF clear THEN NoKey ELSE engine
       IN  readers' = <<[source |-> name, key |-> own.key, from |-> own.from, stuck |-> {},
                         bad |-> 0, samples |-> <<>>]>>
    /\ noted' = <<>> /\ merged' = FALSE /\ latest' = NoRead /\ reads' = 0
    /\ UNCHANGED <<platform, engine, unlocks>>

supportsParallelScan(reader) == Sources[reader.source].kind \in {"memory", "file", "ewf"}

\* clone: the source opened once more, with the key
clone(reader) == [reader EXCEPT !.stuck = {}, !.bad = 0, !.samples = <<>>]

\* runUnallocatedCarve: a clone for each worker
Spawn ==
    /\ Len(readers) = 1 /\ ~merged /\ supportsParallelScan(readers[1])
    /\ readers' = readers \o [w \in 1..NWorkers |-> clone(readers[1])]
    /\ UNCHANGED <<platform, engine, latest, noted, merged, reads, unlocks>>

\* While there are clones only they read.
ReadSpan(r, span) ==
    /\ r \in DOMAIN readers /\ reads < MaxReads /\ (r = 1 <=> Len(readers) = 1)
    /\ \E result \in readBytes(readers[r], span) :
         LET sectors == IF result.note THEN SectorsRead(span) ELSE <<>>
             after == [readers[r] EXCEPT !.stuck = result.stuck]
         IN  /\ readers' = [readers EXCEPT ![r] = IF result.note THEN noteBadRead(after, sectors) ELSE after]
             /\ latest' = [by |-> r, span |-> span, result |-> result]
             /\ noted' = noted \o sectors
    /\ reads' = reads + 1
    /\ UNCHANGED <<platform, engine, merged, unlocks>>

\* The workers are joined, and the clones' counts are added to the reader's.
Join ==
    /\ Len(readers) > 1
    /\ LET merge[k \in 0..(Len(readers) - 1)] ==
              IF k = 0 THEN readers[1] ELSE mergeBadSectorTelemetryFrom(merge[k - 1], readers[k + 1])
       IN  readers' = <<merge[Len(readers) - 1]>>
    /\ merged' = TRUE /\ latest' = NoRead
    /\ UNCHANGED <<platform, engine, noted, reads, unlocks>>

Release ==
    /\ Len(readers) = 1
    /\ readers' = <<>> /\ latest' = NoRead /\ noted' = <<>> /\ merged' = FALSE /\ reads' = 0
    /\ UNCHANGED <<platform, engine, unlocks>>

InputNext ==
    \/ SetFvek \/ \E name \in DOMAIN Sources : Unlock(name)
    \/ \E name \in DOMAIN Sources, use \in {"scan", "image"} : Bind(name, use)
    \/ Spawn \/ Join \/ Release
    \/ \E r \in DOMAIN readers, span \in Spans : ReadSpan(r, span)

InputSpec == InputInit /\ [][InputNext]_inputVars

----------------------------------------------------------------------------
(* Properties                                                              *)

\* A read that counts as complete (readComplete) has every byte of the source,
\* in the clear when the reader has the key and the offset of its volume, from
\* whichever part, attempt or clone it came; and no byte that is counted as
\* read is one that was in the buffer before.
ReadsAreWhole ==
    latest # NoRead =>
      LET reader == readers[latest.by]
          src == Sources[reader.source]
          result == latest.result
          suits == [key |-> reader.key, from |-> reader.from] = src.lock
          truth(i) == IF suits /\ DecryptsHere(src) THEN [at |-> latest.span.at + i - 1, under |-> <<>>]
                      ELSE OnMedium(src, latest.span.at + i - 1)
      IN  /\ \A i \in 1..result.got : result.bytes[i] # Stale
          /\ result.success /\ ~result.padded /\ (suits \/ reader.key = "none")
               => \A i \in 1..result.got : result.bytes[i] = truth(i)
          /\ result.success => result.got > 0 \/ result.padded \/ src.kind \in {"drive", "volume"}

\* A read of a medium in order fails only behind its end or where a sector is
\* bad; of a file also when a read of that part has failed before.
FailsForAReason ==
    latest # NoRead =>
      LET src == Sources[readers[latest.by].source]
          there == SectorsIn(latest.span.at, latest.span.length)
      IN  src.kind \notin {"drive", "volume", "http"} /\ ~latest.result.success /\ there \cap src.bad = {}
            => readers[latest.by].stuck # {} \/ \E s \in there : s * SourceSector >= SizeOf(src)

\* No sector that was counted as unread is lost on the way from a worker's
\* clone to the reader of the scan, and while there is room each is on the map.
UnreadIsCounted ==
    Len(readers) = 1 =>
      /\ readers[1].bad = Len(noted)
      /\ Len(readers[1].samples) <= MaxSamples
      /\ Range(readers[1].samples) \subseteq Range(noted)
      /\ Len(noted) <= MaxSamples => Len(readers[1].samples) = Len(noted)

\* What a reader says of a read is so.
InputIsTrue == ReadsAreWhole /\ FailsForAReason /\ UnreadIsCounted
=============================================================================
