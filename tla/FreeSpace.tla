----------------------------- MODULE FreeSpace -----------------------------
(***************************************************************************)
(* Where a deep scan carves: PartitionScanner finds the partitions of a    *)
(* disk in its tables or by searching it, probeVolumeAt says what lies in  *)
(* one, and collectUnallocatedForScan takes from each file system's own    *)
(* map the ranges of sectors that no file owns.                            *)
(*                                                                         *)
(* A disk is [sectors, gpt, mbr, apm, volumes], with volumes a function    *)
(* from the sector a volume starts at.  A volume is                        *)
(* [marks, reads, usable, data, spc, count, used, owned, piece, bad,       *)
(* empty, shift, wide, ntfs]:                                              *)
(*   marks, reads   the signatures it carries, and how many of the three   *)
(*                  reads of the probe succeed;                            *)
(*   usable         what it says of its layout makes sense;                *)
(*   data, spc      its first cluster's sector and the sectors of one;     *)
(*   count, used    the clusters it declares and what its map says of each *)
(*                  (a map may be shorter than the volume);                *)
(*   owned          the clusters that files and tables own, on which the   *)
(*                  code does not look;                                    *)
(*   piece, bad     clusters whose entries are read at once (a window of   *)
(*                  the FAT, a block group), and the pieces that fail;     *)
(*   empty          block groups without a bitmap;                         *)
(*   shift, wide    the first data block of an ext4 volume, and whether    *)
(*                  its group descriptors have 64 bytes;                   *)
(*   ntfs           [first, mirror, ran, direct, runs, store, resident]:   *)
(*                  what the places of the records of the MFT hold, and    *)
(*                  the bitmap, behind a runlist or in its record.         *)
(***************************************************************************)
EXTENDS Integers, SequencesExt, FiniteSetsExt

CONSTANTS
    Drives,       \* disks
    Targets,      \* partitions a scan is limited to: [first, count], count 0 for all
    Step          \* stepSectors of the search for lost partitions

VARIABLES
    drive,
    survey,       \* [pc, parts, at, out, tableUnread, mapUnread, fallback]
    finder        \* [sector, found, unread]

spaceVars == <<drive, survey, finder>>

Part(first, count) == [first |-> first, count |-> count]

\* What the turns of a loop push, one turn after the other
Pushed(turns) ==
    LET after[k \in 0..Len(turns)] == IF k = 0 THEN <<>> ELSE after[k - 1] \o turns[k]
    IN  after[Len(turns)]

----------------------------------------------------------------------------
(* probeVolumeAt                                                           *)

FirstOf(order, marks) ==
    LET hits == {i \in DOMAIN order : order[i] \in marks}
    IN  IF hits = {} THEN "none" ELSE order[Min(hits)]

BootMarks == <<"luks", "spaces", "refs", "ntfs", "exfat", "fat", "apfs", "xfs">>
LateMarks == <<"ext4", "lvm", "iso", "udf">>

ProbeVolume(v) ==
    LET boot == FirstOf(BootMarks, v.marks)
        late == FirstOf(LateMarks, v.marks)
    IN  CASE v.reads = 0 -> "unread"
          [] v.reads > 0 /\ boot # "none" -> boot
          [] v.reads = 1 /\ boot = "none" -> "unread"
          [] v.reads > 1 /\ boot = "none" /\ "hfs" \in v.marks -> "hfs"
          [] v.reads = 2 /\ boot = "none" /\ "hfs" \notin v.marks -> "unread"
          [] OTHER -> IF late = "none" THEN "unknown" ELSE late

ProbeAt(first) ==
    IF first \in DOMAIN drive.volumes THEN ProbeVolume(drive.volumes[first]) ELSE "unknown"

----------------------------------------------------------------------------
(* The partition tables: what is found, and whether something did not read *)

Table(parts, unread) == [parts |-> parts, unread |-> unread]

\* Entries are read a sector at a time, or all at once when one is longer than a
\* sector: then those before the first that does not read.
GptReadable(gpt) ==
    IF gpt.per = 0 THEN {k \in DOMAIN gpt.entries : \A b \in gpt.bad : k <= b}
    ELSE {k \in DOMAIN gpt.entries : (k - 1) \div gpt.per \notin gpt.bad}

parseGPT ==
    LET gpt == drive.gpt
        found == gpt.primary = "ok" \/ (drive.sectors >= 2 /\ gpt.backup = "ok")
        asked == gpt.primary = "bad" \/ (gpt.primary # "ok" /\ drive.sectors >= 2 /\ gpt.backup = "bad")
        consumeEntry(k) ==
            LET entry == gpt.entries[k]
            IN  IF k \in GptReadable(gpt) /\ ~entry.empty
                THEN <<Part(entry.first, entry.last - entry.first + 1)>> ELSE <<>>
    IN  IF ~found THEN Table(<<>>, asked)
        ELSE Table(Pushed([k \in 1..Len(gpt.entries) |-> consumeEntry(k)]),
                   asked \/ GptReadable(gpt) # DOMAIN gpt.entries)

parseMBR ==
    IF drive.mbr.read = "bad" THEN Table(<<>>, TRUE)
    ELSE IF ~drive.mbr.signed THEN Table(<<>>, FALSE)
    ELSE LET entries == drive.mbr.entries
             push(entry) == IF entry.id # 0 THEN <<Part(entry.first, entry.count)>> ELSE <<>>
         IN  Table(Pushed([k \in 1..Len(entries) |-> push(entries[k])]), FALSE)

\* The first entry that does not read ends the map.
parseAPM ==
    LET apm == drive.apm
        good == {k \in DOMAIN apm.entries : \A j \in 1..k : apm.entries[j].reads}
        push(k) ==
            LET entry == apm.entries[k]
            IN  IF k \in good /\ ~entry.skip /\ entry.first > 0 /\ entry.count > 0
                THEN <<Part(entry.first, entry.count)>> ELSE <<>>
    IN  IF drive.mbr.read = "bad" THEN Table(<<>>, TRUE)
        ELSE Table(Pushed([k \in 1..Len(apm.entries) |-> push(k)]), good # DOMAIN apm.entries)

parseTables ==
    LET unread == parseGPT.unread
    IN  CASE parseGPT.parts # <<>> -> parseGPT
          [] parseGPT.parts = <<>> /\ parseMBR.parts # <<>> -> Table(parseMBR.parts, unread \/ parseMBR.unread)
          [] OTHER -> Table(parseAPM.parts, unread \/ parseMBR.unread \/ parseAPM.unread)

----------------------------------------------------------------------------
(* Ranges of sectors                                                       *)

\* r behind the ranges that do not start after it
Inserted(sorted, r) ==
    LET n == CHOOSE n \in 0..Len(sorted) : /\ \A i \in 1..n : sorted[i].first <= r.first
                                          /\ \A i \in (n + 1)..Len(sorted) : r.first < sorted[i].first
    IN  [i \in 1..(Len(sorted) + 1) |->
            IF i <= n THEN sorted[i] ELSE IF i = n + 1 THEN r ELSE sorted[i - 1]]

\* std::sort by the start, written as insertions
SortedRanges(ranges) ==
    LET after[k \in 0..Len(ranges)] == IF k = 0 THEN <<>> ELSE Inserted(after[k - 1], ranges[k])
    IN  after[Len(ranges)]

\* One turn of the merge: r goes on with the last range or begins one.
MergedWith(done, r) ==
    IF done # <<>> /\ r.first <= Last(done).first + Last(done).count
    THEN [done EXCEPT ![Len(done)].count = Max({@, r.first + r.count - Last(done).first})]
    ELSE Append(done, r)

MergedInOrder(sorted) ==
    LET after[k \in 0..Len(sorted)] == IF k = 0 THEN <<>> ELSE MergedWith(after[k - 1], sorted[k])
    IN  after[Len(sorted)]

\* mergeSectorRanges: in order, overlapping and touching ones joined
mergeSectorRanges(ranges) == MergedInOrder(SortedRanges(ranges))

\* Runs of free clusters among those from first to last
FreeRuns(free, first, last) ==
    MergedInOrder(Pushed([n \in 1..(last + 1 - first) |->
                             IF first + n - 1 \in free THEN <<Part(first + n - 1, 1)>> ELSE <<>>]))

\* Clusters to sectors
PlacedEntry(at, v, runs) ==
    [i \in 1..Len(runs) |-> Part(at + v.data + runs[i].first * v.spc, runs[i].count * v.spc)]

Map(ranges, unread) == [ranges |-> ranges, unread |-> unread]

\* Mutant: clusters the map does not reach are free.
UsedShort(v, used, k) == k < Len(used) /\ used[k + 1]

\* A cluster the map does not reach is taken for allocated.
Used(v, used, k) == k >= Len(used) \/ used[k + 1]

\* A window of the FAT that does not read is taken for allocated.
FatRanges(at, v) ==
    LET window(k) == (k + 2) \div v.piece
        free == {k \in 0..(v.count - 1) : ~Used(v, v.used, k) /\ window(k) \notin v.bad}
    IN  Map(PlacedEntry(at, v, FreeRuns(free, 0, v.count - 1)),
            \E k \in 0..(v.count - 1) : k < Len(v.used) /\ window(k) \in v.bad)

\* Descriptors are looked for every 32 bytes: of 64-byte ones each is found with
\* the number twice its own, and its second half as one without a bitmap.
DescribedGroup(v, g) == IF v.wide THEN g \div 2 ELSE g
HasBitmap(v, g) == (v.wide => g % 2 = 0) /\ DescribedGroup(v, g) \notin v.empty

\* A block group whose descriptor or bitmap does not read is left out; its blocks
\* are counted from 0, whichever the first data block is.
Ext4Ranges(at, v) ==
    LET groups == 0..((v.count - 1) \div v.piece)
        low(g) == g * v.piece
        high(g) == Min({(g + 1) * v.piece, v.count}) - 1
        bit(g, k) == DescribedGroup(v, g) * v.piece + (k - low(g))
        free(g) == {k \in low(g)..high(g) : ~Used(v, v.used, bit(g, k))}
        push(g) == IF g \in v.bad \/ ~HasBitmap(v, g) THEN <<>>
                   ELSE PlacedEntry(at, v, FreeRuns(free(g), low(g), high(g)))
    IN  Map(Pushed([n \in 1..((v.count - 1) \div v.piece + 1) |-> push(n - 1)]), groups \cap v.bad # {})

\* $Bitmap is record 6 of the MFT, behind record 0 or its mirror, or else right
\* behind the start of the MFT.  A place holds a "record", something "other", is
\* "unread" or there is "none".
ZeroRecord(ntfs) == ntfs.first = "record" \/ ntfs.mirror = "record"
BehindIt(ntfs) == ZeroRecord(ntfs) /\ ntfs.ran = "record"
BitmapRecord(ntfs) == BehindIt(ntfs) \/ ntfs.direct = "record"

RecordUnread(ntfs) ==
    \/ ntfs.first = "unread"
    \/ ntfs.first # "record" /\ ntfs.mirror = "unread"
    \/ ZeroRecord(ntfs) /\ ntfs.ran = "unread"
    \/ ~BehindIt(ntfs) /\ ntfs.direct = "unread"

\* The sectors a runlist leads to: each run starts relative to the one before
\* (ntfsUnnamedDataRuns).
RunlistSectors(runs) ==
    LET lcn[i \in 0..Len(runs)] == IF i = 0 THEN 0 ELSE lcn[i - 1] + runs[i].delta
    IN  Pushed([i \in 1..Len(runs) |-> [n \in 1..runs[i].count |-> lcn[i] + n - 1]])

\* What the first n sectors of the bitmap say
RunlistBits(ntfs, n) == Pushed([i \in 1..n |-> ntfs.store[RunlistSectors(ntfs.runs)[i]]])

\* Those that are read: no more than the clusters of the volume need
NeededSectors(v) ==
    LET sectors == RunlistSectors(v.ntfs.runs)
    IN  {sectors[i] : i \in {j \in 1..Len(sectors) : Len(RunlistBits(v.ntfs, j - 1)) < v.count}}

NtfsBits(v) ==
    IF v.ntfs.runs = <<>> THEN v.ntfs.resident
    ELSE RunlistBits(v.ntfs, Len(RunlistSectors(v.ntfs.runs)))

\* A bitmap behind a runlist is as long as the volume or not used.
LongEnough(v) == v.ntfs.runs = <<>> \/ Len(NtfsBits(v)) >= v.count

\* A read that fails is noted; that there is no such record, or less of a bitmap
\* than the volume has clusters, is not.
NtfsRanges(at, v) ==
    LET failed == v.ntfs.runs # <<>> /\ NeededSectors(v) \cap v.bad # {}
        free == {k \in 0..(v.count - 1) : ~Used(v, NtfsBits(v), k)}
        read == BitmapRecord(v.ntfs) /\ LongEnough(v) /\ ~failed
    IN  Map(IF read THEN PlacedEntry(at, v, FreeRuns(free, 0, v.count - 1)) ELSE <<>>,
            RecordUnread(v.ntfs) \/ (BitmapRecord(v.ntfs) /\ failed))

\* A volume that is not usable has an empty map, which nothing marks.
buildUnallocatedRanges(part) ==
    LET kind == ProbeAt(part.first)
        v == drive.volumes[part.first]
    IN  CASE kind \in {"fat", "exfat"} /\ v.usable -> FatRanges(part.first, v)
          [] kind = "ext4" /\ v.usable -> Ext4Ranges(part.first, v)
          [] kind = "ntfs" /\ v.usable -> NtfsRanges(part.first, v)
          [] OTHER -> Map(<<>>, FALSE)

----------------------------------------------------------------------------
(* The disks and scans there are                                           *)

\* The signatures of a sector of Storage Spaces and of a boot sector exclude
\* each other; only ext4 leaves out the bitmap of a block group.  A file system's
\* bitmap or table says of each cluster it reaches and a file owns that it is used;
\* the FAT of an exFAT volume need not.
VolumeIsSound(v) ==
    /\ v.reads \in 0..3 /\ v.data \in Nat /\ v.count \in Nat /\ v.shift \in Nat
    /\ v.spc \in Nat \ {0} /\ v.piece \in Nat \ {0} /\ v.used \in Seq(BOOLEAN)
    /\ v.owned \subseteq 0..(v.count - 1)
    /\ "spaces" \in v.marks => v.marks \cap {"ntfs", "exfat", "fat"} = {}
    /\ ProbeVolume(v) \in {"ntfs", "exfat", "fat"} => v.empty = {} /\ v.shift = 0 /\ ~v.wide
    /\ ProbeVolume(v) # "exfat" =>
         \A k \in v.owned : v.shift <= k /\ k - v.shift < Len(v.used) => v.used[k - v.shift + 1]
    /\ ProbeVolume(v) = "ntfs" => NtfsBits(v) = v.used

\* No entry of the GUID table ends before it starts.
DriveIsSound(d) ==
    /\ d.sectors \in Nat /\ DOMAIN d.volumes \subseteq 0..(d.sectors - 1)
    /\ \A s \in DOMAIN d.volumes : VolumeIsSound(d.volumes[s])
    /\ d.gpt.entries \in Seq([empty : BOOLEAN, first : Nat, last : Nat])
    /\ \A k \in DOMAIN d.gpt.entries : d.gpt.entries[k].first <= d.gpt.entries[k].last + 1
    /\ d.mbr.entries \in Seq([id : Nat, first : Nat, count : Nat])
    /\ d.apm.entries \in Seq([reads : BOOLEAN, skip : BOOLEAN, first : Nat, count : Nat])

ASSUME SpaceAssumption ==
    /\ Step \in Nat \ {0} /\ Targets \subseteq [first : Nat, count : Nat]
    /\ \A d \in Drives : DriveIsSound(d)

----------------------------------------------------------------------------
SpaceInit ==
    /\ drive \in Drives
    /\ survey = [pc |-> "idle", parts |-> <<>>, at |-> 1, out |-> <<>>, tableUnread |-> FALSE,
                 mapUnread |-> FALSE, fallback |-> FALSE]
    /\ finder = [sector |-> 0, found |-> <<>>, unread |-> FALSE]

\* The partition the scan is limited to, those of the tables, or the whole disk
FindPartitions ==
    /\ survey.pc = "idle"
    /\ \E target \in Targets :
         LET whole == <<Part(0, drive.sectors)>>
         IN  survey' = IF target.count > 0
                       THEN [survey EXCEPT !.pc = "volumes", !.parts = <<target>>]
                       ELSE [survey EXCEPT !.pc = "volumes", !.tableUnread = parseTables.unread,
                                !.parts = IF parseTables.parts = <<>> THEN whole ELSE parseTables.parts]
    /\ UNCHANGED <<drive, finder>>

\* What one partition has free; one of no size is passed over.
MapVolume ==
    /\ survey.pc = "volumes" /\ survey.at <= Len(survey.parts)
    /\ LET part == survey.parts[survey.at]
           map == IF part.count = 0 THEN Map(<<>>, FALSE) ELSE buildUnallocatedRanges(part)
       IN  survey' = [survey EXCEPT !.at = @ + 1, !.out = @ \o map.ranges,
                                    !.mapUnread = @ \/ map.unread]
    /\ UNCHANGED <<drive, finder>>

WholeParts(parts) == Pushed([i \in 1..Len(parts) |-> IF parts[i].count > 0 THEN <<parts[i]>> ELSE <<>>])

\* No range at all: the partitions are carved whole.
MergeRanges ==
    /\ survey.pc = "volumes" /\ survey.at > Len(survey.parts)
    /\ survey' = [survey EXCEPT !.pc = "done", !.fallback = survey.out = <<>>,
                     !.out = mergeSectorRanges(IF @ = <<>> THEN WholeParts(survey.parts) ELSE @)]
    /\ UNCHANGED <<drive, finder>>

\* scanForPartitions: one sector of the search for lost partitions (the label of
\* an LVM volume, in the sector behind its start, is left out)
FindNext ==
    /\ survey.pc = "done" /\ finder.sector < drive.sectors
    /\ LET s == finder.sector
           v == drive.volumes[s]
           seen == FirstOf(<<"ntfs", "exfat", "fat", "spaces">>, v.marks)
       IN  finder' =
             CASE s \notin DOMAIN drive.volumes -> [finder EXCEPT !.sector = @ + Step]
               [] s \in DOMAIN drive.volumes /\ v.reads = 0 ->
                    [finder EXCEPT !.sector = @ + Step, !.unread = TRUE]
               [] s \in DOMAIN drive.volumes /\ v.reads > 0 /\ seen # "none" ->
                    [finder EXCEPT !.sector = @ + Step, !.found = Append(@, <<s, seen>>)]
               [] OTHER ->
                    [finder EXCEPT !.sector = @ + Step, !.unread = @ \/ v.reads < 3,
                        !.found = IF v.reads = 3 /\ "ext4" \in v.marks THEN Append(@, <<s, "ext4">>) ELSE @]
    /\ UNCHANGED <<drive, survey>>

SpaceNext == FindPartitions \/ MapVolume \/ MergeRanges \/ FindNext

SpaceSpec == SpaceInit /\ [][SpaceNext]_spaceVars

----------------------------------------------------------------------------
(* Properties                                                              *)

SectorsOf(ranges) == UNION {r.first..(r.first + r.count - 1) : r \in Range(ranges)}

SectorsOfCluster(at, v, k) == (at + v.data + k * v.spc)..(at + v.data + (k + 1) * v.spc - 1)
SectorsOfClusters(at, v, clusters) == UNION {SectorsOfCluster(at, v, k) : k \in clusters}

Mapped == {"ntfs", "fat", "exfat", "ext4"}

\* What is read is about the clusters it is taken for: not in an ext4 volume that
\* begins at block 1 or has 64-byte descriptors.
InPlace(v) == v.shift = 0 /\ ~v.wide

\* It also says who owns them: not the FAT of an exFAT volume with files that have no
\* chain in it.
MapTells(v) ==
    /\ InPlace(v)
    /\ ProbeVolume(v) = "exfat" => \A k \in v.owned : k < Len(v.used) => v.used[k + 1]

\* The map of a volume is there to be read, or was at a place that did not read.
MapFound(v) ==
    /\ v.usable /\ InPlace(v)
    /\ ProbeVolume(v) = "ntfs" => LongEnough(v) /\ (BitmapRecord(v.ntfs) \/ RecordUnread(v.ntfs))

\* The sectors of a volume's clusters that no file owns; all of them, if what is
\* read does not tell
Unowned(at) ==
    LET v == drive.volumes[at]
        clusters == 0..(v.count - 1)
    IN  IF ProbeAt(at) \in Mapped
        THEN SectorsOfClusters(at, v, IF MapTells(v) THEN clusters \ v.owned ELSE clusters)
        ELSE {}

\* What the map of a volume says is free, cluster by cluster
ReallyFree(at) ==
    LET v == drive.volumes[at]
        clusters == {k \in 0..(v.count - 1) :
                        k < Len(v.used) /\ ~v.used[k + 1] /\ k \div v.piece \notin v.empty}
    IN  IF ProbeAt(at) \in Mapped /\ MapFound(v)
        THEN SectorsOfClusters(at, v, clusters) ELSE {}

\* The map of a scan never has a sector a file owns, as far as what is read of a
\* volume tells, nor one outside the clusters of its volumes; without a failed read
\* it has every sector the maps that are found leave free; when there is none it is
\* the partitions as a whole.  Its ranges are in order and apart, so that no sector
\* is carved twice (collectUnallocatedForScan).
MapIsExact ==
    survey.pc = "done" =>
      LET parts == {q \in Range(survey.parts) : q.count > 0}
      IN  /\ ~survey.fallback => SectorsOf(survey.out) \subseteq UNION {Unowned(p.first) : p \in parts}
          /\ ~survey.fallback /\ ~survey.mapUnread =>
               UNION {ReallyFree(p.first) : p \in parts} \subseteq SectorsOf(survey.out)
          /\ survey.fallback => SectorsOf(survey.out) = SectorsOf(survey.parts)
          /\ \A i \in 2..Len(survey.out) :
                survey.out[i - 1].first + survey.out[i - 1].count < survey.out[i].first

\* A sector of the GUID table that does not read takes only its own partitions
\* with it, and then the table is said to be unread (parseGPT).
GptKeepsTheRest ==
    survey.pc # "idle" /\ drive.gpt.primary = "ok" /\ Range(survey.parts) \cap Targets = {} =>
      \A k \in DOMAIN drive.gpt.entries :
        LET entry == drive.gpt.entries[k]
        IN  ~entry.empty /\ ~(\E p \in Range(survey.parts) : p.first = entry.first)
              => survey.tableUnread /\ (drive.gpt.per = 0 \/ (k - 1) \div drive.gpt.per \in drive.gpt.bad)

\* The search for lost partitions and the probe have a recogniser each: they
\* agree on what a volume is, unless it is of a kind the search does not know,
\* and what the probe cannot read the search does not pass over in silence
\* (scanForPartitions, probeVolumeAt).
RecognisersAgree ==
    finder.sector >= drive.sectors =>
      \A s \in DOMAIN drive.volumes :
        LET kind == ProbeAt(s)
        IN  /\ (s % Step = 0 /\ kind \in {"ntfs", "exfat", "fat", "spaces", "ext4"})
                 <=> (\E f \in Range(finder.found) : f = <<s, kind>>)
            /\ s % Step = 0 /\ kind = "unread" => finder.unread

\* What a scan is told of a disk is so.
SurveyIsTrue == MapIsExact /\ GptKeepsTheRest /\ (survey.pc = "done" => RecognisersAgree)
=============================================================================
