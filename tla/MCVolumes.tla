------------------------------ MODULE MCVolumes ------------------------------
(***************************************************************************)
(* The readers of volumes side by side: a behaviour is one of one of them, *)
(* and the others' variables stay as they are.                             *)
(***************************************************************************)
EXTENDS VirtualRaid, DedupIndex, DiskImages, SignatureScan, FreeSpace, DiskInput, EwfImage, MCDetect, MCNtfs, MCFat

VARIABLE subject

----------------------------------------------------------------------------
Flat(n, v) == [d \in 0..(n - 1) |-> v]

\* n equal members of rows whole blocks of two sectors, after a base
Even(level, n, rows, base, algorithm) ==
    [level |-> level, algorithm |-> algorithm, n |-> n, block |-> 2,
     base |-> Flat(n, base), size |-> Flat(n, base + 2 * rows), extent |-> Flat(n, 0)]

\* The members differ, and none ends with a whole block.
Ragged(level, n, rows) ==
    [level |-> level, algorithm |-> "leftAsymmetric", n |-> n, block |-> 2,
     base |-> [d \in 0..(n - 1) |-> d % 2],
     size |-> [d \in 0..(n - 1) |-> (d % 2) + 2 * rows + 1 + (d \div 2)], extent |-> Flat(n, 0)]

Extents ==
    [level |-> "JBOD", algorithm |-> "leftAsymmetric", n |-> 3, block |-> 1,
     base |-> <<1, 0, 2>> , size |-> <<3, 3, 4>>, extent |-> <<0, 2, 1>>]

FromZero(f) == [d \in 0..(Cardinality(DOMAIN f) - 1) |-> f[d + 1]]

MCArrays ==
    {Ragged(level, 2, 2) : level \in {"RAID0", "RAID1", "JBOD"}}
      \cup {Even("RAID5", 3, 3, 1, algorithm) : algorithm \in Algorithms}
      \cup {Even("RAID5", 4, 3, 0, "leftSymmetric"), Ragged("RAID5", 3, 2)}
      \cup {Even("RAID6", 4, 4, 0, "leftAsymmetric"), Ragged("RAID6", 5, 2)}
      \cup {Ragged("RAID10", 4, 2), Ragged("RAID1E", 3, 2)}
      \cup {[Extents EXCEPT !.base = FromZero(@), !.size = FromZero(@), !.extent = FromZero(@)]}

MarkedAny == Levels \ {"RAID1", "JBOD", "RAID6"}

----------------------------------------------------------------------------
Carve(start, end, hash, size) ==
    [kind |-> "carve", start |-> start, end |-> end, hash |-> hash, size |-> size]
Hit(start, end, size) ==
    [kind |-> "metadata", start |-> start, end |-> end, hash |-> NoHash, size |-> size]

\* A long hit and short ones after it, one of a single sector whose end is not
\* known, one without a place and one whose last piece lies before its first;
\* carves that overlap them or each other by more and by less than half, and
\* contents that share a prefix.
MCRecords ==
    {Hit(1, 9, 9), Hit(2, 2, 1), Hit(4, 0, 1), Hit(8, 9, 2), Hit(0, 0, 0), Hit(14, 7, 4),
     Carve(6, 8, NoHash, 3), Carve(3, 5, "h", 3), Carve(12, 14, "h", 4),
     Carve(16, 19, "h", 3), Carve(13, 15, NoHash, 3)}

MCSaved ==
    {<<>>, <<Carve(16, 19, "h", 3), Hit(8, 9, 2), Carve(13, 15, NoHash, 3)>>}

----------------------------------------------------------------------------
Image(kind, parent, size, map, data) ==
    [kind |-> kind, parent |-> parent, size |-> size, block |-> 2, map |-> map, data |-> data]

Free == [how |-> "free", at |-> 0, only |-> {}]
Zero == [how |-> "zero", at |-> 0, only |-> {}]
At(n) == [how |-> "data", at |-> n, only |-> 0..1]
Packed(n) == [how |-> "packed", at |-> n, only |-> 0..1]

\* A base of two and a half blocks, a child that has a block, and its child
Chain(kind, middle, top) ==
    [path \in {"base", "child", "top"} |->
        CASE path = "base" -> Image(kind, NoParent, 5, <<At(3), Free, At(1)>>, <<1, 2, 3, 4>>)
          [] path = "child" -> Image(kind, "base", 5, middle, <<5, 6>>)
          [] path = "top" -> Image(kind, "child", 5, top, <<7, 0, 8>>)]

Lost ==  \* no parent there, a parent of another size, its own parent
    [path \in {"lost", "small", "child", "self"} |->
        CASE path = "lost" -> Image("qcow2", "gone", 3, <<At(1), Free>>, <<1, 2>>)
          [] path = "small" -> Image("vdi", NoParent, 2, <<At(1)>>, <<3, 4>>)
          [] path = "child" -> Image("vdi", "small", 3, <<At(1), Free>>, <<1, 2>>)
          [] path = "self" -> Image("vmdk", "self", 3, <<Free, Free>>, <<>>)]

Place(to, count, data) == [to |-> to, count |-> count, zero |-> FALSE, data |-> data]
Dmg(size, runs) == [kind |-> "dmg", parent |-> NoParent, size |-> size, block |-> 1, map |-> runs, data |-> <<>>]

Udif ==
    [path \in {"long", "outside"} |->
        IF path = "long"
        THEN Dmg(5, <<Place(2, 1, <<1, 2>>), Place(0, 2, <<3>>),
                      [Place(4, 1, <<>>) EXCEPT !.zero = TRUE]>>)
        ELSE Dmg(2, <<Place(1, 2, <<1, 2>>)>>)]

MCFolders ==
    {Chain("vhd", <<Free, At(1), Free>>, <<At(1), Free, At(3)>>),
     Chain("vhdx", <<Free, At(1), Zero>>, <<Zero, Free, At(3)>>),
     [Chain("qcow2", <<At(1), Free, Free>>, <<Free, Packed(1), At(3)>>)
        EXCEPT !["top"].data = <<<<9, 9>>, 0, 8>>],
     Chain("vdi", <<At(1), Free, At(2)>>, <<Free, Free, At(4)>>),
     Lost, Udif}

MCPayloads == {<<0, 0, 0, 1, 2>>, <<1, 0, 2, 3>>, <<0, 0, 0>>, <<0, 4, 0, 0, 5, 6>>}

MCWrapping ==
    [kind : {"vhd", "vhdx", "vdi", "dmg"}, block : {2}, packed : {FALSE}]
      \cup [kind : {"vmdk", "qcow2"}, block : {2}, packed : BOOLEAN]

----------------------------------------------------------------------------
\* Headers that end alike, a footer that begins within its header, and one
\* that is bounded by its contents.
MCSignatures ==
    <<[header |-> <<1, 2>>, footer |-> <<2, 1>>, max |-> 6, bound |-> 0],
      [header |-> <<1, 1, 2>>, footer |-> <<>>, max |-> 4, bound |-> 3]>>

MCContents ==
    [bytes : {b \in [1..7 -> 0..2] : \E k \in 1..6 : b[k] = 1 /\ b[k + 1] = 2}, bad : {{}, {0}, {1}}]

MCNeedles == {<<1>>, <<2, 1>>, <<1, 0, 1>>}

----------------------------------------------------------------------------
Bits(n) == [1..n -> BOOLEAN]
NoNtfs == [first |-> "none", mirror |-> "none", ran |-> "none", direct |-> "none", runs |-> <<>>,
           store |-> <<>>, resident |-> <<>>]

\* All that a map can tell of is owned, and all behind its end.
FileSystem(kind, probed, data, spc, clusters, map, piece, unread, mft) ==
    [marks |-> kind, reads |-> probed, usable |-> TRUE, data |-> data, spc |-> spc, count |-> clusters,
     used |-> map, owned |-> {k \in 0..(clusters - 1) : k >= Len(map) \/ map[k + 1]},
     piece |-> piece, bad |-> unread, empty |-> {}, shift |-> 0, wide |-> FALSE, ntfs |-> mft]

FatVolumes ==  \* a table that is shorter than the volume, in two windows
    {FileSystem({"fat", "ext4"}, probed, 1, 1, 4, b, 3, unread, NoNtfs) :
        probed \in {0, 1}, b \in Bits(3), unread \in {{}, {1}}}
Ext4Volumes ==  \* three groups, the last one short
    {[FileSystem({"ext4"}, probed, 0, 1, 5, b, 2, unread, NoNtfs) EXCEPT !.empty = without] :
        probed \in {2, 3}, b \in Bits(5), unread \in {{}, {1}}, without \in {{}, {0}}}
NtfsVolumes ==  \* a bitmap in two pieces, the second one before the first
    {FileSystem({"ntfs"}, 3, 0, 2, 4, b, 8, unread,
        [first |-> mft[1], mirror |-> mft[2], ran |-> mft[3], direct |-> mft[4],
         runs |-> <<[delta |-> 5, count |-> 1], [delta |-> -2, count |-> 1]>>,
         store |-> (5 :> SubSeq(b, 1, 2)) @@ (3 :> SubSeq(b, 3, 4)), resident |-> <<>>]) :
        b \in Bits(4), unread \in {{}, {3}},
        mft \in {<<"record", "record", "record", "unread">>, <<"unread", "record", "record", "unread">>,
                 <<"unread", "other", "none", "record">>, <<"record", "record", "unread", "other">>,
                 <<"other", "other", "none", "other">>}}
OtherVolume == FileSystem({"hfs"}, 3, 0, 1, 2, <<>>, 1, {}, NoNtfs)
Neighbour == FileSystem({"fat"}, 1, 1, 1, 4, <<TRUE, FALSE, FALSE>>, 3, {}, NoNtfs)

\* A volume of each kind with a layout that makes no sense; exFAT files without a
\* chain; ext4 that begins at block 1, with 64-byte descriptors; a bitmap in its
\* record, too short; one that its runs do not hold, or hold more than is needed of.
OddVolumes ==
    LET chains == FileSystem({"exfat"}, 1, 1, 1, 4, <<TRUE, FALSE, FALSE, TRUE>>, 3, {}, NoNtfs)
        groups == FileSystem({"ext4"}, 3, 0, 1, 5, <<TRUE, TRUE, FALSE, TRUE, FALSE>>, 2, {}, NoNtfs)
        kept == [first |-> "record", mirror |-> "none", ran |-> "record", direct |-> "none",
                 runs |-> <<>>, store |-> <<>>, resident |-> <<TRUE, FALSE>>]
        tiny == FileSystem({"ntfs"}, 3, 0, 2, 4, kept.resident, 8, {}, kept)
        ran == [kept EXCEPT !.runs = <<[delta |-> 2, count |-> 3]>>, !.resident = <<>>,
                   !.store = [i \in 2..4 |-> <<i = 2, FALSE>>]]
        enough == <<TRUE, FALSE, FALSE, FALSE, FALSE, FALSE>>
    IN  {chains, [chains EXCEPT !.owned = {0, 1, 3}],
         [groups EXCEPT !.shift = 1, !.used[5] = TRUE, !.owned = {0, 1, 2, 4}], [groups EXCEPT !.wide = TRUE], tiny,
         [tiny EXCEPT !.used = enough, !.owned = {0}, !.ntfs = ran],
         [tiny EXCEPT !.used = enough, !.owned = {0}, !.ntfs = ran, !.bad = {4}],
         [tiny EXCEPT !.used = enough, !.owned = {0, 6}, !.ntfs = ran, !.count = 7]}
        \cup {[v EXCEPT !.usable = FALSE] : v \in {Neighbour, chains, groups, tiny}}

GptEntry(first, last) == [empty |-> FALSE, first |-> first, last |-> last]
NoGpt == [primary |-> "none", backup |-> "none", per |-> 1, entries |-> <<>>, bad |-> {}]
NoMbr == [read |-> "ok", signed |-> FALSE, entries |-> <<>>]
Apm == [entries |-> <<[reads |-> TRUE, skip |-> TRUE, first |-> 1, count |-> 3],
                      [reads |-> TRUE, skip |-> FALSE, first |-> 2, count |-> 6]>>]
NoApm == [entries |-> <<>>]

Partitioned ==
    [gpt : {[primary |-> p, backup |-> "ok", per |-> 2, bad |-> b,
             entries |-> <<GptEntry(2, 7), [GptEntry(0, 0) EXCEPT !.empty = TRUE], GptEntry(8, 13)>>] :
               p \in {"ok", "bad"}, b \in {{}, {0}, {1}}}
           \cup {[primary |-> "none", backup |-> "ok", per |-> 0, bad |-> b,
                  entries |-> <<GptEntry(8, 13), GptEntry(2, 7)>>] : b \in {{}, {1}}},
     mbr : {NoMbr}, apm : {NoApm}]
  \cup [gpt : {NoGpt}, apm : {Apm, [Apm EXCEPT !.entries[2].reads = FALSE]},
        mbr : {NoMbr, [NoMbr EXCEPT !.read = "bad"],
               [NoMbr EXCEPT !.signed = TRUE,
                  !.entries = <<[id |-> 0, first |-> 0, count |-> 0], [id |-> 7, first |-> 8, count |-> 6]>>]}]

Disk(table, volumes) ==
    [sectors |-> 14, gpt |-> table.gpt, mbr |-> table.mbr, apm |-> table.apm, volumes |-> volumes]

MCDrives ==
    {Disk(t, (2 :> f) @@ (8 :> e)) : t \in Partitioned, f \in FatVolumes,
        e \in {v \in Ext4Volumes : v.used \in {<<FALSE, TRUE, FALSE, FALSE, TRUE>>, <<TRUE, TRUE, FALSE, TRUE, FALSE>>}}}
      \cup {Disk(t, (2 :> n) @@ (8 :> Neighbour)) : t \in Partitioned, n \in NtfsVolumes}
      \cup {Disk(t, (2 :> v) @@ (8 :> n)) : t \in {u \in Partitioned : u.apm = NoApm},
              v \in OddVolumes, n \in {Neighbour, OtherVolume}}
      \cup {Disk([gpt |-> NoGpt, mbr |-> NoMbr, apm |-> NoApm], 0 :> v) : v \in Ext4Volumes \cup OddVolumes}

MCTargets == {Part(0, 0), Part(2, 6)}

----------------------------------------------------------------------------
Clear == [key |-> "none", from |-> 0]
Medium(kind, sectors, unread, lock) ==
    [kind |-> kind, parts |-> <<>>, sectors |-> sectors, bad |-> unread, lock |-> lock]
Segment(n) == [there |-> TRUE, sectors |-> n]

\* A locked drive, a volume that is encrypted behind its header, images of
\* both, a file of numbered parts of which one is missing, and one of which
\* the second does not read everywhere.
MCSources ==
    [name \in {"bitlocker", "luks", "image", "gap", "parts", "object", "set", "shared"} |->
        CASE name = "bitlocker" -> Medium("drive", 3, {1}, [key |-> "fvek", from |-> 0])
          [] name = "luks" -> Medium("drive", 3, {}, [key |-> "master", from |-> 2])
          [] name = "image" -> Medium("ewf", 3, {1}, [key |-> "master", from |-> 2])
          [] name = "gap" -> [Medium("file", 3, {}, Clear) EXCEPT
                                !.parts = <<Segment(2), [Segment(1) EXCEPT !.there = FALSE], Segment(1)>>]
          [] name = "parts" -> [Medium("file", 4, {2}, Clear) EXCEPT !.parts = <<Segment(1), Segment(3)>>]
          [] name = "object" -> Medium("http", 2, {}, Clear)
          [] name = "set" -> Medium("raid", 2, {0}, [key |-> "fvek", from |-> 0])
          [] name = "shared" -> Medium("memory", 2, {0}, [key |-> "fvek", from |-> 0])]

\* Whole sectors and parts of them, within the sources and over their end
MCSpans == {[at |-> at, length |-> length] : at \in {0, 1, 2, 4}, length \in {1, 2, 4}}

----------------------------------------------------------------------------
\* Raw, and deflated to less, to as much and to more than a chunk: up to the
\* edge of the section, over it and to the edge of the word
MCEwfJobs ==
    [size : {7, 10}, packed : {FALSE}, sizes : {<<>>}, damaged : {{}, {2, 3}}]
      \cup [size : {9}, packed : {TRUE}, sizes : [1..5 -> 1..3], damaged : {{4}}]

----------------------------------------------------------------------------
Fixed(v, values) == v = (CHOOSE w \in values : TRUE)

RaidAlone == IF subject = "raid" THEN RaidInit
             ELSE Fixed(array, Arrays) /\ diskActive = Disks /\ bad = {} /\ answer = NoAnswer

VolumesInit ==
    /\ subject \in {"raid", "dedup", "images", "log", "carver", "hex", "space", "input", "ewf", "detect", "ntfs", "fat"}
    /\ IF subject = "images" THEN folder \in Folders ELSE Fixed(folder, Folders)
    /\ IF subject \in {"carver", "hex"} THEN content \in RawContents ELSE Fixed(content, RawContents)
    /\ IF subject = "ewf" THEN job \in EwfJobs ELSE Fixed(job, EwfJobs)
    /\ IF subject = "input" THEN platform \in {"windows", "posix"} ELSE platform = "posix"
    /\ DedupInit /\ ImagesInit /\ RawInit /\ InputInit /\ EwfInit
    /\ RaidAlone
    /\ IF subject = "detect" THEN DetectInit ELSE raidSet = {} /\ cells = <<>> /\ search = [pc |-> "idle"]
    /\ IF subject = "space" THEN SpaceInit
       ELSE drive = {} /\ survey = [pc |-> "idle"] /\ finder = {}
    /\ IF subject = "ntfs" THEN NtfsInit ELSE ntfs = {} /\ walk = [pc |-> "idle"] /\ handed = <<>>
    /\ IF subject = "fat" THEN FatInit ELSE fat = {} /\ fatWalk = [pc |-> "idle"] /\ listed = <<>>

storageVars == <<raidVars, dedupVars>>

VolumesNext ==
    /\ UNCHANGED subject
    /\ \/ subject = "raid" /\ RaidNext
          /\ UNCHANGED <<dedupVars, imagesVars, rawVars, spaceVars, inputVars, ewfVars, ntfsVars, detectVars, fatVars>>
       \/ subject = "dedup" /\ DedupNext
          /\ UNCHANGED <<raidVars, imagesVars, rawVars, spaceVars, inputVars, ewfVars, ntfsVars, detectVars, fatVars>>
       \/ subject = "images" /\ FilesNext
          /\ UNCHANGED <<storageVars, rawVars, spaceVars, inputVars, ewfVars, ntfsVars, detectVars, fatVars>>
       \/ subject = "log" /\ LogNext
          /\ UNCHANGED <<storageVars, rawVars, spaceVars, inputVars, ewfVars, ntfsVars, detectVars, fatVars>>
       \/ subject = "carver" /\ CarveNext
          /\ UNCHANGED <<storageVars, imagesVars, spaceVars, inputVars, ewfVars, ntfsVars, detectVars, fatVars>>
       \/ subject = "hex" /\ HexNext
          /\ UNCHANGED <<storageVars, imagesVars, spaceVars, inputVars, ewfVars, ntfsVars, detectVars, fatVars>>
       \/ subject = "space" /\ SpaceNext
          /\ UNCHANGED <<storageVars, imagesVars, rawVars, inputVars, ewfVars, ntfsVars, detectVars, fatVars>>
       \/ subject = "input" /\ InputNext
          /\ UNCHANGED <<storageVars, imagesVars, rawVars, spaceVars, ewfVars, ntfsVars, detectVars, fatVars>>
       \/ subject = "ewf" /\ EwfNext
          /\ UNCHANGED <<storageVars, imagesVars, rawVars, spaceVars, inputVars, ntfsVars, detectVars, fatVars>>
       \/ subject = "detect" /\ DetectNext
          /\ UNCHANGED <<storageVars, imagesVars, rawVars, spaceVars, inputVars, ewfVars, ntfsVars, fatVars>>
       \/ subject = "ntfs" /\ NtfsNext
          /\ UNCHANGED <<storageVars, imagesVars, rawVars, spaceVars, inputVars, ewfVars, detectVars, fatVars>>
       \/ subject = "fat" /\ FatNext
          /\ UNCHANGED <<storageVars, imagesVars, rawVars, spaceVars, inputVars, ewfVars, ntfsVars, detectVars>>


VolumesSpec ==
    VolumesInit /\ [][VolumesNext]_<<storageVars, imagesVars, rawVars, spaceVars, inputVars, ewfVars, ntfsVars, detectVars, fatVars, subject>>
=============================================================================
