------------------------------ MODULE FatScan ------------------------------
(***************************************************************************)
(* FATParser::scanAt: the files of a FAT12, FAT16, FAT32 or exFAT volume,  *)
(* met slot by slot along its directories, with the clusters that the      *)
(* allocation table gives them.  The two walks of the code, parseFAT and   *)
(* parseExFAT, have one shape and are one walk here; the slots differ.     *)
(*                                                                         *)
(* A volume is [fs, front, twelfth, spare, fits, root, at, tables, unread, *)
(* torn, high, stray, slots, looks, bad, holds]: what its boot sectors     *)
(* read as, where the table begins, the copies of the table, the entries   *)
(* <<copy, cluster>> that do not read, those that reach over the end of a  *)
(* sector (FAT12), those with reserved bits (FAT32), what a read beyond    *)
(* the table finds, the slots of each cluster, the clusters that begin     *)
(* like a file and those that do not read.  Cluster 1 stands for the root  *)
(* of FAT12 and FAT16.  holds is what was stored, for the property.        *)
(* Sizes count sectors; a cluster has FatSpan of them.  The place of a     *)
(* file follows from its clusters and is left out.                         *)
(***************************************************************************)
EXTENDS Integers, SequencesExt, FiniteSetsExt, TLC

CONSTANTS
    FatDisks,
    FatSpan,   \* sectorsPerCluster
    FatCap,    \* 65536 clusters of a file of parseFAT
    FatWord    \* 2^32 bytes, in sectors

VARIABLES
    fat,       \* the volume
    fatWalk,   \* the locals of parseFAT or parseExFAT
    listed     \* what the callback was given

fatVars == <<fat, fatWalk, listed>>

\* Values of the table that are no cluster
FreeEntry == 0
EndEntry == -1
BadEntry == -2
UnreadEntry == -3   \* kFatUnread

FatSmall == fat.fs \in {"fat12", "fat16"}
FatReads(c) == c \in (DOMAIN fat.slots) \ fat.bad

----------------------------------------------------------------------------
(* The allocation table                                                    *)

readFatEntry(copy, c) ==
    CASE c < 2 -> FreeEntry
      [] c >= 2 /\ <<copy, c>> \in fat.unread -> UnreadEntry
      [] c >= 2 /\ <<copy, c>> \notin fat.unread ->
           IF c \in DOMAIN fat.torn THEN fat.torn[c] ELSE fat.tables[copy][c]

\* The clusters of a file.  Its entries are compared with all their bits: one
\* with a reserved bit set is past the end mark.
chainRuns(copy, first, cap) ==
    LET On(s, next) ==
            [runs |-> Append(s.runs, s.clus), clus |-> next, unread |-> next = UnreadEntry,
             over |-> next < 2 \/ s.clus \in fat.high]
        Take(s, k) ==
            IF s.over \/ s.clus < 2 \/ s.clus \in ToSet(s.runs) THEN [s EXCEPT !.over = TRUE]
            ELSE On(s, readFatEntry(copy, s.clus))
    IN  FoldLeft(Take, [runs |-> <<>>, clus |-> first, unread |-> FALSE, over |-> FALSE], [k \in 1..cap |-> k])

\* The next cluster of a directory.  parseFAT keeps the sector of the entry and
\* its byte in 32 bits, and takes the mark of a bad cluster for a cluster.
getNextCluster(c) ==
    CASE c # BadEntry /\ c < 2 -> EndEntry
      [] fat.fs = "fat32" /\ (c = BadEntry \/ fat.at + c >= FatWord) -> fat.stray
      [] OTHER -> readFatEntry(1, c)

fatRunBytes(runs) == FatSpan * Len(runs)
fatFirstClusterFreed(c) == readFatEntry(1, c) = FreeEntry

clusterStartsNewFile(c) == ~FatReads(c) \/ c \in fat.looks

fillDeletedFatRuns(first, size) ==
    LET all == (size + FatSpan - 1) \div FatSpan
        stops == {k \in 1..(all - 1) : clusterStartsNewFile(first + k)}
    IN  [k \in 1..Min(stops \cup {all}) |-> first + k - 1]

AllClusters == Cardinality(DOMAIN fat.slots)

\* The copies of the table after the first whose chain is long enough
BackupCopies(first, size) ==
    {i \in 2..Len(fat.tables) : fatRunBytes(chainRuns(i, first, AllClusters).runs) >= size}

\* The clusters of a file: its chain; of a deleted one whose first cluster is
\* free, the chain of another copy of the table, or the clusters in a row.
FatClusters(first, size, live) ==
    LET Reclaimed(chain, copies) ==
            CASE live \/ fatRunBytes(chain.runs) >= size \/ first < 2 \/ ~fatFirstClusterFreed(first) -> chain
              [] OTHER -> IF copies # {} THEN chainRuns(Min(copies), first, AllClusters)
                          ELSE [chain EXCEPT !.runs = fillDeletedFatRuns(first, size)]
    IN  Reclaimed(chainRuns(1, first, IF fat.fs = "exfat" THEN AllClusters ELSE FatCap), BackupCopies(first, size))

\* applyFatDeletedChainHint, and the cap of a chain that does not read
FatConfidence(runs, size, live, unread) ==
    CASE unread \/ (~live /\ size > 0 /\ fatRunBytes(runs) + 1 < size) -> 35
      [] live /\ ~unread -> 100
      [] OTHER -> IF fat.fs = "exfat" THEN 70 ELSE 60

FatFile(name, path, first, size, live) ==
    LET On(clusters) ==
            [kind |-> "file", name |-> name, path |-> path, live |-> live, size |-> size, runs |-> clusters.runs,
             confidence |-> FatConfidence(clusters.runs, size, live, clusters.unread), unread |-> clusters.unread]
    IN  On(FatClusters(first, size, live))

----------------------------------------------------------------------------
(* Names                                                                   *)

\* LfnAcc: the parts of a long name by their ordinal with the short name they
\* are of (its checksum), and the parts of deleted ones as they come.
NoLfn == [parts |-> <<>>, of |-> <<>>, deleted |-> <<>>]

AddLfn(lfn, slot) ==
    IF slot.deleted THEN [lfn EXCEPT !.deleted = Append(@, slot.part)]
    ELSE [lfn EXCEPT !.parts = (slot.ord :> slot.part) @@ @, !.of = slot.of]

ResolveLfn(lfn, slot) ==
    LET ords == SetToSortSeq(DOMAIN lfn.parts, <)
    IN  CASE ords # <<>> /\ lfn.of = slot.name -> [k \in DOMAIN ords |-> lfn.parts[ords[k]]]
          [] slot.deleted /\ (ords = <<>> \/ lfn.of # slot.name) -> Reverse(lfn.deleted)
          [] OTHER -> <<>>

\* A deleted short name has lost its first character.
FatName(lfn, slot) ==
    LET long == ResolveLfn(lfn, slot)
    IN  CASE long # <<>> -> long
          [] long = <<>> /\ slot.deleted -> <<"_">> \o Tail(slot.name)
          [] OTHER -> slot.name

Dots == {<<".">>, <<"..">>}

----------------------------------------------------------------------------
(* exFAT: the set of slots that is being put together                      *)

NoExfatSet ==
    [active |-> FALSE, dir |-> FALSE, live |-> TRUE, first |-> 0, size |-> 0, length |-> 0, checksum |-> 0,
     streamed |-> FALSE, name |-> <<>>]

\* emitPending: a directory is put on the stack, a file is listed; a set
\* without a name is dropped.
EmitDirectory(walk, set) ==
    [walk |-> IF set.first < 2 THEN walk
              ELSE [walk EXCEPT !.jobs = Append(@, [cluster |-> set.first, path |-> Append(walk.path, set.name)])],
     files |-> <<>>]

EmitFile(walk, set, file) ==
    LET asks == ~set.live /\ fatRunBytes(chainRuns(1, set.first, AllClusters).runs) < set.size
    IN  [walk |-> [walk EXCEPT !.chainUnread = @ \/ file.unread,
                               !.dirUnread = @ \/ (asks /\ getNextCluster(set.first) = UnreadEntry)],
         files |-> <<file>>]

EmitPending(walk) ==
    LET Given(rest, set) ==
            CASE ~set.active \/ set.name = <<>> -> [walk |-> rest, files |-> <<>>]
              [] set.active /\ set.name # <<>> /\ set.dir -> EmitDirectory(rest, set)
              [] set.active /\ set.name # <<>> /\ ~set.dir ->
                   EmitFile(rest, set, FatFile(set.name, walk.path, set.first, set.size, set.live))
    IN  Given([walk EXCEPT !.pending = NoExfatSet], walk.pending)

Emitted(emits, walk) ==
    IF emits THEN EmitPending(walk) ELSE [walk |-> walk, files |-> <<>>]

\* The scan goes on with what has been emitted.
Goes(emitted) == fatWalk' = emitted.walk /\ listed' = listed \o emitted.files

SetIsComplete(set) == set.active /\ set.streamed /\ set.length > 0 /\ Len(set.name) >= set.length

----------------------------------------------------------------------------
(* The boot sectors                                                        *)

\* The backup of exFAT is looked for before what the first sector holds of FAT
\* is; the backup of FAT only if the first sector reads and holds nothing.
FatBootKind ==
    CASE fat.front = "unread" -> "none"
      [] fat.front = "exfat" \/ (fat.front # "unread" /\ fat.twelfth = "exfat") ->
           IF fat.fits THEN "exfat" ELSE "none"
      [] fat.front \in {"fat", "junk"} /\ fat.twelfth # "exfat" ->
           IF fat.front = "fat" \/ fat.spare = "fat" THEN "fat" ELSE "none"

FatInit ==
    /\ fat \in FatDisks
    /\ fatWalk = [pc |-> "boot", jobs |-> <<>>, visited |-> {}, chain |-> <<>>, clus |-> 0, left |-> <<>>,
                  lfn |-> NoLfn, pending |-> NoExfatSet, path |-> <<>>, dirUnread |-> FALSE, chainUnread |-> FALSE]
    /\ listed = <<>>

\* The root of FAT12 and FAT16 is one read; when it fails, nothing else is done.
FatBoot ==
    /\ fatWalk.pc = "boot"
    /\ fatWalk' = CASE FatBootKind = "none" -> [fatWalk EXCEPT !.pc = "done"]
                    [] FatBootKind # "none" /\ ~FatSmall ->
                         [fatWalk EXCEPT !.jobs = <<[cluster |-> fat.root, path |-> <<>>]>>, !.pc = "jobs"]
                    [] FatBootKind # "none" /\ FatSmall ->
                         IF FatReads(1) THEN [fatWalk EXCEPT !.left = fat.slots[1], !.pc = "slots"]
                         ELSE [fatWalk EXCEPT !.dirUnread = TRUE, !.pc = "marks"]
    /\ UNCHANGED <<fat, listed>>

----------------------------------------------------------------------------
(* The directories                                                         *)

NextDirectory ==
    LET job == Last(fatWalk.jobs)
        rest == [fatWalk EXCEPT !.jobs = Front(@)]
    IN  /\ fatWalk.pc = "jobs" /\ fatWalk.jobs # <<>>
        /\ fatWalk' = IF job.cluster \in fatWalk.visited THEN rest
                      ELSE [rest EXCEPT !.visited = @ \cup {job.cluster}, !.chain = <<>>, !.clus = job.cluster,
                                        !.path = job.path, !.pc = "cluster"]
        /\ UNCHANGED <<fat, listed>>

DirectoryGoesOn ==
    /\ fatWalk.clus >= 2 \/ (fat.fs = "fat32" /\ fatWalk.clus = BadEntry)
    /\ fatWalk.clus \notin ToSet(fatWalk.chain)


\* The next cluster of the directory, with the mark if its entry does not read
Followed(walk) ==
    LET Onto(next) == [walk EXCEPT !.clus = next, !.dirUnread = @ \/ next = UnreadEntry]
    IN  Onto(getNextCluster(walk.clus))

\* A cluster that does not read is passed over; what was begun before it stays.
ReadDirCluster ==
    LET met == [fatWalk EXCEPT !.chain = Append(@, fatWalk.clus)]
    IN  /\ fatWalk.pc = "cluster" /\ DirectoryGoesOn
        /\ fatWalk' = IF FatReads(fatWalk.clus)
                      THEN [met EXCEPT !.left = fat.slots[fatWalk.clus], !.pc = "slots"]
                      ELSE Followed([met EXCEPT !.dirUnread = TRUE])
        /\ UNCHANGED <<fat, listed>>

EndOfCluster ==
    /\ fatWalk.pc = "slots" /\ fatWalk.left = <<>>
    /\ fatWalk' = IF FatSmall THEN [fatWalk EXCEPT !.pc = "marks"] ELSE Followed([fatWalk EXCEPT !.pc = "cluster"])
    /\ UNCHANGED <<fat, listed>>

LeaveDirectory ==
    /\ fatWalk.pc = "cluster" /\ ~DirectoryGoesOn
    /\ Goes(Emitted(fat.fs = "exfat", [fatWalk EXCEPT !.lfn = NoLfn, !.pc = "jobs"]))
    /\ UNCHANGED fat

----------------------------------------------------------------------------
(* The slots                                                               *)

AtSlot(kind) == fatWalk.pc = "slots" /\ fatWalk.left # <<>> /\ Head(fatWalk.left).kind = kind
Rest == [fatWalk EXCEPT !.left = Tail(@)]

EndSlot ==
    /\ AtSlot("end")
    /\ Goes(Emitted(fat.fs = "exfat", [fatWalk EXCEPT !.left = <<>>]))
    /\ UNCHANGED fat

LfnSlot ==
    /\ AtSlot("lfn")
    /\ fatWalk' = [Rest EXCEPT !.lfn = AddLfn(@, Head(fatWalk.left))]
    /\ UNCHANGED <<fat, listed>>

LabelSlot ==
    LET slot == Head(fatWalk.left)
    IN  /\ AtSlot("label")
        /\ fatWalk' = [Rest EXCEPT !.lfn = NoLfn]
        /\ listed' = Append(listed, [kind |-> "label", name |-> slot.name])
        /\ UNCHANGED fat

\* A directory, deleted or not, is put on the stack (and stays there in the
\* root of FAT12 and FAT16); a file is listed.
ShortListed(rest, slot, name) ==
    IF slot.dir \/ (name \in Dots /\ ~FatSmall)
    THEN [walk |-> IF name \in Dots THEN rest
                   ELSE [rest EXCEPT !.jobs = Append(@, [cluster |-> slot.first, path |-> <<>>])],
          files |-> <<>>]
    ELSE LET On(file) == [walk |-> [rest EXCEPT !.chainUnread = @ \/ file.unread], files |-> <<file>>]
         IN  On(FatFile(name, <<>>, slot.first, slot.size, ~slot.deleted))

ShortSlot ==
    /\ AtSlot("short")
    /\ Goes(ShortListed([Rest EXCEPT !.lfn = NoLfn], Head(fatWalk.left), FatName(fatWalk.lfn, Head(fatWalk.left))))
    /\ UNCHANGED fat

\* A set that is not yet complete is not given up for one with another
\* checksum.
KeepsSet(set, slot) == set.active /\ (~set.streamed \/ set.name = <<>>) /\ slot.checksum # set.checksum

BegunBy(slot, emitted) ==
    [emitted EXCEPT !.walk.pending = [NoExfatSet EXCEPT !.active = TRUE, !.live = slot.live,
                                                        !.checksum = slot.checksum, !.dir = slot.dir]]

FileSlot ==
    /\ AtSlot("file")
    /\ Goes(IF KeepsSet(fatWalk.pending, Head(fatWalk.left)) THEN Emitted(FALSE, Rest)
            ELSE BegunBy(Head(fatWalk.left), EmitPending(Rest)))
    /\ UNCHANGED fat

\* The slots that follow carry no checksum and go with the set there is.
JoinedTo(set) == Goes(Emitted(SetIsComplete(set), [Rest EXCEPT !.pending = set]))

StreamSlot ==
    LET slot == Head(fatWalk.left)
        set == fatWalk.pending
    IN  /\ AtSlot("stream")
        /\ JoinedTo(IF set.active
                  THEN [set EXCEPT !.length = slot.length, !.first = slot.first, !.size = slot.size, !.streamed = TRUE]
                  ELSE set)
        /\ UNCHANGED fat

NameSlot ==
    LET set == fatWalk.pending
        chars == Head(fatWalk.left).chars
        room == IF set.length = 0 THEN Len(chars) ELSE Max({0, Min({Len(chars), set.length - Len(set.name)})})
    IN  /\ AtSlot("name")
        /\ JoinedTo(IF set.active THEN [set EXCEPT !.name = @ \o SubSeq(chars, 1, room)] ELSE set)
        /\ UNCHANGED fat

----------------------------------------------------------------------------
FatMark(name) == [kind |-> "mark", name |-> name]

FatMarks ==
    /\ fatWalk.pc = "marks" \/ (fatWalk.pc = "jobs" /\ fatWalk.jobs = <<>>)
    /\ fatWalk' = [fatWalk EXCEPT !.pc = "done"]
    /\ listed' = listed \o (IF fatWalk.dirUnread THEN <<FatMark("FAT_DirectoryUnread")>> ELSE <<>>)
                        \o (IF fatWalk.chainUnread THEN <<FatMark("FAT_ChainUnread")>> ELSE <<>>)
    /\ UNCHANGED fat

FatNext ==
    \/ FatBoot \/ NextDirectory \/ ReadDirCluster \/ EndOfCluster \/ LeaveDirectory
    \/ EndSlot \/ LfnSlot \/ LabelSlot \/ ShortSlot \/ FileSlot \/ StreamSlot \/ NameSlot \/ FatMarks

----------------------------------------------------------------------------
(* What was stored: an object is [name, dir, live, in, slots, after, first, *)
(* size, chain]: its directory, the clusters of its slots and of those     *)
(* before them, and its own clusters in their order.                       *)

Root == [first |-> fat.root, chain |-> IF FatSmall THEN <<1>> ELSE fat.holds.root, live |-> TRUE]

\* The entry that leads from the k-th cluster to the next is there and reads.
LinkReads(chain, k) ==
    <<1, chain[k]>> \notin fat.unread /\ fat.tables[1][chain[k]] = (IF k = Len(chain) THEN EndEntry ELSE chain[k + 1])

\* The clusters of a directory that its entries, read before they wrap around,
\* lead to
LedTo(directory) ==
    {directory.chain[k] : k \in {n \in DOMAIN directory.chain :
        \A m \in 1..(n - 1) : LinkReads(directory.chain, m) /\ fat.at + directory.chain[m] < FatWord}}

\* The objects the directories lead to from the root, each with a path: as deep
\* as there are directories
Met ==
    LET objects == fat.holds.objects
        under(met) ==
            {<<o, Append(d[2], o.name)>> : <<o, d>> \in
                {pair \in objects \X met : /\ pair[1].in = pair[2][1].first
                                           /\ pair[1].slots \cup pair[1].after \subseteq LedTo(pair[2][1]) \ fat.bad}}
        Deeper(met, k) == met \cup under({m \in met : m[2] = <<>> \/ (m[1].dir /\ ~FatSmall)})
    IN  FoldLeft(Deeper, {<<Root, <<>>>>}, [k \in 1..(Cardinality({o \in objects : o.dir}) + 1) |-> k])

\* The clusters of a file up to the first whose entry does not read, or to the
\* cap of the scan
ReadableChain(o) ==
    LET stops == {k \in DOMAIN o.chain : <<1, o.chain[k]>> \in fat.unread}
        cap == IF fat.fs = "exfat" THEN Len(o.chain) ELSE Min({FatCap, Len(o.chain)})
    IN  SubSeq(o.chain, 1, Min(stops \cup {cap}))

PlainChain(o) == ToSet(o.chain) \cap (DOMAIN fat.torn \cup fat.high) = {} /\ o.chained

FoundLive(o, paths) ==
    LET mine == {k \in DOMAIN listed : listed[k].kind = "file" /\ listed[k].live /\ listed[k].name = o.name}
    IN  \E k \in mine :
            /\ mine = {k}
            /\ listed[k].size = o.size /\ listed[k].path \in paths
            /\ PlainChain(o) =>
                /\ listed[k].runs = ReadableChain(o)
                /\ LET whole == \A c \in ToSet(listed[k].runs) : <<1, c>> \notin fat.unread
                   IN  /\ listed[k].confidence = (IF whole THEN 100 ELSE 35)
                       /\ whole \/ FatMark("FAT_ChainUnread") \in ToSet(listed)

\* A deleted file is wanted whole when its first cluster is free and another
\* copy of the table still has its chain, or its clusters lie in a row with
\* nothing new in them and no copy has a chain of that length.
InCopy(o, i) ==
    \A k \in DOMAIN o.chain :
        /\ <<i, o.chain[k]>> \notin fat.unread
        /\ fat.tables[i][o.chain[k]] = (IF k = Len(o.chain) THEN EndEntry ELSE o.chain[k + 1])
Forgotten(o) == \A i \in DOMAIN fat.tables : <<i, o.first>> \notin fat.unread /\ fat.tables[i][o.first] = FreeEntry
InARow(o) ==
    \A k \in 2..Len(o.chain) : o.chain[k] = o.first + k - 1 /\ o.chain[k] \notin fat.bad \cup fat.looks

Recoverable(o) ==
    /\ o.chain # <<>> /\ PlainChain(o) /\ <<1, o.first>> \notin fat.unread /\ fat.tables[1][o.first] = FreeEntry
    /\ (Len(fat.tables) > 1 /\ InCopy(o, 2)) \/ (Forgotten(o) /\ InARow(o))

FoundDeleted(o, paths) ==
    \E k \in DOMAIN listed :
        /\ listed[k].kind = "file" /\ ~listed[k].live /\ listed[k].name = o.name
        /\ listed[k].size = o.size /\ listed[k].path \in paths
        /\ Recoverable(o) => listed[k].runs = o.chain /\ listed[k].confidence > 35

\* The volume can be told from its first sector or from the backup of it.
FatToldFrom ==
    /\ fat.front # "unread"
    /\ IF fat.fs = "exfat" THEN (fat.front = "exfat" \/ fat.twelfth = "exfat") /\ fat.fits
       ELSE fat.front = "fat" \/ fat.spare = "fat"

\* A scan of a FAT or exFAT volume is whole: every live file that the
\* directories lead to is listed once, with the name, size and a path it has
\* and with its clusters in their order, as far as its table reads; a deleted
\* one is listed, and is whole while a copy of the table has its chain or its
\* clusters lie untouched in a row; a directory's cluster or entry, or a file's
\* entry, that does not read leaves its mark; and nothing that is not stored is
\* listed as live when all of the volume reads.  (parseFAT, parseExFAT.)
FatScanIsWhole ==
    /\ \A j, k \in DOMAIN listed : listed[j] = listed[k] /\ listed[j].kind = "file" /\ listed[j].live => j = k
    /\ fatWalk.pc = "done" /\ FatToldFrom =>
        LET met == Met
            PathsOf(o) == {IF fat.fs = "exfat" THEN Front(m[2]) ELSE <<>> : m \in {n \in met : n[1] = o /\ n[2] # <<>>}}
            reached == {m[1] : m \in met}
            dirs == {Root} \cup IF FatSmall THEN {} ELSE {o \in reached \ {Root} : o.dir}
        IN  /\ \A o \in reached \ {Root} :
                  o.dir \/ IF o.live THEN FoundLive(o, PathsOf(o)) ELSE FoundDeleted(o, PathsOf(o))
            /\ \A d \in dirs :
                  \/ LedTo(d) \cap fat.bad # {}
                  \/ ~FatSmall /\ \E c \in LedTo(d) : <<1, c>> \in fat.unread /\ fat.at + c < FatWord
                  => FatMark("FAT_DirectoryUnread") \in ToSet(listed)
            /\ (fat.bad = {} /\ fat.unread = {}) =>
                  /\ \A k \in DOMAIN listed : listed[k].kind = "file" /\ listed[k].live =>
                        \E o \in fat.holds.objects : o.live /\ ~o.dir /\ o.name = listed[k].name
                  /\ fat.stray # UnreadEntry => \A k \in DOMAIN listed : listed[k].kind # "mark"
=============================================================================
