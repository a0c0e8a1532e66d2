----------------------------- MODULE DiskImages -----------------------------
(***************************************************************************)
(* Virtual disk images expanded into memory: VHD, VHDX, VMDK, VDI, QCOW2   *)
(* and UDIF, alone or as the differencing child of another image, the      *)
(* writers of the same formats, and the replay of the log of a VHDX whose  *)
(* writer died.                                                            *)
(*                                                                         *)
(* An image is [kind, parent, size, block, map, data].  Sizes count        *)
(* sectors.  map has an entry for each block: [how, at, only], with how    *)
(* "free" (not in this file), "zero", "data" or "packed", the place at of  *)
(* its first sector in data, and in only the sectors of the block that are *)
(* really there (the sector bitmap of VHD and VHDX).  A sector holds a     *)
(* number; a packed block is stored in its first sector, deflated.         *)
(***************************************************************************)
EXTENDS Integers, SequencesExt, FiniteSetsExt

CONSTANTS
    Folders,     \* the folders considered: functions from paths to images
    Payloads,    \* what is saved to a new image
    Wrapping,    \* how: [kind, block, packed]
    LogSlots,    \* sectors of the log of a VHDX, written round and round
    LogUpdates,  \* bound: updates of its block map by its writer
    LogBlocks,   \* sectors of that block map
    MaxDescriptors  \* descriptors a reader of the log takes in an entry, 126

ASSUME ImagesAssumption ==
    LogSlots \in Nat \ {0} /\ LogUpdates \in Nat /\ LogBlocks \in Nat /\ MaxDescriptors \in Nat

NoParent == ""
Failed == <<-1>>

VARIABLES
    folder,      \* the files
    saved,       \* what was written to the image "saved"
    attached,    \* path -> what attaching it gave, for the paths attached
    bat,         \* the block map of a VHDX in its file, a number an entry
    log,         \* the sectors of its log: [seq, whole, part, targets], seq 0 when unused
    seq, flushed,  \* last entry logged, last one that is in the map
    starts,      \* where each entry begins, and the next: sectors of the log since its first
    committed,   \* the map its writer has made durable
    replayed     \* the map as the last attach saw it

imagesVars == <<folder, saved, attached, bat, log, seq, flushed, starts, committed, replayed>>

Zeros(n) == [k \in 1..n |-> 0]
Smaller(a, b) == IF a < b THEN a ELSE b

----------------------------------------------------------------------------
(* Expanding one file over what its parent gave                            *)

\* The sectors of block i that are inside the disk
BlockLength(image, i) == Smaller(image.block, image.size - (i - 1) * image.block)

\* chunk: what is copied of a block
Chunk(image, i) == BlockLength(image, i)

\* A block that lies behind the end of the file fails the whole image.
InRange(image, i) ==
    LET entry == image.map[i]
    IN  CASE entry.how = "data" -> entry.at + Chunk(image, i) - 1 <= Len(image.data)
          [] entry.how = "packed" -> entry.at <= Len(image.data) /\ image.data[entry.at] # <<>>
          [] OTHER -> TRUE

\* Which blocks a format copies over what the parent gave.  VHDX clears one
\* that is marked zero; VDI and QCOW2 pass it over as one that is free.
Copies(image, i) ==
    \/ image.map[i].how \in {"data", "packed"}
    \/ image.map[i].how = "zero" /\ image.kind = "vhdx"

\* The sector of block i at n, as the copy of the block has it; its bitmap is
\* skipped, not read.
CopiedSector(image, i, n) ==
    LET entry == image.map[i]
    IN  CASE entry.how = "data" -> image.data[entry.at + n]
          [] entry.how = "packed" -> image.data[entry.at][n + 1]
          [] OTHER -> 0

BlocksInDisk(image) == {i \in DOMAIN image.map : (i - 1) * image.block < image.size}

\* extractVmdkPayload, extractVdiPayload, extractQcow2Payload,
\* extractVhdxPayload and the dynamic VHD: a parent of another size or a block
\* out of range is refused.
Expand(image, base) ==
    IF base = Failed \/ Len(base) # image.size \/ \E i \in BlocksInDisk(image) : ~InRange(image, i)
    THEN Failed
    ELSE [s \in 1..image.size |->
            LET i == (s - 1) \div image.block + 1
            IN  IF i \in BlocksInDisk(image) /\ Copies(image, i)
                THEN CopiedSector(image, i, (s - 1) % image.block)
                ELSE base[s]]

BaseOf(image, parent) == IF image.parent = NoParent THEN Zeros(image.size) ELSE parent

\* A run that is longer than its place is cut, one that is shorter leaves zeros.
RunLength(r) == Smaller(r.count, Len(r.data))

\* extractDmgPayload: runs of sectors instead of blocks.  One outside of the
\* disk is refused, and so is a disk without any run that has data.
ExpandDmg(size, runs) ==
    IF (\E r \in Range(runs) : r.to + r.count > size) \/ (\A r \in Range(runs) : r.zero)
    THEN Failed
    ELSE LET covers(r, s) == ~r.zero /\ s > r.to /\ s <= r.to + RunLength(r)
         IN  [s \in 1..size |->
                LET last == {k \in DOMAIN runs : covers(runs[k], s)}
                IN  IF last = {} THEN 0 ELSE runs[Max(last)].data[s - runs[Max(last)].to]]

\* extractVhdFile: the parents first, by name in the same folder, along a line of
\* n files at most.  A file that is not there, or is its own parent, fails what
\* is above it.
Extracted(files) ==
    LET paths == DOMAIN files
        got[n \in 0..Cardinality(paths)] ==
            [p \in paths |->
                LET image == files[p]
                    parent == IF image.parent \in paths THEN got[n - 1][image.parent] ELSE Failed
                IN  IF n = 0 THEN Failed
                    ELSE IF image.kind = "dmg" THEN ExpandDmg(image.size, image.map)
                    ELSE Expand(image, BaseOf(image, parent))]
    IN  got[Cardinality(paths)]

Extract(path) == Extracted(folder)[path]

----------------------------------------------------------------------------
(* The writers: wrapDynamicVhd, wrapVhdx, wrapVmdk, wrapVdi, wrapQcow2     *)

\* Mutant: a block that is not full is left out.
NumBlocksFloor(payload, block) == Len(payload) \div block

NumBlocks(payload, block) == (Len(payload) + block - 1) \div block

\* Block i of a payload, filled up with zeros
BlockOf(payload, block, i) ==
    [n \in 1..block |-> IF (i - 1) * block + n <= Len(payload)
                        THEN payload[(i - 1) * block + n] ELSE 0]

\* A block that is all zeros is not stored, but by QCOW2 without a backing file.
Stores(kind, parent, content) ==
    \/ kind = "qcow2" /\ parent = NoParent
    \/ \E n \in DOMAIN content : content[n] # 0

\* What a file has after each of the blobs it gets one behind the other
Grown(blobs) ==
    LET file[i \in 0..Len(blobs)] == IF i = 0 THEN <<>> ELSE file[i - 1] \o blobs[i]
    IN  file

Wrap(kind, parent, payload, block, packed) ==
    LET numBlocks == NumBlocks(payload, block)
        content(i) == BlockOf(payload, block, i)
        stored(i) == Stores(kind, parent, content(i))
        blob(i) == IF ~stored(i) THEN <<>> ELSE IF packed THEN <<content(i)>> ELSE content(i)
        file == Grown([i \in 1..numBlocks |-> blob(i)])
        absent == IF kind = "vhdx" /\ parent = NoParent THEN "zero" ELSE "free"
    IN  [kind |-> kind, parent |-> parent, size |-> Len(payload), block |-> block,
         map |-> [i \in 1..numBlocks |->
                    IF ~stored(i) THEN [how |-> absent, at |-> 0, only |-> {}]
                    ELSE [how |-> IF packed THEN "packed" ELSE "data",
                          at |-> Len(file[i - 1]) + 1, only |-> 0..(block - 1)]],
         data |-> file[numBlocks]]

\* wrapDmg: one run of it all, raw or packed
WrapDmg(payload) ==
    [kind |-> "dmg", parent |-> NoParent, size |-> Len(payload), block |-> 1,
     map |-> <<[to |-> 0, count |-> Len(payload), zero |-> FALSE, data |-> payload]>>, data |-> <<>>]

----------------------------------------------------------------------------
(* The log of a VHDX                                                       *)

Unused == [seq |-> 0, whole |-> FALSE, part |-> 0, targets |-> {}]

\* An entry is a sector of descriptors and one of data for each sector of the map.
EntryLength(targets) == 1 + Cardinality(targets)
LogSlot(place) == (place % LogSlots) + 1
LogHead == starts[seq + 1]
LogTail == starts[flushed + 1]

\* The log when the first n sectors of the next entry have been written into it
Logged(targets, n, whole) ==
    [k \in 1..LogSlots |->
        LET here == {i \in 0..(n - 1) : LogSlot(LogHead + i) = k}
        IN  IF here = {} THEN log[k]
            ELSE [seq |-> seq + 1, whole |-> whole, part |-> CHOOSE i \in here : TRUE, targets |-> targets]]

\* What the next entry is of: it goes over entries that are in the map.
NextEntry == {targets \in (SUBSET (1..LogBlocks)) \ {{}} : LogHead + EntryLength(targets) <= LogTail + LogSlots}

\* External: the writer logs new values of sectors of the map behind the last entry.
LogUpdate ==
    /\ seq < LogUpdates
    /\ \E targets \in NextEntry :
          /\ log' = Logged(targets, EntryLength(targets), TRUE)
          /\ starts' = Append(starts, LogHead + EntryLength(targets))
          /\ committed' = [e \in 1..LogBlocks |-> IF e \in targets THEN seq + 1 ELSE committed[e]]
    /\ seq' = seq + 1
    /\ UNCHANGED <<folder, saved, attached, bat, flushed, replayed>>

\* External: it dies in one of the sectors of the next entry.
TornUpdate ==
    /\ seq < LogUpdates
    /\ \E targets \in NextEntry : \E n \in 1..EntryLength(targets) : log' = Logged(targets, n, FALSE)
    /\ UNCHANGED <<folder, saved, attached, bat, seq, flushed, starts, committed, replayed>>

\* External: the oldest entry that is not in the map is written there.
Flush ==
    /\ flushed < seq
    /\ bat' = [e \in 1..LogBlocks |->
                IF e \in log[LogSlot(LogTail)].targets THEN log[LogSlot(LogTail)].seq ELSE bat[e]]
    /\ flushed' = flushed + 1
    /\ UNCHANGED <<folder, saved, attached, log, seq, starts, committed, replayed>>

\* Sector k has the head of an entry that the writer finished.
EntryBegins(k) == log[k].part = 0 /\ log[k].seq # 0 /\ log[k].whole
\* An entry that goes over the ring's end is longer than what is left of the log.
Overruns(k) == k + EntryLength(log[k].targets) - 1 > LogSlots
\* Its check sum: every sector of it is still there.
Unharmed(k) ==
    \A i \in 1..Cardinality(log[k].targets) :
        log[k + i] = [seq |-> log[k].seq, whole |-> TRUE, part |-> i, targets |-> log[k].targets]

\* The scan of replayVhdxLog
LogHits == {k \in DOMAIN log : EntryBegins(k) /\ ~Overruns(k) /\ Unharmed(k)}

\* Mutant: the entries are applied as they lie in the log.
OrderOfSlots(k) == k

\* std::sort by sequence number: when the turn of the entry at sector k is
OrderOfHits(k) == log[k].seq

HitsAt(n) == {k \in LogHits : OrderOfHits(k) = n}

Applied(map, hits) ==
    IF hits = {} THEN map
    ELSE LET hit == log[CHOOSE k \in hits : TRUE]
         IN  [e \in 1..LogBlocks |-> IF e \in hit.targets THEN hit.seq ELSE map[e]]

\* replayVhdxLog: every entry found, in the order of their numbers
Replay ==
    LET map[n \in 0..LogUpdates] == IF n = 0 THEN bat ELSE Applied(map[n - 1], HitsAt(n))
    IN  map[LogUpdates]

\* One entry with too many descriptors, and the file is not attached.
AttachVhdx ==
    /\ replayed' = IF \E k \in LogHits : Cardinality(log[k].targets) > MaxDescriptors THEN Failed ELSE Replay
    /\ UNCHANGED <<folder, saved, attached, bat, log, seq, flushed, starts, committed>>

----------------------------------------------------------------------------
(* The folders and writers there are                                       *)

\* A block that is stored has all of its sectors: a differencing VHD or VHDX that
\* has some of a block, and a zero block over a parent in another format than
\* VHDX, are read otherwise than they are meant.  A packed block inflates to a
\* block or not at all.
EntryIsSound(image, i) ==
    LET entry == image.map[i]
    IN  /\ entry.how \in {"free", "zero", "data", "packed"}
        /\ entry.how = "zero" => image.kind = "vhdx" \/ image.parent = NoParent
        /\ entry.how \in {"data", "packed"} => entry.at \in Nat \ {0} /\ entry.only = 0..(image.block - 1)
        /\ entry.how = "data" =>
              \A k \in entry.at..(entry.at + image.block - 1) : k <= Len(image.data) => image.data[k] \in Nat
        /\ entry.how = "packed" /\ entry.at <= Len(image.data) =>
              image.data[entry.at] \in Seq(Nat) /\ Len(image.data[entry.at]) \in {0, image.block}

ImageIsSound(image) ==
    /\ image.size \in Nat
    /\ image.kind = "dmg" => image.map \in Seq([to : Nat, count : Nat, zero : BOOLEAN, data : Seq(Nat)])
    /\ image.kind # "dmg" =>
          /\ image.block \in Nat \ {0} /\ Len(image.map) \in Nat /\ DOMAIN image.map = 1..Len(image.map)
          /\ Len(image.data) \in Nat /\ DOMAIN image.data = 1..Len(image.data)
          /\ \A i \in DOMAIN image.map : EntryIsSound(image, i)

\* "saved" is a new file; a DMG is nobody's parent.
FolderIsSound(files) ==
    /\ IsFiniteSet(DOMAIN files) /\ DOMAIN files \cap {NoParent, "saved"} = {}
    /\ \A p \in DOMAIN files :
          /\ ImageIsSound(files[p]) /\ files[p].parent # "saved"
          /\ files[p].parent \in DOMAIN files => files[files[p].parent].kind # "dmg"

ASSUME WritersAssumption ==
    /\ \A files \in Folders : FolderIsSound(files)
    /\ Payloads \subseteq Seq(Nat) \ {<<>>}
    /\ \A w \in Wrapping : w.block \in Nat \ {0} /\ w.packed \in BOOLEAN

----------------------------------------------------------------------------
ImagesInit ==
    /\ folder \in Folders
    /\ attached = <<>> /\ saved = <<>>
    /\ bat = [e \in 1..LogBlocks |-> 0] /\ committed = bat /\ replayed = bat
    /\ log = [k \in 1..LogSlots |-> Unused]
    /\ seq = 0 /\ flushed = 0 /\ starts = <<0>>

\* wrapDynamicVhd and the others, into a new file
Save ==
    /\ saved = <<>>
    /\ \E payload \in Payloads, w \in Wrapping :
          /\ saved' = payload
          /\ folder' = [p \in DOMAIN folder \cup {"saved"} |->
                IF p # "saved" THEN folder[p]
                ELSE IF w.kind = "dmg" THEN WrapDmg(payload)
                ELSE Wrap(w.kind, NoParent, payload, w.block, w.packed)]
    /\ UNCHANGED <<attached, bat, log, seq, flushed, starts, committed, replayed>>

\* extractVhdFile
Attach ==
    /\ \E path \in DOMAIN folder \ DOMAIN attached :
          attached' = [p \in DOMAIN attached \cup {path} |->
                        IF p = path THEN Extract(path) ELSE attached[p]]
    /\ UNCHANGED <<folder, saved, bat, log, seq, flushed, starts, committed, replayed>>

FilesNext == Attach \/ Save
LogNext == LogUpdate \/ TornUpdate \/ Flush \/ AttachVhdx

ImagesNext == FilesNext \/ LogNext

ImagesSpec == ImagesInit /\ [][ImagesNext]_imagesVars

----------------------------------------------------------------------------
(* Properties                                                              *)

Present(image, s) ==
    LET i == (s - 1) \div image.block + 1
    IN  /\ i \in DOMAIN image.map /\ image.map[i].how # "free"
        /\ image.map[i].how \in {"data", "packed"} => (s - 1) % image.block \in image.map[i].only

\* The line of files from a path through its parents
Line(files, path) ==
    LET line[k \in 0..Cardinality(DOMAIN files)] ==
            IF k = 0 THEN path
            ELSE IF line[k - 1] \in DOMAIN files THEN files[line[k - 1]].parent ELSE NoParent
    IN  line

\* What a sector of a chain of images holds: what the first file from the top
\* that has the sector says, and zero when none has it.
Overlay(path, s) ==
    LET line == Line(folder, path)
        has == {k \in DOMAIN line : line[k] \in DOMAIN folder /\ Present(folder[line[k]], s)}
        image == folder[line[Min(has)]]
    IN  IF has = {} THEN 0
        ELSE CopiedSector(image, (s - 1) \div image.block + 1, (s - 1) % image.block)

\* A disk that was attached reads as its chain of files says, to the last
\* sector of a size that is no multiple of the block, through every parent
\* (extractVhdFile, extractVhdPayload); and what a writer of an image was given,
\* a reader of it gives back: with blocks that are left out because they are
\* zero, packed, or half filled at the end (wrapDynamicVhd, wrapVhdx, wrapVmdk,
\* wrapVdi, wrapQcow2, wrapDmg).
ImagesAreTrue ==
    /\ \A path \in DOMAIN attached : attached[path] # Failed /\ folder[path].kind # "dmg" =>
          attached[path] = [s \in 1..folder[path].size |-> Overlay(path, s)]
    /\ "saved" \in DOMAIN attached => attached["saved"] = saved

\* The last entry of sector e of the map is in the log, over the ring's end.
LostAtTheEnd(e) == \E k \in DOMAIN log : EntryBegins(k) /\ log[k].seq = committed[e] /\ Overruns(k)

\* After any death of its writer a VHDX is either not attached or seen with the map
\* its writer had committed, however often its log has gone round: no entry brings
\* back what a later one replaced.  Left out is a sector of the map whose last entry
\* lies over the end of the log, which replayVhdxLog passes over without a word.
ReplayRestores ==
    [][AttachVhdx /\ replayed' # Failed =>
         \A e \in 1..LogBlocks : ~LostAtTheEnd(e) => replayed'[e] = committed[e]]_imagesVars
=============================================================================
