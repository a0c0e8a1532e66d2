------------------------------ MODULE NtfsScan ------------------------------
(***************************************************************************)
(* NTFSParser::scanAt: the records of an NTFS volume, found once along the *)
(* runs of the $MFT and once more sector by sector, indexed by number, and *)
(* then read again one at a time and handed over as files, in the order of *)
(* their numbers; after them the names that only directories or the        *)
(* journal of changes still know.                                          *)
(*                                                                         *)
(* A volume is [boot, mft, mirror, sectors, records, indexes, journal,     *)
(* pictures, free, bad, worse, orphans]: how its boot sectors read, where  *)
(* the $MFT and its mirror begin, what stands at which sector, the sectors *)
(* that never read and those that fail once the first passes are over.     *)
(* A record is [used, dir, base, attrs]; it takes RecordSectors.           *)
(***************************************************************************)
EXTENDS Integers, SequencesExt, FiniteSetsExt

CONSTANTS
    MftVolumes,
    RecordSectors,    \* of a FILE record, an INDX record and a cluster
    NtfsChunk,        \* chunkSectors
    FallbackRecords,  \* 1024
    MaxDepth,         \* 64
    MaxListed,        \* refs.size() < 16
    MaxStreams,       \* adsEntries.size() >= 16, eaEntries.size() >= 16
    UnallocCap,       \* 65536 clusters, in sectors
    Nearby            \* kNearbyClusters

VARIABLES
    ntfs,    \* the volume
    walk,    \* the locals of scanAt
    handed    \* what the callback was given

ntfsVars == <<ntfs, walk, handed>>

NoRef == -1
RootRef == 5
JournalStream == "$J"
Plain(n) == [kind |-> "plain", id |-> n]
Unknown(n) == [kind |-> "unknown", id |-> n]

\* The members of a set in the order of Before
Ordered(S, Before(_, _)) ==
    [k \in 1..Cardinality(S) |-> CHOOSE x \in S : Cardinality({y \in S : Before(y, x)}) = k - 1]

Capped(seq, count) == SubSeq(seq, 1, Min({count, Len(seq)}))

SectorsFrom(at, count) == at..(at + count - 1)
ReadsWhole(at, count) == SectorsFrom(at, count) \subseteq (0..(ntfs.sectors - 1)) \ ntfs.bad
ReadsAgain(at, count) == ReadsWhole(at, count) /\ SectorsFrom(at, count) \cap ntfs.worse = {}

----------------------------------------------------------------------------
(* parseMftRecord                                                          *)

\* A long name wins over a short one wherever it stands; a run of a main
\* stream leaves what is resident, as the code does.
Named(parsed, attr) ==
    IF attr.long \/ ~parsed.named
    THEN [parsed EXCEPT !.name = attr.name, !.parent = attr.parent, !.size = attr.size, !.named = TRUE]
    ELSE parsed

Streamed(parsed, attr) ==
    CASE attr.stream # "" ->
           [parsed EXCEPT !.streams = Append(@, [name |-> attr.stream, data |-> attr.data, runs |-> attr.runs])]
      [] attr.stream = "" /\ attr.runs = <<>> -> [parsed EXCEPT !.size = attr.size, !.runs = <<>>, !.data = attr.data]
      [] OTHER -> [parsed EXCEPT !.size = attr.size, !.runs = attr.runs]

Attribute(parsed, attr) ==
    CASE attr.type = "name" -> Named(parsed, attr)
      [] attr.type = "data" -> Streamed(parsed, attr)
      [] attr.type = "ea" -> [parsed EXCEPT !.eas = Capped(@ \o attr.eas, MaxStreams)]
      [] attr.type = "list" /\ attr.runs = <<>> -> [parsed EXCEPT !.refs = Capped(@ \o attr.refs, MaxListed)]
      [] attr.type = "list" /\ attr.runs # <<>> -> [parsed EXCEPT !.listRuns = attr.runs, !.later = Capped(attr.refs, MaxListed)]
      [] attr.type = "root" -> [parsed EXCEPT !.hints = @ \o attr.hints]
      [] attr.type = "allocation" -> [parsed EXCEPT !.allocation = @ \o attr.runs]

Parsed(record, name) ==
    FoldLeft(Attribute,
             [name |-> name, named |-> FALSE, parent |-> 0, size |-> 0, data |-> <<>>, runs |-> <<>>,
              streams |-> <<>>, eas |-> <<>>, refs |-> <<>>, listRuns |-> <<>>, later |-> <<>>, hints |-> <<>>,
              allocation |-> <<>>],
             record.attrs)

\* unnamedDataRunsFromRecord: of the first main stream that has runs
unnamedDataRuns(record) ==
    LET main == SelectSeq(record.attrs, LAMBDA a : a.type = "data" /\ a.stream = "" /\ a.runs # <<>>)
    IN  IF main = <<>> THEN <<>> ELSE SelectSeq(main[1].runs, LAMBDA run : ~run.sparse /\ run.count > 0)

----------------------------------------------------------------------------
(* Where the records are                                                   *)

NtfsRun(at, count) == [at |-> at, count |-> count, sparse |-> FALSE]

RunsAt(at) ==
    IF ReadsWhole(at, RecordSectors) /\ at \in DOMAIN ntfs.records THEN unnamedDataRuns(ntfs.records[at]) ELSE <<>>

mftRanges ==
    LET own == RunsAt(ntfs.mft)
        mirrored == IF ntfs.mirror \notin {0, ntfs.mft} THEN RunsAt(ntfs.mirror) ELSE <<>>
    IN  CASE ntfs.boot \notin {"ok", "backup"} \/ ntfs.mft = 0 -> <<>>
          [] own # <<>> -> own
          [] own = <<>> /\ mirrored # <<>> -> mirrored
          [] OTHER -> <<NtfsRun(ntfs.mft, FallbackRecords * RecordSectors)>>

bootUnread ==
    \/ ntfs.boot = "unread"
    \/ ntfs.boot \in {"ok", "backup"} /\ ntfs.mft # 0 /\ ~ReadsWhole(ntfs.mft, RecordSectors)

\* A chunk that does not read is cut in halves, down to its sectors.
SubReads(at, count) ==
    LET split[n \in 1..count] ==
            [from \in SectorsFrom(at, count - n + 1) |->
                IF ReadsWhole(from, n) \/ n = 1 THEN <<[at |-> from, count |-> n, reads |-> ReadsWhole(from, n)]>>
                ELSE split[n \div 2][from] \o split[n - (n \div 2)][from + (n \div 2)]]
    IN  split[count][at]

ChunksOf(range) ==
    FlattenSeq([k \in 1..((range.count + NtfsChunk - 1) \div NtfsChunk) |->
        SubReads(range.at + (k - 1) * NtfsChunk, Min({NtfsChunk, range.count - (k - 1) * NtfsChunk}))])

Pieces(ranges, orphan) ==
    LET pieces == FlattenSeq([r \in DOMAIN ranges |-> ChunksOf(ranges[r])])
    IN  [p \in DOMAIN pieces |-> [piece |-> pieces[p], orphan |-> orphan]]

NtfsInit ==
    /\ ntfs \in MftVolumes
    /\ walk = [pc |-> "boot", ranges |-> <<>>, todo |-> <<>>, index |-> <<>>, names |-> <<>>, seen |-> 0,
              hints |-> <<>>, allocations |-> <<>>, owned |-> {}, journal |-> <<>>, deleted |-> {},
              order |-> <<>>, left |-> <<>>, bin |-> <<>>, unread |-> FALSE, journalUnread |-> FALSE]
    /\ handed = <<>>

LoadRanges ==
    LET whole == IF ntfs.orphans THEN <<NtfsRun(0, ntfs.sectors)>> ELSE <<>>
        todo == Pieces(mftRanges, FALSE) \o Pieces(whole, TRUE)
    IN  /\ walk.pc = "boot"
        /\ walk' = [walk EXCEPT !.ranges = mftRanges, !.todo = todo, !.unread = bootUnread,
                              !.pc = IF todo = <<>> THEN "marks" ELSE "index"]
        /\ UNCHANGED <<ntfs, handed>>

----------------------------------------------------------------------------
(* Pass 1: the index                                                       *)

\* Mutant: the number within the run is taken for the number.
mftRecWithinRun(at) ==
    LET holds == {k \in DOMAIN walk.ranges : at \in SectorsFrom(walk.ranges[k].at, walk.ranges[k].count)}
    IN  IF holds = {} THEN NoRef ELSE (at - walk.ranges[Min(holds)].at) \div RecordSectors

mftRecFromAbsByte(at) ==
    LET holds == {k \in DOMAIN walk.ranges : at \in SectorsFrom(walk.ranges[k].at, walk.ranges[k].count)}
        before(k) == FoldLeft(LAMBDA sum, range : sum + range.count, 0, SubSeq(walk.ranges, 1, k - 1))
    IN  IF holds = {} THEN NoRef ELSE (before(Min(holds)) + at - walk.ranges[Min(holds)].at) \div RecordSectors

\* A record of the $MFT goes by its number, any other by its place behind them.
KeyOf(at) == IF mftRecFromAbsByte(at) # NoRef THEN <<0, mftRecFromAbsByte(at)>> ELSE <<1, at>>

RunSectors(runs) ==
    UNION {SectorsFrom(runs[k].at, runs[k].count) : k \in {r \in DOMAIN runs : ~runs[r].sparse}}

\* MftIndex::putFileRecord: a deleted record does not take the name of a live one.
putFileRecord(names, ref, parsed, used) ==
    IF ref = 0 \/ (ref \in DOMAIN names /\ names[ref].used /\ ~used) THEN names
    ELSE (ref :> [name |-> parsed.name, parent |-> parsed.parent, used |-> used]) @@ names

Indexed(m, at, record, parsed) ==
    IF KeyOf(at) \in DOMAIN m.index THEN m
    ELSE [m EXCEPT !.index = (KeyOf(at) :> [at |-> at, ref |-> mftRecFromAbsByte(at), used |-> record.used]) @@ @,
                   !.allocations = IF parsed.allocation = <<>> THEN @ ELSE Append(@, parsed.allocation),
                   !.owned = @ \cup RunSectors(parsed.runs)
                               \cup UNION {RunSectors(parsed.streams[k].runs) : k \in DOMAIN parsed.streams},
                   !.seen = @ + 1 + Len(parsed.streams)]

\* CA-032: the pass over all sectors leaves alone what the first one indexed.
Resighted(m, at, orphan) == orphan /\ mftRecFromAbsByte(at) # NoRef /\ KeyOf(at) \in DOMAIN m.index

Sighted(m, at, orphan) ==
    LET record == ntfs.records[at]
        ref == mftRecFromAbsByte(at)
    IN  CHOOSE r \in
          {LET journals == SelectSeq(parsed.streams, LAMBDA s : s.name = JournalStream)
               heard == [m EXCEPT !.hints = @ \o parsed.hints,
                                  !.journal = @ \o FlattenSeq([k \in DOMAIN journals |-> journals[k].runs]),
                                  !.deleted = @ \cup UNION {Range(journals[k].data) : k \in DOMAIN journals}]
           IN  CASE Resighted(m, at, orphan) -> heard
                 [] ~Resighted(m, at, orphan) /\ ref # NoRef ->
                      Indexed([heard EXCEPT !.names = putFileRecord(@, ref, parsed, record.used)], at, record, parsed)
                 [] OTHER -> Indexed(heard, at, record, parsed) :
           parsed \in {Parsed(record, Unknown(m.seen))}} : TRUE

\* A piece: along the $MFT record by record, in the other pass sector by
\* sector; one that is shorter than a record counts as unread.
IndexPiece ==
    LET next == Head(walk.todo)
        step == IF next.orphan THEN 1 ELSE RecordSectors
        starts == {s \in next.piece.at..(next.piece.at + next.piece.count - RecordSectors) :
                      (s - next.piece.at) % step = 0 /\ s \in DOMAIN ntfs.records}
    IN  /\ walk.pc = "index" /\ walk.todo # <<>>
        /\ \E m \in {IF ~next.piece.reads \/ next.piece.count < RecordSectors THEN [walk EXCEPT !.unread = TRUE]
                     ELSE FoldLeft(LAMBDA acc, s : Sighted(acc, s, next.orphan), walk, Ordered(starts, <))} :
             walk' = [m EXCEPT !.todo = Tail(@)]
        /\ UNCHANGED <<ntfs, handed>>

\* The deletions of the journal, before any file is handed over
HarvestDeleted ==
    LET order == Ordered(DOMAIN walk.index, LAMBDA a, b : a[1] < b[1] \/ (a[1] = b[1] /\ a[2] < b[2]))
        runs == {run \in Range(walk.journal) : ~run.sparse}
        read == {s \in UNION {SectorsFrom(run.at, run.count) : run \in runs} : ReadsAgain(s, 1)}
    IN  /\ walk.pc = "index" /\ walk.todo = <<>>
        /\ walk' = [walk EXCEPT !.pc = "emit", !.order = order, !.left = order,
                              !.deleted = @ \cup {ntfs.journal[s] : s \in read \cap DOMAIN ntfs.journal},
                              !.journalUnread = \E run \in runs : ~ReadsAgain(run.at, run.count)]
        /\ UNCHANGED <<ntfs, handed>>

----------------------------------------------------------------------------
(* Pass 2: the files                                                       *)

\* MftIndex::rebuildPath
rebuildPath(name, parent) ==
    LET up[d \in 0..MaxDepth] ==
            IF d = 0 THEN [path |-> <<name>>, at |-> parent]
            ELSE IF up[d - 1].at \in {0, RootRef} \/ up[d - 1].at \notin DOMAIN walk.names THEN up[d - 1]
            ELSE [path |-> <<walk.names[up[d - 1].at].name>> \o up[d - 1].path, at |-> walk.names[up[d - 1].at].parent]
    IN  up[MaxDepth].path

\* What an extension record gives: the main stream to a file that has none,
\* streams and extended attributes to any, up to their caps.  Neither the base
\* it names nor its age is looked at.
NoMain(parsed) == parsed.data = <<>> /\ parsed.runs = <<>>

Extended(parsed, ref) ==
    LET at == walk.index[<<0, ref>>].at
        ext == Parsed(ntfs.records[at], Unknown(0))
        whole == IF NoMain(parsed) /\ ~NoMain(ext)
                 THEN [parsed EXCEPT !.data = ext.data, !.runs = ext.runs, !.size = IF @ = 0 THEN ext.size ELSE @]
                 ELSE parsed
    IN  IF <<0, ref>> \notin DOMAIN walk.index \/ ~ReadsAgain(at, RecordSectors) THEN parsed
        ELSE [whole EXCEPT !.streams = @ \o Capped(ext.streams, MaxStreams - Len(@)),
                           !.eas = @ \o Capped(ext.eas, MaxStreams - Len(@))]

ListReads(parsed) == \A k \in DOMAIN parsed.listRuns : ReadsAgain(parsed.listRuns[k].at, parsed.listRuns[k].count)

RefsOf(parsed) ==
    IF parsed.refs = <<>> /\ parsed.listRuns # <<>> /\ ListReads(parsed) THEN parsed.later ELSE parsed.refs

\* The extensions of a record that has everything are not looked at.
Extends(parsed) == NoMain(parsed) \/ parsed.streams = <<>> \/ parsed.eas = <<>>

Assembled(parsed) == IF Extends(parsed) THEN FoldLeft(Extended, parsed, RefsOf(parsed)) ELSE parsed

Deleted(ref, used) == ~used /\ ref \in walk.deleted

FileRow(key, entry, file) ==
    [source |-> IF Deleted(entry.ref, entry.used) THEN "ntfs_mft_usn" ELSE "ntfs_mft", key |-> key,
     ref |-> entry.ref, name |-> file.name, stream |-> "", path |-> rebuildPath(file.name, file.parent),
     size |-> file.size, data |-> file.data, runs |-> file.runs, used |-> entry.used]

StreamRow(row, stream) ==
    [row EXCEPT !.source = "ntfs_ads", !.stream = stream.name, !.data = stream.data, !.runs = stream.runs]

\* The object id and the volume's name are as extended attributes.
ChildRows(row, file) ==
    [k \in DOMAIN file.streams |-> StreamRow(row, file.streams[k])]
      \o [k \in DOMAIN file.eas |-> [row EXCEPT !.source = "ntfs_ea", !.data = file.eas[k], !.runs = <<>>]]

\* A record that belongs to another is not a file of its own; one that no
\* longer reads is left to the sweep; $I and $R wait for each other.
EmitRecord ==
    LET key == Head(walk.left)
        entry == walk.index[key]
        record == ntfs.records[entry.at]
        again == ReadsAgain(entry.at, RecordSectors)
        handled == [walk EXCEPT !.left = Tail(@), !.order = SelectSeq(@, LAMBDA k : k # key)]
    IN  /\ walk.pc = "emit" /\ walk.left # <<>>
        /\ \/ ~again /\ walk' = [walk EXCEPT !.left = Tail(@), !.unread = TRUE] /\ UNCHANGED handed
           \/ again /\ record.base # 0 /\ walk' = handled /\ UNCHANGED handed
           \/ /\ again /\ record.base = 0
              /\ \E parsed \in {Parsed(record, Unknown(Len(handed)))} :
                 \E file \in {Assembled(parsed)} :
                   LET row == FileRow(key, entry, file)
                       children == ChildRows(row, file)
                       missed == \/ parsed.refs = <<>> /\ ~ListReads(parsed)
                                 \/ /\ Extends(parsed)
                                    /\ \E ref \in Range(RefsOf(parsed)) :
                                          <<0, ref>> \in DOMAIN walk.index
                                            /\ ~ReadsAgain(walk.index[<<0, ref>>].at, RecordSectors)
                       next == [handled EXCEPT !.unread = @ \/ missed]
                   IN  IF file.name.kind \in {"I", "R"}
                       THEN walk' = [next EXCEPT !.bin = Append(@, [row |-> row, children |-> children])] /\ UNCHANGED handed
                       ELSE walk' = next /\ handed' = handed \o <<row>> \o children
        /\ UNCHANGED ntfs

\* applyRecycleBinRecords: of several with an id the last $I and the last $R
PairOf(id) ==
    LET last(kind) == Max({0} \cup {k \in DOMAIN walk.bin : walk.bin[k].row.name = [kind |-> kind, id |-> id]})
    IN  [i |-> last("I"), r |-> last("R")]

Paired(k) ==
    LET pair == PairOf(walk.bin[k].row.name.id)
    IN  k \in {pair.i, pair.r} /\ pair.i # 0 /\ pair.r # 0 /\ walk.bin[pair.i].row.data # <<>>

Restored(k) ==
    LET row == walk.bin[k].row
        original == walk.bin[PairOf(row.name.id).i].row.data[1]
    IN  IF ~Paired(k) THEN row
        ELSE [row EXCEPT !.source = "ntfs_recycle", !.name = original, !.path = <<original>>, !.used = FALSE]

FlushRecycled ==
    LET kept == SelectSeq([k \in DOMAIN walk.bin |-> k], LAMBDA k : ~(Paired(k) /\ walk.bin[k].row.name.kind = "I"))
    IN  /\ walk.pc = "emit" /\ walk.left = <<>>
        /\ handed' = handed \o FlattenSeq([n \in DOMAIN kept |-> <<Restored(kept[n])>> \o walk.bin[kept[n]].children])
        /\ walk' = [walk EXCEPT !.pc = "sweep"]
        /\ UNCHANGED ntfs

\* K1: what pass 2 could not handle, without a name
SweepOrphans ==
    /\ walk.pc = "sweep"
    /\ handed' = handed \o [k \in DOMAIN walk.order |->
                  [source |-> "orphan", key |-> walk.order[k], ref |-> walk.index[walk.order[k]].ref,
                   name |-> Plain(0), stream |-> "", path |-> <<>>, size |-> 0, data |-> <<>>, runs |-> <<>>,
                   used |-> walk.index[walk.order[k]].used]]
    /\ walk' = [walk EXCEPT !.pc = "directories"]
    /\ UNCHANGED ntfs

----------------------------------------------------------------------------
(* The names of directories, and the journal                               *)

\* INDX records of the directories, and of the clusters nobody has: where the
\* volume's own map is not there, of the first UnallocCap sectors.
Allocated ==
    LET starts(run) == [i \in 1..(run.count \div RecordSectors) |-> run.at + (i - 1) * RecordSectors]
        ofRuns(runs) == FlattenSeq([r \in DOMAIN runs |-> IF runs[r].sparse THEN <<>> ELSE starts(runs[r])])
    IN  FlattenSeq([k \in DOMAIN walk.allocations |-> ofRuns(walk.allocations[k])])

OwnedByIndexes == UNION {RunSectors(walk.allocations[k]) : k \in DOMAIN walk.allocations}

FreeRanges == IF ntfs.free # <<>> THEN ntfs.free ELSE <<NtfsRun(0, Min({ntfs.sectors, UnallocCap}))>>

FreeClusters ==
    {s \in UNION {SectorsFrom(range.at, range.count - RecordSectors + 1) : range \in Range(FreeRanges)} :
        s % RecordSectors = 0}

Unallocated == Ordered(FreeClusters \ OwnedByIndexes, <)

HintsIn(starts) ==
    LET at(s) == IF s \in DOMAIN ntfs.indexes /\ ReadsAgain(s, RecordSectors) THEN ntfs.indexes[s] ELSE <<>>
    IN  FlattenSeq([k \in DOMAIN starts |->
            [h \in DOMAIN at(starts[k]) |-> [at(starts[k])[h] EXCEPT !.from = starts[k]]]])

SomeUnread(starts) == \E s \in Range(starts) : ~ReadsAgain(s, RecordSectors)

\* emitI30Hint: a child without a record, or whose record has another name now
IsNews(h) == h.child # 0 /\ (h.child \notin DOMAIN walk.names \/ walk.names[h.child].name # h.name)

HintRow(h, source) ==
    [source |-> source, key |-> <<2, h.child>>, ref |-> h.child, name |-> h.name, stream |-> "",
     path |-> rebuildPath(h.name, h.parent), size |-> h.size, data |-> <<>>, runs |-> <<>>, used |-> FALSE]

\* tryI30CarveBind: the one free place near its entry that holds a picture of
\* the length the entry says, and nothing a record or an index has.
CarveBind(h) ==
    LET clusters(s) == IF s >= h.from THEN (s \div RecordSectors) - (h.from \div RecordSectors)
                       ELSE (h.from \div RecordSectors) - (s \div RecordSectors)
        fits(s) == /\ SectorsFrom(s, h.size) \cap (OwnedByIndexes \cup walk.owned) = {}
                   /\ clusters(s) <= Nearby /\ ReadsAgain(s, h.size)
                   /\ s \in DOMAIN ntfs.pictures /\ ntfs.pictures[s] = h.size
        found == {s \in FreeClusters : fits(s)}
    IN  IF h.size = 0 \/ Cardinality(found) # 1 THEN <<>>
        ELSE <<[HintRow(h, "ntfs_i30_carve") EXCEPT !.runs = <<NtfsRun(Max(found), h.size)>>]>>

\* What did not read is said so, once for each kind.
Mark(source) ==
    [source |-> source, key |-> <<4, 0>>, ref |-> NoRef, name |-> Plain(0), stream |-> "", path |-> <<>>,
     size |-> 0, data |-> <<>>, runs |-> <<>>, used |-> FALSE]

\* Each child and name once, the entries of records and their directories
\* before those of free clusters
EmitHints ==
    LET own == walk.hints \o HintsIn(Allocated)
        all == own \o HintsIn(Unallocated)
        fresh(k) == /\ IsNews(all[k])
                    /\ \A j \in 1..(k - 1) : <<all[j].child, all[j].name>> # <<all[k].child, all[k].name>>
        given(k) == CASE ~fresh(k) -> <<>>
                      [] fresh(k) /\ k <= Len(own) -> <<HintRow(all[k], "ntfs_i30")>>
                      [] OTHER -> <<HintRow(all[k], "ntfs_i30_unalloc")>> \o CarveBind(all[k])
        unread == SomeUnread(Allocated) \/ SomeUnread(Unallocated) \/ (ntfs.free = <<>> /\ ntfs.sectors > UnallocCap)
    IN  /\ walk.pc = "directories"
        /\ handed' = handed \o FlattenSeq([k \in DOMAIN all |-> given(k)])
                            \o (IF unread THEN <<Mark("ntfs_i30_unread")>> ELSE <<>>)
        /\ walk' = [walk EXCEPT !.pc = "journal"]
        /\ UNCHANGED ntfs

\* The journal once more: each change of a file in its runs
EmitJournal ==
    LET events(run) ==
            Ordered({s \in SectorsFrom(run.at, run.count) :
                             ~run.sparse /\ s \in DOMAIN ntfs.journal /\ ReadsAgain(s, 1)}, <)
        row(s) == [source |-> "usn_journal", key |-> <<3, s>>, ref |-> ntfs.journal[s], name |-> Plain(0),
                   stream |-> "", path |-> <<>>, size |-> 0, data |-> <<>>, runs |-> <<>>, used |-> FALSE]
        rowsOf(run) == [e \in DOMAIN events(run) |-> row(events(run)[e])]
    IN  /\ walk.pc = "journal"
        /\ handed' = handed \o FlattenSeq([k \in DOMAIN walk.journal |-> rowsOf(walk.journal[k])])
        /\ walk' = [walk EXCEPT !.pc = "marks"]
        /\ UNCHANGED ntfs

EmitMarks ==
    /\ walk.pc = "marks"
    /\ handed' = handed \o (IF walk.unread THEN <<Mark("ntfs_mft_unread")>> ELSE <<>>)
                        \o (IF walk.journalUnread THEN <<Mark("usn_unread")>> ELSE <<>>)
    /\ walk' = [walk EXCEPT !.pc = "done"]
    /\ UNCHANGED ntfs

\* Nothing is handed over once isRunning is false.
StopScan ==
    /\ walk.pc \notin {"done", "stopped"}
    /\ walk' = [walk EXCEPT !.pc = "stopped"]
    /\ UNCHANGED <<ntfs, handed>>

NtfsNext ==
    \/ LoadRanges \/ IndexPiece \/ HarvestDeleted \/ EmitRecord \/ FlushRecycled \/ SweepOrphans
    \/ EmitHints \/ EmitJournal \/ EmitMarks \/ StopScan

NtfsSpec == NtfsInit /\ [][NtfsNext]_ntfsVars

----------------------------------------------------------------------------
(* Properties                                                              *)

RowsOf(sources) == {r \in DOMAIN handed : handed[r].source \in sources}
Files == {r \in DOMAIN handed : handed[r].key[1] \in {0, 1} /\ handed[r].source \notin {"ntfs_ads", "ntfs_ea"}}
Marked(source) == RowsOf({source}) # {}

\* Main stream of a record, its own or of the extension of it that its list
\* names among its first MaxListed
MainOf(record) ==
    LET main == SelectSeq(record.attrs, LAMBDA a : a.type = "data" /\ a.stream = "")
    IN  IF main = <<>> THEN [data |-> <<>>, runs |-> <<>>] ELSE [data |-> main[1].data, runs |-> main[1].runs]

ExtensionsOf(entry) ==
    LET named == UNION {Range(Capped(a.refs, MaxListed)) : a \in {b \in Range(ntfs.records[entry.at].attrs) : b.type = "list"}}
    IN  {ntfs.records[walk.index[<<0, ref>>].at] :
            ref \in {n \in named : <<0, n>> \in DOMAIN walk.index
                                    /\ ntfs.records[walk.index[<<0, n>>].at].base = entry.ref}}

HasData(main) == main.data # <<>> \/ main.runs # <<>>

TrueMain(entry) ==
    LET with == {x \in ExtensionsOf(entry) : HasData(MainOf(x))}
    IN  IF HasData(MainOf(ntfs.records[entry.at])) \/ with = {} THEN MainOf(ntfs.records[entry.at])
        ELSE MainOf(CHOOSE x \in with : TRUE)

\* No record is a file twice, or both a file and a name of a directory; what
\* was bound by its length has nothing that belongs to a record.
NothingTwice ==
    /\ \A r, q \in Files : handed[r].key = handed[q].key => r = q
    /\ \A r, q \in Files \cup RowsOf({"ntfs_i30", "ntfs_i30_unalloc"}) :
          handed[r].ref # NoRef /\ handed[r].source # "ntfs_recycle" /\ handed[q].source # "ntfs_recycle"
            /\ handed[r].ref = handed[q].ref /\ handed[r].name = handed[q].name => r = q
    /\ \A r \in RowsOf({"ntfs_i30_carve"}), q \in Files :
          RunSectors(handed[r].runs) \cap RunSectors(handed[q].runs) = {}

\* Every record of the index is a file, a part of one or the $I of an $R that
\* has the name it tells.
NothingDropped ==
    \A key \in DOMAIN walk.index :
        LET record == ntfs.records[walk.index[key].at]
            parsed == Parsed(record, Unknown(0))
        IN  \/ \E r \in Files : handed[r].key = key
            \/ record.base # 0
            \/ parsed.name.kind = "I" /\ \E r \in RowsOf({"ntfs_recycle"}) : handed[r].name = parsed.data[1]

\* A list that names records of other files, which nothing looks at
ListsOthers(entry) ==
    \E a \in Range(ntfs.records[entry.at].attrs) :
        a.type = "list" /\ \E ref \in Range(a.refs) \ {entry.ref} : <<0, ref>> \in DOMAIN walk.index
                              /\ ntfs.records[walk.index[<<0, ref>>].at].base # entry.ref

\* The directory a file is in, when both are live and have names
Holds(q, r) ==
    /\ \A k \in {q, r} : handed[k].used /\ handed[k].source # "orphan" /\ handed[k].name.kind # "unknown"
    /\ handed[q].ref \notin {NoRef, 0, RootRef}
    /\ handed[q].ref = Parsed(ntfs.records[walk.index[handed[r].key].at], Unknown(0)).parent

\* A record outside of the $MFT that begins in the last sector of a chunk: the
\* pass over all sectors never sees the whole of it, and marks nothing.
AcrossChunks(at) == mftRecFromAbsByte(at) = NoRef /\ (at + 1) % NtfsChunk = 0

\* Where nothing is marked as unread every record that stands where the scan
\* looks is in the index, under its number, unless it lies across two chunks,
\* every file has its own data, and its path is the one of its directory and
\* its name.
UnmarkedIsWhole ==
    ~Marked("ntfs_mft_unread") =>
        /\ \A at \in DOMAIN ntfs.records :
              (ntfs.orphans /\ ~AcrossChunks(at)) \/ mftRecFromAbsByte(at) # NoRef =>
                  KeyOf(at) \in DOMAIN walk.index /\ walk.index[KeyOf(at)].at = at
        /\ \A r \in Files : handed[r].key \in DOMAIN walk.index =>
              /\ handed[r].source # "orphan"
              /\ ListsOthers(walk.index[handed[r].key])
                 \/ [data |-> handed[r].data, runs |-> handed[r].runs] = TrueMain(walk.index[handed[r].key])
        /\ \A r, q \in Files : Holds(q, r) =>
              Len(handed[r].path) > MaxDepth \/ handed[r].path = Append(handed[q].path, handed[r].name)

\* Every FILE record in the runs of the $MFT, and every one outside of them
\* that lies within a chunk, is handed over exactly once, with its own data, or
\* the volume is marked as unread; whatever fails to read, in whichever pass,
\* and wherever the scan is stopped (NTFSParser::scanAt).
NtfsScanIsWhole == NothingTwice /\ (walk.pc = "done" => NothingDropped /\ UnmarkedIsWhole)

\* A change in the journal of a volume is one event of the timeline
\* (ntfs_parser.cpp:1029).
JournalOnce == \A r, q \in RowsOf({"usn_journal"}) : handed[r].key = handed[q].key => r = q
=============================================================================
