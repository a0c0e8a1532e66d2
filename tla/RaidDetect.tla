----------------------------- MODULE RaidDetect ------------------------------
(***************************************************************************)
(* Which array a set of disks makes (fs/raid_detect.cpp): first by the     *)
(* labels of md, IMSM and DDF, then by scoring samples of the disks, in    *)
(* the order given, its rotations and its reverse, and by the marks of     *)
(* file systems that a candidate brings to light.                          *)
(*                                                                         *)
(* The disks hold what the controller of an array of VirtualRaid wrote on  *)
(* them, less the sectors of the array that are blank: these add nothing   *)
(* to a sum.                                                               *)
(***************************************************************************)
EXTENDS VirtualRaid, Sequences

CONSTANTS
    RaidSets,      \* the sets of disks considered, see RaidSet
    StripeSizes,   \* kStripeSizes, in sectors
    DataOffsets,   \* kDataOffsetSectors
    Region,        \* kRaid1Chunk, in sectors
    SectorWidth,   \* kSector, the bytes of a sector
    SampleCap,     \* kMaxSamples
    FullSamples,   \* kMinSamples: with fewer, only a perfect score passes
    TinySamples,   \* kTinySamples
    MirrorFloor,   \* kRaid1Floor, of a hundred
    ParityFloor    \* kParityFloor, of a hundred

\* The disk at position i is the one of slot order[i] of the array.  Its labels
\* are sets of at most one: those of md in the places where it is looked for.
\* marks gives the sectors of the array that begin a file system or hold a
\* table of the partitions that start at parts; stale are the <<slot, sector>>
\* written since without the rest of their row.
RaidSet(s) ==
    LET positions == 0..(s.array.n - 1)
    IN  /\ Array(s.array) /\ s.order \in [positions -> positions]
        /\ \A i \in positions : Len(s.labels[i].md) = 3
        /\ \A l \in DOMAIN s.marks : l \in Nat /\ s.marks[l] \in {"boot", "table", "ext"}
        /\ s.parts \cup s.blank \subseteq Nat

ASSUME RaidDetectAssumption ==
    /\ \A s \in RaidSets : RaidSet(s)
    /\ {Region, SectorWidth, SampleCap, TinySamples} \subseteq Nat \ {0}
    /\ FullSamples \in Nat /\ {MirrorFloor, ParityFloor} \subseteq 0..100

VARIABLES
    raidSet,
    cells,     \* what each of its disks holds, sector by sector
    search     \* the detection: its step, the best geometry so far (a set of at
               \* most one), what it was found by and its score of marks

detectVars == <<raidSet, cells, search>>

Members == raidSet.array.n
Slots == 0..(Members - 1)
Lowest(S) == CHOOSE m \in S : \A x \in S : m <= x
Highest(S) == CHOOSE m \in S : \A x \in S : x <= m

----------------------------------------------------------------------------
(* What the disks hold                                                     *)

DiskSize(i) == raidSet.array.size[raidSet.order[i]]
memberSize == Lowest({DiskSize(i) : i \in Slots})
Truth(l) == Pure(l) \ {<<b, 1>> : b \in raidSet.blank}

\* Sector t of the disk at position i.  What the controller did not write is
\* of no other sector's making.
Content(i, t) ==
    LET d == raidSet.order[i]
        s == t - raidSet.array.base[d]
        own == {<<-2 - ((d * 64) + t), 1>>}
        stored == IF s < 0 THEN (IF raidSet.zeroHead THEN {} ELSE own) ELSE Stored(raidSet.array, d, s)
    IN  IF <<d, t>> \in raidSet.stale \/ stored = Junk THEN own
        ELSE {x \in stored : x[1] \notin raidSet.blank}
Readable(i, t, len) ==
    /\ t + len <= DiskSize(i)
    /\ \A k \in t..(t + len - 1) : <<raidSet.order[i], k>> \notin raidSet.unread

----------------------------------------------------------------------------
(* A candidate geometry, and what the array assembled by it shows.  by[k]  *)
(* is the position of the disk in slot k.                                  *)

Geometry(level, block, offset, algorithm, score) ==
    [level |-> level, block |-> block, offset |-> offset, algorithm |-> algorithm,
     score |-> score, fsConfirmed |-> FALSE, order |-> [k \in Slots |-> k]]
Perfect == [hits |-> 1, total |-> 1]

Assembly(by, g) ==
    [level |-> g.level, algorithm |-> g.algorithm, n |-> Members,
     block |-> IF g.block = 0 THEN 1 ELSE g.block, base |-> [k \in Slots |-> g.offset],
     size |-> [k \in Slots |-> DiskSize(by[k])], extent |-> [k \in Slots |-> 0]]

\* One sector of it, read as VirtualRaid reads: from its place, else from its
\* copy, else rebuilt from the other disks of the row.
Shown(by, g, l) ==
    LET a == Assembly(by, g)
        n == Members
        block == l \div a.block
        off == l % a.block
        reads(k, o, len) == Readable(by[k], g.offset + o, len)
        cell(k, o) == cells[by[k]][g.offset + o]
        whole(S, row) == \A k \in S : reads(k, row * a.block, a.block)
        sum(S, row) == Given(Xor([k \in S |-> cell(k, row * a.block + off)], S))
        rebuilt(k, row, S) ==
          CASE reads(k, row * a.block + off, 1) -> Given(cell(k, row * a.block + off))
            [] ~reads(k, row * a.block + off, 1) /\ whole(S, row) -> sum(S, row)
            [] OTHER -> Unread
        one(k, o) == IF reads(k, o, 1) THEN Given(cell(k, o)) ELSE Unread
        copies(k, o, j, p) == IF reads(k, o, 1) THEN Given(cell(k, o)) ELSE one(j, p)
        holder == CHOOSE k \in Slots : extentsBefore(a)[k] <= l /\ l < extentsBefore(a)[k + 1]
        row5 == block \div (n - 1)
        row6 == block \div (n - 2)
        row10 == block \div (n \div 2)
        data5 == raid5DataDisk(row5, block % (n - 1), n, a.algorithm)
        data6 == raid6DataDisk(row6, block % (n - 2), n)
    IN  CASE l >= capacity(a) -> Unread
          [] l < capacity(a) /\ a.level = "JBOD" -> one(holder, l - extentsBefore(a)[holder])
          [] l < capacity(a) /\ a.level = "RAID0" -> one(block % n, (block \div n) * a.block + off)
          [] l < capacity(a) /\ a.level = "RAID1" ->
               LET good == {k \in Slots : reads(k, l, 1)}
               IN  IF good = {} THEN Unread ELSE Given(cell(Lowest(good), l))
          [] l < capacity(a) /\ a.level = "RAID5" -> rebuilt(data5, row5, Slots \ {data5})
          [] l < capacity(a) /\ a.level = "RAID6" ->
               rebuilt(data6, row6, Slots \ {data6, raid6QDisk(row6, n)})
          [] l < capacity(a) /\ a.level = "RAID10" ->
               copies(raid10MemberA(block, n), row10 * a.block + off,
                      raid10MemberB(block, n), row10 * a.block + off)
          [] l < capacity(a) /\ a.level = "RAID1E" ->
               copies(raid1eDisk(block, 0, n), raid1eRow(block, 0, n) * a.block + off,
                      raid1eDisk(block, 1, n), raid1eRow(block, 1, n) * a.block + off)

----------------------------------------------------------------------------
(* The marks of file systems                                               *)

MarkOf(v) ==
    LET of == {l \in DOMAIN raidSet.marks : v = Pure(l)}
    IN  IF of = {} THEN "none" ELSE raidSet.marks[CHOOSE l \in of : TRUE]
superblockHits(v) == CASE MarkOf(v) = "boot" -> 6 [] MarkOf(v) = "table" -> 2 [] OTHER -> 0

\* One sector that does not read makes the whole score 0.
fsSignatureScore(by, g) ==
    LET has == g.level \in {"RAID5", "RAID6", "RAID10", "RAID1E"}
        size == capacity(Assembly(by, g))
        boot == Shown(by, g, 0)
        starts == IF MarkOf(boot.data) = "table" THEN {p \in raidSet.parts : p < size} ELSE {}
        looked == starts \cup (IF size > 2 THEN {2} ELSE {})
        hits(p) == superblockHits(Shown(by, g, p).data)
        sums[P \in SUBSET starts] ==
          IF P = {} THEN 0 ELSE LET p == CHOOSE q \in P : TRUE IN hits(p) + sums[P \ {p}]
    IN  IF ~has \/ ~boot.ok \/ \E p \in looked : ~Shown(by, g, p).ok THEN 0
        ELSE superblockHits(boot.data) + sums[starts]
             + (IF size > 2 /\ MarkOf(Shown(by, g, 2).data) = "ext" THEN 6 ELSE 0)

----------------------------------------------------------------------------
(* Scores of samples: how many of those that were read agree               *)

Score(taken, agrees(_)) ==
    [hits |-> Cardinality({k \in taken : agrees(k)}), total |-> Cardinality(taken)]
Higher(s, r) == s.hits * r.total > r.hits * s.total
passesConfidence(s, floor) ==
    /\ s.total >= TinySamples
    /\ IF s.total < FullSamples THEN s.hits = s.total ELSE s.hits * 100 >= floor * s.total

\* The samples of a mirror lie at an even distance, in bytes; a reader refuses a
\* place that is not a sector's.
mirrorChunk == Lowest({Region, memberSize})
mirrorRegions == memberSize \div mirrorChunk
mirrorSamples == Lowest({SampleCap, mirrorRegions})
mirrorByte(k) ==
    IF mirrorSamples = 1 THEN 0
    ELSE (mirrorChunk * SectorWidth * (mirrorRegions - 1) * k) \div (mirrorSamples - 1)
Equal(by, S) ==
    LET at(k) == mirrorByte(k) \div SectorWidth
        taken == {k \in 0..(mirrorSamples - 1) :
                    /\ mirrorByte(k) % SectorWidth = 0
                    /\ \A d \in S : Readable(by[d], at(k), mirrorChunk)}
        agrees(k) == \A d, e \in S, o \in 0..(mirrorChunk - 1) :
                       cells[by[d]][at(k) + o] = cells[by[e]][at(k) + o]
    IN  Score(taken, agrees)

\* scoreAdjacentMirrorPairs: the least score of the pairs, when all pass
PairScores(by) == {Equal(by, {2 * p, 2 * p + 1}) : p \in 0..((Members \div 2) - 1)}
adjacentPairs(by) ==
    /\ Members >= 4 /\ Members % 2 = 0
    /\ \A s \in PairScores(by) : passesConfidence(s, MirrorFloor)
PairScore(by) == CHOOSE s \in PairScores(by) : \A r \in PairScores(by) : ~Higher(s, r)

\* scoreRaid1eCopies
NearCopies(by, block, offset) ==
    LET blocks == (((memberSize - offset) \div block) * Members) \div 2
        count == Lowest({SampleCap, blocks})
        number(k) == IF count > 1 THEN ((blocks - 1) * k) \div (count - 1) ELSE 0
        disk(k, c) == by[raid1eDisk(number(k), c, Members)]
        at(k, c) == offset + raid1eRow(number(k), c, Members) * block
        taken == {k \in 0..(count - 1) : \A c \in {0, 1} : Readable(disk(k, c), at(k, c), block)}
        agrees(k) == \A o \in 0..(block - 1) :
                       cells[disk(k, 0)][at(k, 0) + o] = cells[disk(k, 1)][at(k, 1) + o]
    IN  Score(taken, agrees)

\* raid5Consistent and raid6Consistent, of one row of sectors
Row5(sectors, row, algorithm) ==
    LET p == raid5ParityDisk(row, Members, algorithm)
    IN  Xor(sectors, Slots \ {p}) = sectors[p]
Row6(sectors, row) ==
    LET n == Members
        weighed == [j \in 0..(n - 3) |-> Scale(sectors[raid6DataDisk(row, j, n)], gfPow(j))]
    IN  /\ Xor(sectors, raid6DataDisks(row, n)) = sectors[raid6PDisk(row, n)]
        /\ Xor(weighed, 0..(n - 3)) = sectors[raid6QDisk(row, n)]
Parity(by, level, block, offset, algorithm) ==
    LET rows == (memberSize - offset) \div block
        count == Lowest({SampleCap, rows})
        row(k) == (k * rows) \div count
        at(k) == offset + row(k) * block
        taken == {k \in 0..(count - 1) : \A d \in Slots : Readable(by[d], at(k), block)}
        across(k, o) == [d \in Slots |-> cells[by[d]][at(k) + o]]
        agrees(k) == \A o \in 0..(block - 1) :
                       IF level = "RAID5" THEN Row5(across(k, o), row(k), algorithm)
                       ELSE Row6(across(k, o), row(k))
    IN  Score(taken, agrees)

----------------------------------------------------------------------------
(* detectRaidGeometryFixedOrder: the levels one after the other            *)

Shapes == {s \in {StripeSizes[k] : k \in DOMAIN StripeSizes} \X {DataOffsets[k] : k \in DOMAIN DataOffsets} :
             s[1] + s[2] <= memberSize}
AlgorithmRank(a) == CASE a = "leftAsymmetric" -> 0 [] a = "leftSymmetric" -> 1
                      [] a = "rightAsymmetric" -> 2 [] a = "rightSymmetric" -> 3

Enough(level) ==
    CASE level = "RAID5" -> Members >= 3
      [] level = "RAID6" -> Members >= 4
      [] level = "RAID10" -> Members >= 4 /\ Members % 2 = 0
      [] OTHER -> TRUE

\* The marks every candidate would bring to light
Views ==
    {v \in {Geometry(level, s[1], s[2], a, Perfect) :
             level \in {"RAID5", "RAID6", "RAID10", "RAID1E"}, s \in Shapes, a \in Algorithms} :
       (v.level = "RAID5" \/ v.algorithm = "leftAsymmetric") /\ Enough(v.level)}
MarkScores(by) == [v \in Views |-> fsSignatureScore(by, v)]
MarkScore(marks, g) ==
    IF g.level = "RAID1" THEN 0 ELSE marks[[g EXCEPT !.score = Perfect, !.fsConfirmed = FALSE]]

\* The candidates of a level that pass the floor
Scored(level, shapes, algorithms, score(_, _), floor) ==
    UNION {LET g == Geometry(level, x[1][1], x[1][2], x[2], score(x[1], x[2]))
           IN  IF passesConfidence(g.score, floor) THEN {g} ELSE {} : x \in shapes \X algorithms}

\* consider: the higher confidence, then the larger stripe, then the smaller
\* offset, then the earlier one; another level must have the higher confidence.
Preferred(g, h) ==
    \/ Higher(g.score, h.score)
    \/ ~Higher(h.score, g.score)
       /\ \/ g.block > h.block
          \/ g.block = h.block /\ g.offset < h.offset
          \/ g.block = h.block /\ g.offset = h.offset
             /\ AlgorithmRank(g.algorithm) <= AlgorithmRank(h.algorithm)
consider(sofar, candidates) ==
    IF candidates = {} THEN sofar
    ELSE LET top == CHOOSE g \in candidates : \A h \in candidates : Preferred(g, h)
         IN  IF sofar = {} \/ \E s \in sofar : Higher(top.score, s.score) THEN {top} ELSE sofar

\* Where copies do not tell the stripe, the marks do: the most of them, then
\* the smaller stripe, then the smaller offset.
ByMarks(marks, candidates) ==
    LET fs == [g \in candidates |-> MarkScore(marks, g)]
        seen == {g \in candidates : fs[g] > 0}
        before(g, h) == \/ fs[g] > fs[h]
                        \/ fs[g] = fs[h] /\ g.block < h.block
                        \/ fs[g] = fs[h] /\ g.block = h.block /\ g.offset <= h.offset
    IN  {[(CHOOSE g \in seen : \A h \in seen : before(g, h)) EXCEPT !.fsConfirmed = TRUE] : x \in
           IF seen = {} THEN {} ELSE {1}}

Raid1Found(by) ==
    {g \in {Geometry("RAID1", 0, 0, "leftAsymmetric", Equal(by, Slots))} :
       passesConfidence(g.score, MirrorFloor)}
Raid10Found(by, marks) ==
    ByMarks(marks, {Geometry("RAID10", s[1], s[2], "leftAsymmetric", PairScore(by)) : s \in Shapes})
Raid1eFound(by, marks) ==
    LET score(s, a) == NearCopies(by, s[1], s[2])
    IN  ByMarks(marks, Scored("RAID1E", Shapes, {"leftAsymmetric"}, score, MirrorFloor))

\* raid5Fs: the order of a RAID 5 candidate that brings the most marks to light,
\* its own if no other brings more
Turned(marks, g) ==
    LET fs == [a \in Algorithms |-> MarkScore(marks, [g EXCEPT !.algorithm = a])]
        most == {a \in Algorithms : \A b \in Algorithms : fs[b] <= fs[a]}
    IN  IF g.algorithm \in most THEN g
        ELSE [g EXCEPT !.algorithm =
                CHOOSE a \in most : \A b \in most : AlgorithmRank(a) <= AlgorithmRank(b)]

\* Sums are the same for every stripe that divides the true one's rows and for
\* every order: the marks decide, then the larger stripe.
Pinned(marks, found, candidates) ==
    LET turned == {Turned(marks, g) : g \in candidates}
        fs == [g \in turned |-> MarkScore(marks, g)]
        most == {g \in turned : \A h \in turned : fs[h] <= fs[g]}
        before(g, h) ==
          \/ g.block > h.block
          \/ g.block = h.block /\ g.offset < h.offset
          \/ g.block = h.block /\ g.offset = h.offset
             /\ AlgorithmRank(g.algorithm) <= AlgorithmRank(h.algorithm)
        best == CHOOSE g \in most : \A h \in most : before(g, h)
    IN  IF fs[best] = 0 THEN Turned(marks, found) ELSE [best EXCEPT !.fsConfirmed = TRUE]

ParityFound(by, marks, sofar) ==
    LET score5(s, a) == Parity(by, "RAID5", s[1], s[2], a)
        score6(s, a) == Parity(by, "RAID6", s[1], s[2], a)
        pass5 == IF Members < 3 THEN {}
                 ELSE Scored("RAID5", Shapes, {"leftAsymmetric", "rightAsymmetric"}, score5, ParityFloor)
        pass6 == IF Members < 4 THEN {}
                 ELSE Scored("RAID6", Shapes, {"leftAsymmetric"}, score6, ParityFloor)
    IN  {IF g.level = "RAID5" THEN Pinned(marks, g, pass5) ELSE g :
           g \in consider(consider(sofar, pass5), pass6)}

detectRaidGeometryFixedOrder(by, marks) ==
    LET mirror == Raid1Found(by)
        paired == mirror = {} /\ adjacentPairs(by)
        near == IF mirror = {} /\ Members % 2 = 1 /\ Members >= 3 THEN Raid1eFound(by, marks) ELSE {}
        copied == CASE mirror # {} -> mirror [] mirror = {} /\ paired -> Raid10Found(by, marks) [] OTHER -> near
    IN  IF paired \/ near # {} THEN copied ELSE ParityFound(by, marks, copied)

----------------------------------------------------------------------------
(* Labels                                                                  *)

\* readMdadmSuper1: the first of the places where one reads
MdLabel(i) ==
    LET places == {k \in 1..3 : raidSet.labels[i].md[k] # {}}
    IN  IF places = {} THEN {} ELSE raidSet.labels[i].md[Lowest(places)]

\* One label on every disk, of one array of as many disks
AllAgree(label(_), same(_)) ==
    /\ \A i \in Slots : label(i) # {}
    /\ \A i \in Slots : \A l \in label(i), f \in label(0) : same(l) = same(f)
    /\ \A f \in label(0) : f.disks = Members

Fits(block, offset) == offset + block <= DiskSize(0)

MdAlgorithms == <<"leftAsymmetric", "rightAsymmetric", "leftSymmetric", "rightSymmetric">>

MdGeometry ==
    LET same(l) == [l EXCEPT !.role = 0]
        made(f) ==
          LET whole == f.level \in {"RAID1", "JBOD"}
          IN  IF /\ f.level \in {"JBOD", "RAID0", "RAID1", "RAID5", "RAID6", "RAID10"}
                 /\ Enough(f.level) /\ (f.level = "RAID5" => f.layout <= 3)
                 /\ \A i \in Slots : DiskSize(i) > f.offset
                 /\ whole \/ Fits(f.chunk, f.offset)
              THEN {Geometry(f.level, IF whole THEN 0 ELSE f.chunk, f.offset,
                             IF f.level = "RAID5" THEN MdAlgorithms[f.layout + 1]
                             ELSE "leftAsymmetric", Perfect)}
              ELSE {}
    IN  IF AllAgree(MdLabel, same) THEN UNION {made(f) : f \in MdLabel(0)} ELSE {}

\* Mutant: the place of a disk in the set is taken for its role.
tryMdadmGeometryAsGiven == MdGeometry

\* Each role is there once, and gives the slot.
tryMdadmGeometry ==
    LET role(i) == (CHOOSE l \in MdLabel(i) : TRUE).role
    IN  {[g EXCEPT !.order = [r \in Slots |-> CHOOSE i \in Slots : role(i) = r]] :
           g \in {h \in MdGeometry : {role(i) : i \in Slots} = Slots}}

\* IMSM: the disks are taken as given, its order of them is not used.  A mirror
\* of other than two disks is striped.
tryImsmGeometry ==
    LET label(i) == raidSet.labels[i].imsm
        same(l) == [l EXCEPT !.role = 0, !.layout = 0]
        level(f) == IF f.level = "RAID1" /\ f.disks # 2 THEN "RAID10" ELSE f.level
    IN  IF AllAgree(label, same)
        THEN {Geometry(level(f), IF level(f) = "RAID1" THEN 0 ELSE f.chunk, f.offset,
                       "leftAsymmetric", Perfect) :
                f \in {x \in label(0) : /\ level(x) \in {"RAID0", "RAID1", "RAID5", "RAID10"}
                                        /\ Enough(level(x))
                                        /\ level(x) = "RAID1" \/ Fits(x.chunk, x.offset)}}
        ELSE {}

\* DDF: the disks as given, from their beginning.
tryDdfGeometry ==
    LET label(i) == raidSet.labels[i].ddf
        same(l) == [l EXCEPT !.role = 0, !.offset = 0]
        algorithm(f) == CASE f.level = "RAID5" /\ f.layout = 0 -> "rightAsymmetric"
                          [] f.level = "RAID5" /\ f.layout = 3 -> "leftSymmetric"
                          [] OTHER -> "leftAsymmetric"
    IN  IF AllAgree(label, same)
        THEN {Geometry(f.level, IF f.level = "RAID1" THEN 0 ELSE f.chunk, 0, algorithm(f), Perfect) :
                f \in {x \in label(0) : /\ x.level \in {"RAID0", "RAID1", "RAID5", "RAID6", "RAID10"}
                                        /\ Enough(x.level) /\ (x.level = "RAID5" => x.layout \in {0, 2, 3})
                                        /\ x.level = "RAID1" \/ Fits(x.chunk, 0)}}
        ELSE {}

----------------------------------------------------------------------------
(* detectRaidGeometry                                                      *)

\* The order given, its rotations, and its reverse
OrderTried(k) ==
    [slot \in Slots |-> IF k < Members THEN (slot + k) % Members ELSE Members - 1 - slot]

DetectInit ==
    /\ raidSet \in RaidSets
    /\ cells = [i \in Slots |-> [t \in 0..(DiskSize(i) - 1) |-> Content(i, t)]]
    /\ search = [pc |-> "md", next |-> 0, best |-> {}, by |-> "none", fs |-> -1]

TryLabel(pc, found, after) ==
    /\ search.pc = pc
    /\ search' = IF found = {} THEN [search EXCEPT !.pc = after]
                 ELSE [search EXCEPT !.pc = "done", !.best = found, !.by = pc]
    /\ UNCHANGED <<raidSet, cells>>

TryMd == TryLabel("md", tryMdadmGeometry, "imsm")
TryImsm == TryLabel("imsm", tryImsmGeometry, "ddf")
TryDdf == TryLabel("ddf", tryDdfGeometry, "orders")

\* considerPerm: of pairs of equal disks, other orders make parity.  A mirror
\* in the order given ends the search.
TryOrder ==
    /\ search.pc = "orders" /\ search.next <= Members
    /\ \E by \in {OrderTried(search.next)} :
       \E marks \in {MarkScores(by)} :
       \E found \in {{g \in detectRaidGeometryFixedOrder(by, marks) :
                        adjacentPairs(OrderTried(0)) => g.level = "RAID10"}} :
       \E fs \in {Highest({-1} \cup {MarkScore(marks, g) : g \in found})} :
         search' = [search EXCEPT
                      !.next = @ + 1,
                      !.pc = IF @ = "orders" /\ search.next = 0 /\ \E g \in found : g.level = "RAID1"
                             THEN "done" ELSE @,
                      !.best = IF fs > search.fs THEN {[g EXCEPT !.order = by] : g \in found} ELSE @,
                      !.by = "score", !.fs = IF fs > @ THEN fs ELSE @]
    /\ UNCHANGED <<raidSet, cells>>

Report ==
    /\ search.pc = "orders" /\ search.next > Members
    /\ search' = [search EXCEPT !.pc = "done"]
    /\ UNCHANGED <<raidSet, cells>>

DetectNext == TryMd \/ TryImsm \/ TryDdf \/ TryOrder \/ Report

----------------------------------------------------------------------------
(* Properties                                                              *)

Reported == search.pc = "done"

\* The array put together as reported shows what its controller wrote, as far
\* as it can be read and was not written since.
Untouched == raidSet.stale = {} /\ raidSet.unread = {}
ShowsArray(g) ==
    \A l \in Sectors(raidSet.array) :
      LET r == Shown(g.order, g, l) IN r.ok /\ r.data = Truth(l)

\* Labels decide: whole sets of md disks are put together right in whatever
\* order they are given, and those that lack a member, have one twice or mix
\* two arrays never are by their labels; those of IMSM and DDF when they are
\* given in their order.
WholeMd ==
    /\ {raidSet.order[i] : i \in Slots} = Slots
    /\ \A i \in Slots : MdLabel(i) # {} /\ \A l \in MdLabel(i) : l.set = "own"
AsBuilt == \A i \in Slots : raidSet.order[i] = i
LabelsDecide ==
    Reported =>
      /\ WholeMd /\ Untouched => search.by = "md" /\ \A g \in search.best : ShowsArray(g)
      /\ search.by = "md" => WholeMd
      /\ search.by \in {"imsm", "ddf"} /\ AsBuilt /\ Untouched =>
           \A g \in search.best : ShowsArray(g)

\* Disks in adjacent equal pairs are never taken for disks with parity: their
\* sums agree too, but say nothing (raid_detect.cpp:341-342).
PairsAreNoParity ==
    Reported /\ raidSet.array.level = "RAID10" /\ AsBuilt =>
      \A g \in search.best : g.level = "RAID10"

\* Enough samples of a mirror lie where a reader takes them.  With more regions
\* than samples that is rare.
MirrorsShow ==
    Cardinality({k \in 0..(mirrorSamples - 1) : mirrorByte(k) % SectorWidth = 0}) >= TinySamples

\* Without labels an array is reported only for disks that have redundancy, as
\* a mirror only for mirrors, and mirrors and pairs only as such where enough
\* of their samples are read.  RAID 6 comes out right wherever a mark
\* shows; of RAID 5 no order tried and no candidate that passes would have brought
\* more marks to light than what is reported.
Repeated == {raidSet.order[i] : i \in Slots} # Slots
Rivals(by) ==
    {Geometry("RAID5", s[1], s[2], a, Perfect) : a \in Algorithms,
       s \in {x \in Shapes : passesConfidence(Parity(by, "RAID5", x[1], x[2], "leftAsymmetric"), ParityFloor)}}
ScoresDecide ==
    Reported /\ search.by = "score" =>
      /\ search.best # {} => Repeated \/ raidSet.array.level \notin {"RAID0", "JBOD"}
      /\ MirrorsShow => PairsAreNoParity
      /\ \A g \in search.best :
           /\ ~Repeated /\ g.level = "RAID1" => raidSet.array.level = "RAID1"
           /\ raidSet.array.level = "RAID1" /\ MirrorsShow => g.level = "RAID1"
           /\ g.level = "RAID6" /\ Untouched /\ search.fs > 0 => ShowsArray(g)
           /\ g.level = "RAID5" =>
                \A k \in 0..Members : \A r \in Rivals(OrderTried(k)) :
                  fsSignatureScore(OrderTried(k), r) <= fsSignatureScore(g.order, g)

\* An array with redundancy that is given in its order, untouched and with the
\* mark of a file system at its beginning, is found, and what is put together
\* begins with that mark; a mirror or pairs where enough samples are read.  A
\* mirror is always taken from the disks' beginning.
MarkedFound ==
    Reported /\ search.by = "score" /\ AsBuilt /\ Untouched
      /\ 0 \in DOMAIN raidSet.marks /\ raidSet.marks[0] = "boot"
      /\ raidSet.array.level \notin {"RAID0", "JBOD"}
      /\ (raidSet.array.level = "RAID1" => raidSet.array.base[0] = 0)
      /\ (raidSet.array.level \in {"RAID1", "RAID10"} => MirrorsShow)
      => /\ search.best # {}
         /\ \A g \in search.best : Shown(g.order, g, 0) = Given(Truth(0))

DetectionIsTrue == LabelsDecide /\ ScoresDecide /\ MarkedFound
=============================================================================
