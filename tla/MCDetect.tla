------------------------------ MODULE MCDetect ------------------------------
(***************************************************************************)
(* Sets of disks for the detection of arrays.                              *)
(***************************************************************************)
EXTENDS RaidDetect, TLC

Written(level, n, block, rows, base, algorithm) ==
    [level |-> level, algorithm |-> algorithm, n |-> n, block |-> block,
     base |-> [d \in 0..(n - 1) |-> base], size |-> [d \in 0..(n - 1) |-> base + block * rows],
     extent |-> [d \in 0..(n - 1) |-> 0]]
Regular(level, n, block, rows, base) == Written(level, n, block, rows, base, "leftAsymmetric")

NoLabels == [md |-> <<{}, {}, {}>>, imsm |-> {}, ddf |-> {}]
Disks0(a, order, labels) ==
    [array |-> a, order |-> order, labels |-> labels, marks |-> (0 :> "boot"), parts |-> {3},
     blank |-> {}, stale |-> {}, unread |-> {}, zeroHead |-> TRUE]

----------------------------------------------------------------------------
(* With labels                                                             *)

LayoutOf(a, layouts) == CHOOSE k \in 0..3 : layouts[k + 1] = a.algorithm
Label(a, set, role, layout) ==
    [set |-> set, level |-> a.level, layout |-> layout, chunk |-> a.block, disks |-> a.n,
     offset |-> a.base[0], role |-> role]
MdLabelOf(a, set, role) == Label(a, set, role, LayoutOf(a, MdAlgorithms))

\* Any disks of an md array in any order, some twice and others not at all
AnyMd(a, place) ==
    {Disks0(a, o, [i \in 0..(a.n - 1) |-> [NoLabels EXCEPT !.md[place] = {MdLabelOf(a, "own", o[i])}]]) :
       o \in [0..(a.n - 1) -> 0..(a.n - 1)]}
\* One disk of another array, or without a label
SpoiltMd(a, l) ==
    {Disks0(a, [i \in 0..(a.n - 1) |-> i],
            [i \in 0..(a.n - 1) |-> [NoLabels EXCEPT !.md[1] = IF i = k THEN l ELSE {MdLabelOf(a, "own", i)}]]) :
       k \in 0..(a.n - 1)}
\* Labels of Intel's and of the common format, in order and reversed
Firmware(a, kind) ==
    {Disks0(a, o, [i \in 0..(a.n - 1) |->
                     IF kind = "imsm" THEN [NoLabels EXCEPT !.imsm = {Label(a, "own", o[i], 0)}]
                     ELSE [NoLabels EXCEPT !.ddf = {Label(a, "own", o[i],
                             LayoutOf(a, <<"rightAsymmetric", "rightSymmetric", "leftAsymmetric", "leftSymmetric">>))}]]) :
       o \in {[i \in 0..(a.n - 1) |-> i], [i \in 0..(a.n - 1) |-> (a.n - 1) - i]}}

Labelled ==
    UNION {AnyMd(Written("RAID5", 3, 2, 3, 2, g), IF g = "leftSymmetric" THEN 3 ELSE 1) :
           g \in {"leftSymmetric", "rightAsymmetric"}}
      \cup UNION {AnyMd(a, 2) : a \in {Regular("RAID0", 3, 2, 2, 1), Regular("JBOD", 2, 2, 2, 1), Regular("RAID1", 2, 1, 4, 2)}}
      \cup {s \in AnyMd(Regular("RAID6", 4, 1, 4, 2), 1) \cup AnyMd(Regular("RAID10", 4, 1, 4, 0), 1) :
              s.order[0] = 2 /\ s.order[1] = 0}
      \cup UNION {SpoiltMd(Regular("RAID5", 3, 2, 3, 2), l) :
                    l \in {{}, {MdLabelOf(Regular("RAID5", 3, 2, 3, 2), "other", 1)}}}
      \cup UNION {Firmware(a, "imsm") : a \in {Regular("RAID0", 2, 2, 2, 1), Regular("RAID5", 3, 2, 3, 1), Regular("RAID10", 4, 1, 4, 0)}}
      \cup UNION {Firmware(a, "ddf") : a \in {Regular("RAID1", 2, 1, 4, 0), Regular("RAID6", 4, 1, 4, 0)}
                                            \cup {Written("RAID5", 3, 2, 3, 0, g) : g \in Algorithms \ {"rightSymmetric"}}}

----------------------------------------------------------------------------
(* Without: a file system or a table of partitions at the beginning, an    *)
(* ext volume, or nothing to go by; some blank sectors; in the order of    *)
(* the disks, its rotation by two, and with two disks exchanged             *)

MarkSets == {0 :> "boot", (0 :> "table") @@ (3 :> "boot"), 2 :> "ext", 99 :> "boot"}
Orders(n) ==
    {[i \in 0..(n - 1) |-> i], [i \in 0..(n - 1) |-> (i + 2) % n]}
      \cup (IF n = 2 THEN {} ELSE {[i \in 0..(n - 1) |-> CASE i = 0 -> 1 [] i = 1 -> 0 [] OTHER -> i]})
Bare(a, blanks) ==
    {[Disks0(a, o, [i \in 0..(a.n - 1) |-> NoLabels]) EXCEPT !.blank = b, !.marks = m, !.zeroHead = z] :
       o \in Orders(a.n), b \in blanks, m \in MarkSets, z \in IF a.base[0] = 0 THEN {TRUE} ELSE BOOLEAN}

Unlabelled ==
    UNION {Bare(a, {{4, 5}}) : a \in
      {Written("RAID5", 3, 2, 3, 0, g) : g \in Algorithms} \cup {Regular("RAID5", 3, 1, 4, 2), Regular("RAID6", 4, 1, 4, 2)}}
      \cup UNION {Bare(a, {{}}) : a \in
        {Regular("RAID0", 3, 1, 6, 0), Regular("JBOD", 2, 1, 6, 2), Regular("RAID1", 3, 1, 6, 0), Regular("RAID1", 2, 1, 4, 2),
         Regular("RAID1E", 3, 2, 4, 0), Regular("RAID10", 4, 2, 3, 0), Regular("RAID10", 4, 1, 6, 2), Regular("RAID6", 4, 2, 4, 0)}}

\* Some sectors were written without the rest of their row, or do not read.
Damaged ==
    {[s EXCEPT !.stale = st, !.unread = u] :
       s \in Bare(Written("RAID5", 3, 1, 6, 0, "leftSymmetric"), {{}}),
       st \in {{<<1, 3>>}, {<<1, 0>>, <<1, 4>>}}, u \in {{}, {<<0, 0>>}}}

\* Disks of more regions than samples are taken: of five, where two samples of
\* a mirror begin with a sector, and of seven, where all do
Long ==
    UNION {Bare(a, {{}}) : a \in
      {Regular("RAID1", 2, 1, 10, 0), Regular("RAID1", 3, 1, 10, 0), Regular("RAID1", 2, 1, 14, 0),
       Regular("RAID10", 4, 2, 5, 0), Regular("RAID10", 4, 2, 7, 0), Regular("RAID1E", 3, 2, 5, 0),
       Regular("RAID0", 3, 1, 10, 0), Written("RAID5", 3, 2, 5, 0, "leftSymmetric")}}

MCRaidSets == Labelled \cup Unlabelled \cup Damaged \cup Long
Stripes == <<2, 1>>
Reserved == <<0, 2>>

----------------------------------------------------------------------------
\* The detection alone
DetectSpec ==
    /\ DetectInit /\ array = {} /\ diskActive = {} /\ bad = {} /\ answer = NoAnswer
    /\ [][DetectNext /\ UNCHANGED raidVars]_<<detectVars, raidVars>>

\* Pairs of disks of more regions than samples are taken
LongPairs == Bare(Regular("RAID10", 4, 2, 5, 0), {{}})
=============================================================================
