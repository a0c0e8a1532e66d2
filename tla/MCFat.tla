------------------------------- MODULE MCFat -------------------------------
(***************************************************************************)
(* One tree of files on FAT12, FAT16, FAT32 and exFAT, laid out as each    *)
(* keeps it, and what can be different about the volume.                   *)
(***************************************************************************)
EXTENDS FatScan

FatStored(name, long, dir, live, first, size, chain) ==
    [name |-> name, long |-> long, dir |-> dir, live |-> live, first |-> first, size |-> size, chain |-> chain]

\* In the root a file in pieces, a directory, a deleted file in a row and a
\* file; in the directory a file, a deleted file in pieces, an empty
\* one, a deleted directory, and a directory that is the root again; in the deleted one a
\* deleted file.
FatTree ==
    (2 :> <<FatStored(<<"a", "1">>, TRUE, FALSE, TRUE, 4, 8, <<4, 6, 5, 21>>),
            FatStored(<<"D", "2">>, FALSE, TRUE, TRUE, 7, 0, <<>>),
            FatStored(<<"X", "3">>, FALSE, FALSE, FALSE, 9, 4, <<9, 10>>),
            FatStored(<<"B", "4">>, FALSE, FALSE, TRUE, 11, 1, <<11>>)>>)
      @@ (7 :> <<FatStored(<<"c", "5">>, TRUE, FALSE, TRUE, 12, 2, <<12>>),
                 FatStored(<<"y", "6">>, TRUE, FALSE, FALSE, 13, 4, <<13, 15>>),
                 FatStored(<<"w", "0">>, FALSE, FALSE, FALSE, 0, 0, <<>>),
                 FatStored(<<"G", "7">>, FALSE, TRUE, FALSE, 16, 0, <<>>),
                 FatStored(<<"R", "8">>, FALSE, TRUE, TRUE, 2, 0, <<>>)>>)
      @@ (16 :> <<FatStored(<<"z", "9">>, FALSE, FALSE, FALSE, 22, 3, <<22, 23>>)>>)

LastCluster == 32
FatPer == 3   \* slots of a cluster
Growth == (2 :> <<2, 3, 17, 18, 24, 25>>) @@ (7 :> <<7, 8, 19, 20, 14, 26, 27, 29>>) @@ (16 :> <<16, 28>>)

\* The checksum of a short name of a deleted file is not that of its slots.
ShortOf(e) == IF e.long THEN <<"S", e.name[2]>> ELSE e.name
FatSlots(e) ==
    LET short == IF e.live THEN ShortOf(e) ELSE <<"e5", e.name[2]>>
        lfn(ord) == [kind |-> "lfn", deleted |-> ~e.live, ord |-> ord, part |-> e.name[ord], of |-> ShortOf(e)]
    IN  (IF e.long THEN <<lfn(2), lfn(1)>> ELSE <<>>)
          \o <<[kind |-> "short", deleted |-> ~e.live, name |-> short, dir |-> e.dir, first |-> e.first, size |-> e.size]>>

\* A slot of a file that is no more may stand within a set.
ExfatSlots(e, gap) ==
    <<[kind |-> "file", live |-> e.live, checksum |-> e.first, dir |-> e.dir]>>
      \o (IF gap /\ e.long THEN <<[kind |-> "file", live |-> FALSE, checksum |-> 99, dir |-> FALSE]>> ELSE <<>>)
      \o <<[kind |-> "stream", length |-> 2, first |-> e.first, size |-> e.size],
           [kind |-> "name", chars |-> <<e.name[1]>>], [kind |-> "name", chars |-> <<e.name[2], "-">>]>>

EntrySlots(fs, e, gap) == IF fs = "exfat" THEN ExfatSlots(e, gap) ELSE FatSlots(e)

VolumeLabel == <<[kind |-> "label", name |-> "label"]>>
DotSlots ==
    [k \in 1..2 |-> [kind |-> "short", deleted |-> FALSE, name |-> IF k = 1 THEN <<".">> ELSE <<"..">>, dir |-> TRUE,
                     first |-> 2, size |-> 0]]
FrontSlots(fs, d) == CASE d = 2 -> VolumeLabel [] d # 2 /\ fs = "fat32" -> DotSlots [] OTHER -> <<>>

Laid(fs, d, gap) ==
    FrontSlots(fs, d) \o FlattenSeq([k \in DOMAIN FatTree[d] |-> EntrySlots(fs, FatTree[d][k], gap)])

\* The clusters of a directory, per slots in each, and where a slot stands
DirLength(fs, d, gap) == (Len(Laid(fs, d, gap)) + FatPer - 1) \div FatPer
DirectoryChain(fs, d, gap) == SubSeq(Growth[d], 1, DirLength(fs, d, gap))

Small(fs) == fs \in {"fat12", "fat16"}

StandsIn(fs, d, gap, k) ==
    LET before == Len(FrontSlots(fs, d))
                    + FoldLeft(LAMBDA n, e : n + Len(EntrySlots(fs, e, gap)), 0, SubSeq(FatTree[d], 1, k - 1))
    IN  IF Small(fs) THEN {1}
        ELSE {DirectoryChain(fs, d, gap)[((p - 1) \div FatPer) + 1] :
                p \in (before + 1)..(before + Len(EntrySlots(fs, FatTree[d][k], gap)))}

FatObjects(fs, gap) ==
    UNION {{LET e == FatTree[d][k]
            IN  [name |-> IF fs = "exfat" \/ e.long \/ e.live THEN e.name ELSE <<"_", e.name[2]>>,
                 dir |-> e.dir, live |-> e.live, in |-> d, first |-> e.first, size |-> e.size,
                 slots |-> StandsIn(fs, d, gap, k), after |-> IF k = 1 THEN {} ELSE StandsIn(fs, d, gap, k - 1),
                 chain |-> IF e.dir THEN DirectoryChain(fs, e.first, gap) ELSE e.chain, chained |-> TRUE] :
            k \in DOMAIN FatTree[d]} : d \in DOMAIN FatTree}

Linked(chains) ==
    [c \in 2..LastCluster |->
        LET of == {ch \in chains : c \in ToSet(ch)}
        IN  IF of = {} THEN FreeEntry
            ELSE LET ch == CHOOSE x \in of : TRUE
                     k == CHOOSE n \in DOMAIN ch : ch[n] = c
                 IN  IF k = Len(ch) THEN EndEntry ELSE ch[k + 1]]

FatVolume(fs, old, gap) ==
    LET objects == FatObjects(fs, gap)
        now == {o.chain : o \in {x \in objects : x.live}} \cup {DirectoryChain(fs, 2, gap)}
        before == now \cup {o.chain : o \in objects}
        slots(c) ==
            CASE Small(fs) /\ c = 1 -> Laid(fs, 2, gap)
              [] ~Small(fs) /\ \E d \in DOMAIN FatTree : c \in ToSet(DirectoryChain(fs, d, gap)) ->
                   LET d == CHOOSE x \in DOMAIN FatTree : c \in ToSet(DirectoryChain(fs, x, gap))
                       k == CHOOSE n \in DOMAIN DirectoryChain(fs, d, gap) : DirectoryChain(fs, d, gap)[n] = c
                       all == Laid(fs, d, gap)
                       mine == SubSeq(all, (k - 1) * FatPer + 1, Min({k * FatPer, Len(all)}))
                   IN  IF k * FatPer > Len(all) THEN mine \o <<[kind |-> "end"]>> ELSE mine
              [] OTHER -> <<>>
    IN  [fs |-> fs, front |-> IF fs = "exfat" THEN "exfat" ELSE "fat", twelfth |-> "none", spare |-> "none",
         fits |-> TRUE, root |-> 2, at |-> 0, tables |-> <<Linked(now), Linked(IF old THEN before ELSE now)>>,
         unread |-> {}, torn |-> <<>>, high |-> {}, stray |-> EndEntry, slots |-> [c \in 1..LastCluster |-> slots(c)],
         looks |-> {}, bad |-> {}, holds |-> [root |-> DirectoryChain(fs, 2, gap), objects |-> objects]]

FatVolumesPlain == {FatVolume(fs, old, FALSE) : fs \in {"fat12", "fat16", "fat32", "exfat"}, old \in BOOLEAN}

FatUnread(v) ==
    {[v EXCEPT !.bad = {c}] : c \in {1, 2, 3, 7, 8, 10, 16, 17, 19}}
      \cup {[v EXCEPT !.unread = {<<1, c>>}] : c \in {2, 3, 4, 6, 7, 8, 9, 13, 17, 21}}
      \cup {[v EXCEPT !.unread = {<<2, 9>>}], [v EXCEPT !.looks = {10}], [v EXCEPT !.bad = {2}, !.unread = {<<1, 6>>}]}

\* A directory and a file whose last cluster leads back, one copy of the table,
\* the first sector wiped with and without a backup
FatOdd(v) ==
    {[v EXCEPT !.tables[1][Last(DirectoryChain(v.fs, 7, FALSE))] = 7, !.tables[1][11] = 11],
     [v EXCEPT !.tables = SubSeq(@, 1, 1)]}
      \cup {[v EXCEPT !.front = front, !.twelfth = IF v.fs = "exfat" THEN back ELSE "none",
                      !.spare = IF v.fs = "exfat" THEN "none" ELSE back] :
              front \in {"unread", "junk"}, back \in {"none", IF v.fs = "exfat" THEN "exfat" ELSE "fat"}}

\* A file of exFAT in a row that the table does not know
Unchained(v) ==
    [v EXCEPT !.tables = [i \in DOMAIN @ |-> [c \in DOMAIN @[i] |-> IF c \in {4, 5, 6, 21} THEN FreeEntry ELSE @[i][c]]],
              !.holds.objects = {IF o.first = 4 THEN [o EXCEPT !.chained = FALSE] ELSE o : o \in @}]

MCFatDisks ==
    FatVolumesPlain
      \cup UNION {FatUnread(v) \cup FatOdd(v) : v \in FatVolumesPlain}
      \cup {[FatVolume("fat12", FALSE, FALSE) EXCEPT !.torn = (c :> value)] : c \in {6, 11}, value \in {FreeEntry, EndEntry, 4}}
      \cup {[FatVolume("fat32", TRUE, FALSE) EXCEPT !.high = {6}],
            [FatVolume("exfat", FALSE, FALSE) EXCEPT !.fits = FALSE], FatVolume("exfat", TRUE, TRUE),
            Unchained(FatVolume("exfat", TRUE, FALSE))}
      \cup {[FatVolume("fat32", FALSE, FALSE) EXCEPT !.at = 25, !.stray = stray] : stray \in {EndEntry, UnreadEntry, 23}}
=============================================================================
