------------------------------- MODULE MCNtfs -------------------------------
(***************************************************************************)
(* One NTFS volume of eight records in two runs, and what can be different *)
(* about it.                                                               *)
(***************************************************************************)
EXTENDS NtfsScan, TLC

NameAttr(name, parent, long) == [type |-> "name", name |-> name, parent |-> parent, long |-> long, size |-> 1]
DataAttr(stream, data, runs) == [type |-> "data", stream |-> stream, data |-> data, runs |-> runs, size |-> 2]
EaAttr(eas) == [type |-> "ea", eas |-> eas]
ListAttr(refs, runs) == [type |-> "list", refs |-> refs, runs |-> runs]
Entry30(child, name, parent, size) ==
    [child |-> child, name |-> name, parent |-> parent, size |-> size, from |-> 0]

FileAttrs(used, base, attrs) == [used |-> used, dir |-> FALSE, base |-> base, attrs |-> attrs]
Hole(count) == [at |-> 0, count |-> count, sparse |-> TRUE]

MftData == DataAttr("", <<>>, <<NtfsRun(4, 6), Hole(2), NtfsRun(14, 10)>>)
Record0 == FileAttrs(TRUE, 0, <<NameAttr(Plain(10), 5, TRUE), MftData>>)

\* $MFT; a file whose streams are in another record; its directory; that
\* record; a file of the recycle bin; the root; what the bin knows of the file;
\* the journal.  Behind the $MFT's first run a record from before.
Books ==
    (4 :> Record0) @@ (12 :> Record0)
      @@ (6 :> FileAttrs(TRUE, 0, <<NameAttr(Plain(1), 2, TRUE), NameAttr(Plain(9), 5, FALSE),
                                     ListAttr(<<3>>, <<>>)>>))
      @@ (8 :> FileAttrs(TRUE, 0, <<NameAttr(Plain(2), 5, TRUE),
                 [type |-> "root", hints |-> <<Entry30(1, Plain(1), 2, 0), Entry30(4, Plain(4), 2, 0)>>],
                 [type |-> "allocation", runs |-> <<NtfsRun(26, 2)>>]>>))
      @@ (14 :> FileAttrs(TRUE, 1, <<DataAttr("", <<>>, <<NtfsRun(30, 1)>>), DataAttr("s", <<Plain(3)>>, <<>>)>>))
      @@ (16 :> FileAttrs(FALSE, 0, <<NameAttr([kind |-> "R", id |-> 1], 2, FALSE),
                                      DataAttr("", <<Plain(0)>>, <<>>)>>))
      @@ (18 :> FileAttrs(TRUE, 0, <<NameAttr(Plain(5), 5, TRUE)>>))
      @@ (20 :> FileAttrs(FALSE, 0, <<NameAttr([kind |-> "I", id |-> 1], 2, TRUE),
                                      DataAttr("", <<Plain(7)>>, <<>>)>>))
      @@ (22 :> FileAttrs(TRUE, 0, <<DataAttr("$J", <<>>, <<NtfsRun(24, 2)>>)>>))
      @@ (10 :> FileAttrs(FALSE, 0, <<NameAttr(Plain(8), 2, TRUE), DataAttr("", <<Plain(8)>>, <<>>)>>))

Volume ==
    [boot |-> "ok", mft |-> 4, mirror |-> 12, sectors |-> 34, records |-> Books,
     indexes |-> (26 :> <<Entry30(7, Plain(11), 2, 0), Entry30(12, Plain(12), 2, 0)>>)
                   @@ (28 :> <<Entry30(13, Plain(13), 2, 2), Entry30(12, Plain(12), 2, 0)>>),
     journal |-> (24 :> 4) @@ (25 :> 6), pictures |-> (30 :> 2) @@ (32 :> 2), free |-> <<NtfsRun(28, 6)>>,
     bad |-> {}, worse |-> {}, orphans |-> TRUE]

Without(at) == [s \in (DOMAIN Books) \ at |-> Books[s]]
Later(record) == [Volume EXCEPT !.records = record @@ Books]

\* A file of each kind of attribute, with a list of these references.
Listing(main, refs) ==
    Later(6 :> FileAttrs(TRUE, 0, <<NameAttr(Plain(1), 2, TRUE)>> \o main
                                    \o <<DataAttr("t", <<Plain(4)>>, <<>>), EaAttr(<<<<1>>>>), ListAttr(refs, <<>>)>>))

\* A record that is not where records stand, before the $MFT, within a chunk
\* and across two of them; no record 0, or no list of its runs; a list in
\* clusters of its own; lists that name a record of another file, the record
\* they are in, or more than are followed; a file that lacks nothing; a
\* directory in itself; two of the bin with an id; a resident journal; and no
\* map of what is free.
Odd ==
    {[Volume EXCEPT !.records = (at :> Books[10]) @@ Without({10})] : at \in {2, 29, 31}}
      \cup
    {Listing(<<>>, <<1, 3, 3>>), Listing(<<>>, <<1, 1, 3>>), Listing(<<DataAttr("", <<Plain(1)>>, <<>>)>>, <<3>>),
     [Volume EXCEPT !.records = Without({4})], [Volume EXCEPT !.records = Without({4, 12})],
     Later(6 :> FileAttrs(TRUE, 0, <<NameAttr(Plain(1), 2, TRUE), ListAttr(<<3>>, <<NtfsRun(32, 1)>>)>>)),
     Later(14 :> FileAttrs(TRUE, 0, <<NameAttr(Plain(3), 2, TRUE), DataAttr("", <<Plain(3)>>, <<>>)>>)),
     Later(8 :> FileAttrs(TRUE, 0, <<NameAttr(Plain(2), 2, TRUE)>>)),
     Later(10 :> FileAttrs(FALSE, 0, <<NameAttr([kind |-> "I", id |-> 1], 2, TRUE), DataAttr("", <<Plain(6)>>, <<>>)>>)),
     Later(22 :> FileAttrs(TRUE, 0, <<DataAttr("$J", <<4>>, <<>>)>>)),
     [Volume EXCEPT !.free = <<>>]}

Single(sectors) == {{}} \cup {{s} : s \in sectors}

MCMftVolumes ==
    {[Volume EXCEPT !.bad = b, !.worse = w, !.orphans = o] :
        b \in Single(4..33), w \in Single({6, 14, 16, 24, 26, 30}), o \in BOOLEAN}
      \cup {[v EXCEPT !.bad = b, !.orphans = o, !.boot = boot] :
             v \in Odd, b \in Single({4, 12, 22, 32}), o \in BOOLEAN, boot \in {"backup", "unread", "foreign"}}
=============================================================================
