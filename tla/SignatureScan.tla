--------------------------- MODULE SignatureScan ---------------------------
(***************************************************************************)
(* The two searches over a raw disk: the carver's scan of a range          *)
(* (CarvingEngine::scanRangeSingle) with its Aho-Corasick automaton, and   *)
(* the search for a byte sequence (searchRawBytes).  Both read in chunks;  *)
(* what is looked for may lie across the edge of two chunks or of the      *)
(* halves that a chunk with a bad sector is read in.                       *)
(*                                                                         *)
(* Bytes are numbered from 1 and sectors from 0.  What a validator makes   *)
(* of a carve is left out: a carve whose footer does not come is kept when *)
(* a parser bounds its size, "bound" of its signature.                     *)
(***************************************************************************)
EXTENDS Integers, SequencesExt

CONSTANTS
    RawContents,      \* disks: [bytes, bad] with bad the unreadable sectors
    Signatures,    \* sequence of [header, footer, max, bound]; footer may be empty
    SectorBytes,
    ChunkSectors,  \* chunkSectors; kHexSearchChunk in sectors
    SameWindow,    \* 4096: a signature is not opened twice within
    StartWindow,   \* 512: no two carves start within
    Needles,
    MaxHits        \* cap

RawChunk == ChunkSectors * SectorBytes

\* A needle has at least a byte, and all but its first fit into a chunk:
\* kHexSearchMaxNeedle is far below kHexSearchChunk.
ASSUME RawAssumption ==
    /\ {SectorBytes, ChunkSectors, MaxHits} \subseteq Nat \ {0}
    /\ \A c \in RawContents : c.bytes \in Seq(Nat)
    /\ \A n \in Needles : n \in Seq(Nat) /\ Len(n) \in 1..(RawChunk + 1)

VARIABLES
    content,       \* the disk
    carver,        \* [pc, sector, subs, sub, at, node, active, unread]
    carved,        \* records emitted, in order
    hex,           \* [pc, needle, pos, carry, hits, unread]
    bridged        \* ghost: a sector did not read when a pattern had begun

rawVars == <<content, carver, carved, hex, bridged>>

Least(a, b) == IF a < b THEN a ELSE b

Size == Len(content.bytes)
SectorOf(at) == (at - 1) \div SectorBytes
EndOfRange == Size \div SectorBytes
Reads(first, count) == content.bad \cap (first..(first + count - 1)) = {}

----------------------------------------------------------------------------
(* The automaton.  A node is the prefix that leads to it.                  *)

Patterns == {s.header : s \in Range(Signatures)} \cup {s.footer : s \in Range(Signatures)}
Nodes == {<<>>} \cup UNION {{SubSeq(p, 1, n) : n \in 1..Len(p)} : p \in Patterns}

\* The first node along the failure links that has a child for the byte
Fail[node \in Nodes] ==
    IF Len(node) <= 1 THEN <<>>
    ELSE LET walk[f \in Nodes] ==
                 CASE Append(f, Last(node)) \in Nodes -> Append(f, Last(node))
                   [] Append(f, Last(node)) \notin Nodes /\ f # <<>> -> walk[Fail[f]]
                   [] OTHER -> <<>>
         IN  walk[Fail[Front(node)]]

\* The patterns that end at a node, the longest first
Matches(node) ==
    LET along[f \in Nodes] == IF f = <<>> THEN <<>> ELSE <<f>> \o along[Fail[f]]
    IN  along[node]

\* acNext_
NextNode(node, byte) ==
    LET next[f \in Nodes] ==
            CASE Append(f, byte) \in Nodes -> Append(f, byte)
              [] Append(f, byte) \notin Nodes /\ f # <<>> -> next[Fail[f]]
              [] OTHER -> <<>>
    IN  next[node]

Having(pattern, part(_)) ==
    SelectSeq([i \in DOMAIN Signatures |-> i], LAMBDA i : pattern # <<>> /\ part(Signatures[i]) = pattern)

HeaderMatches(node) ==
    FoldLeft(LAMBDA ids, p : ids \o Having(p, LAMBDA s : s.header), <<>>, Matches(node))
FooterMatches(node) ==
    FoldLeft(LAMBDA ids, p : ids \o Having(p, LAMBDA s : s.footer), <<>>, Matches(node))

----------------------------------------------------------------------------
(* Carves                                                                  *)

\* A header that ends at a byte opens a carve, unless one of the signature is
\* open that began shortly before, or one of any signature that did so even
\* more shortly.
Opened(active, id, end) ==
    LET start == end - Len(Signatures[id].header) + 1
        same == \E c \in active : c.id = id /\ c.start > end - SameWindow /\ c.start <= end
        near == \E c \in active : c.start > start - StartWindow /\ c.start <= start
    IN  IF same \/ near THEN active
        ELSE active \cup {[id |-> id, start |-> start, limit |-> start + Signatures[id].max - 1]}

\* What a footer that ends at a byte closes
Closed(active, id, end) == {c \in active : c.id = id /\ end <= c.limit}

CarvedFile(c, end, how) == [id |-> c.id, start |-> c.start, end |-> end, how |-> how]

InOrder(carves) == SetToSortSeq(carves, LAMBDA a, b : a.start < b.start)

\* refineExpiredCarve: a carve whose footer did not come, of at most that many
\* bytes, is kept if its probe can be read and its size is bounded.
Expired(c, most) ==
    LET probe == (Least(most, Size - c.start + 1) \div SectorBytes) * SectorBytes
        first == SectorOf(c.start)
        bound == Signatures[c.id].bound
    IN  IF /\ probe > 0 /\ Reads(first, SectorOf(c.start + probe - 1) - first + 1)
           /\ bound > 0 /\ bound < most
        THEN <<CarvedFile(c, c.start + bound - 1, "bound")>> ELSE <<>>

----------------------------------------------------------------------------
RawInit ==
    /\ content \in RawContents
    /\ carver = [pc |-> "idle", sector |-> 0, subs |-> <<>>, sub |-> <<0, 0>>, at |-> 0,
                 node |-> <<>>, active |-> {}, unread |-> FALSE]
    /\ carved = <<>>
    /\ hex = [pc |-> "idle", needle |-> <<>>, pos |-> 0, carry |-> <<>>, hits |-> <<>>,
              unread |-> FALSE]
    /\ bridged = FALSE

Begin ==
    /\ carver.pc = "idle"
    /\ carver' = [carver EXCEPT !.pc = "chunk"]
    /\ UNCHANGED <<content, carved, hex, bridged>>

\* The next chunk of the range, cut at its end
NextChunk ==
    /\ carver.pc = "chunk" /\ carver.sector < EndOfRange
    /\ LET count == Least(ChunkSectors, EndOfRange - carver.sector)
       IN  carver' = [carver EXCEPT !.pc = "read", !.subs = <<<<carver.sector, count>>>>,
                                    !.sector = @ + ChunkSectors]
    /\ UNCHANGED <<content, carved, hex, bridged>>

\* Mutant: the halves are put on the stack in the order of the disk.
HalvesSwapped(sub) ==
    LET half == sub[2] \div 2 IN <<<<sub[1] + half, sub[2] - half>>, <<sub[1], half>>>>

\* The first half is read first.
Halves(sub) ==
    LET half == sub[2] \div 2 IN <<<<sub[1], half>>, <<sub[1] + half, sub[2] - half>>>>

\* A piece that does not read is halved; a single sector is passed over, and
\* the automaton goes on in the state it was in.
ReadPiece ==
    /\ carver.pc = "read" /\ carver.subs # <<>>
    /\ LET sub == Head(carver.subs)
           rest == Tail(carver.subs)
       IN  \/ /\ Reads(sub[1], sub[2])
              /\ carver' = [carver EXCEPT !.pc = "bytes", !.subs = rest, !.sub = sub,
                                          !.at = sub[1] * SectorBytes + 1]
              /\ UNCHANGED bridged
           \/ /\ ~Reads(sub[1], sub[2]) /\ sub[2] > 1
              /\ carver' = [carver EXCEPT !.subs = Halves(sub) \o rest]
              /\ UNCHANGED bridged
           \/ /\ ~Reads(sub[1], sub[2]) /\ sub[2] = 1
              /\ carver' = [carver EXCEPT !.subs = rest, !.unread = TRUE]
              /\ bridged' = (bridged \/ carver.node # <<>>)
    /\ UNCHANGED <<content, carved, hex>>

\* One byte: the headers that end with it, then the footers.
Byte ==
    /\ carver.pc = "bytes" /\ carver.at <= (carver.sub[1] + carver.sub[2]) * SectorBytes
    /\ \E node \in {NextNode(carver.node, content.bytes[carver.at])} :
       \E active \in {FoldLeft(LAMBDA set, id : Opened(set, id, carver.at),
                               carver.active, HeaderMatches(node))} :
         LET closes == UNION {Closed(active, id, carver.at) : id \in Range(FooterMatches(node))}
         IN  /\ carver' = [carver EXCEPT !.at = @ + 1, !.node = node, !.active = active \ closes]
             /\ carved' = carved \o [k \in 1..Cardinality(closes) |->
                                        CarvedFile(InOrder(closes)[k], carver.at, "footer")]
    /\ UNCHANGED <<content, hex, bridged>>

\* Carves that cannot get their footer any more, at the end of each piece
Prune ==
    /\ carver.pc = "bytes" /\ carver.at > (carver.sub[1] + carver.sub[2]) * SectorBytes
    /\ LET old == {c \in carver.active : carver.at - 1 > c.limit}
       IN  /\ carver' = [carver EXCEPT !.pc = "read", !.active = @ \ old]
           /\ carved' = FoldLeft(LAMBDA all, c : all \o Expired(c, Signatures[c.id].max),
                                 carved, InOrder(old))
    /\ UNCHANGED <<content, hex, bridged>>

ChunkDone ==
    /\ carver.pc = "read" /\ carver.subs = <<>>
    /\ carver' = [carver EXCEPT !.pc = "chunk"]
    /\ UNCHANGED <<content, carved, hex, bridged>>

\* The end of the range, or a stop: what is still open ends there at most.
Finish ==
    /\ carver.pc \in {"chunk", "read"}
    /\ \/ carver.pc = "chunk" /\ carver.sector >= EndOfRange /\ carver' = [carver EXCEPT !.pc = "done", !.active = {}]
       \/ carver' = [carver EXCEPT !.pc = "stopped", !.active = {}]
    /\ LET most(c) == Least(Signatures[c.id].max, EndOfRange * SectorBytes - c.start + 1)
       IN  carved' = FoldLeft(LAMBDA all, c : all \o Expired(c, most(c)), carved, InOrder(carver.active))
    /\ UNCHANGED <<content, hex, bridged>>

----------------------------------------------------------------------------
(* searchRawBytes                                                          *)

BeginHex ==
    /\ hex.pc = "idle" /\ Size > 0
    /\ \E needle \in Needles :
          hex' = [hex EXCEPT !.pc = IF Size < Len(needle) THEN "done" ELSE "chunk", !.needle = needle]
    /\ UNCHANGED <<content, carver, carved, bridged>>

Occurrences(hay, needle) ==
    LET at == {k \in 1..(Len(hay) - Len(needle) + 1) : SubSeq(hay, k, k + Len(needle) - 1) = needle}
    IN  [n \in 1..Cardinality(at) |-> CHOOSE k \in at : Cardinality({j \in at : j < k}) = n - 1]

\* Mutant: the first byte of what is carried over is lost.
CarryShort(hay, needle) ==
    IF Len(hay) >= Len(needle) - 1
    THEN SubSeq(hay, Len(hay) - Len(needle) + 3, Len(hay)) ELSE <<>>

\* The end of a chunk that a needle may begin in
Carry(hay, needle) ==
    IF Len(hay) >= Len(needle) - 1
    THEN SubSeq(hay, Len(hay) - Len(needle) + 2, Len(hay)) ELSE <<>>

\* One chunk of whole sectors; one that does not read is passed over whole.
HexChunk ==
    /\ hex.pc = "chunk"
    /\ LET want == (Least(RawChunk, Size - hex.pos) \div SectorBytes) * SectorBytes
           hay == hex.carry \o SubSeq(content.bytes, hex.pos + 1, hex.pos + want)
           room == MaxHits - Len(hex.hits)
           found == Occurrences(hay, hex.needle)
           shift == hex.pos - Len(hex.carry)
       IN  \/ /\ want = 0 \/ room = 0
              /\ hex' = [hex EXCEPT !.pc = "done"]
           \/ /\ want > 0 /\ room > 0 /\ ~Reads(hex.pos \div SectorBytes, want \div SectorBytes)
              /\ hex' = [hex EXCEPT !.unread = TRUE, !.carry = <<>>, !.pos = @ + want]
           \/ /\ want > 0 /\ room > 0 /\ Reads(hex.pos \div SectorBytes, want \div SectorBytes)
              /\ hex' = [hex EXCEPT !.hits = @ \o [k \in 1..Least(room, Len(found)) |-> found[k] + shift],
                                    !.carry = Carry(hay, hex.needle), !.pos = @ + want]
    /\ UNCHANGED <<content, carver, carved, bridged>>

CarveNext == Begin \/ NextChunk \/ ReadPiece \/ Byte \/ Prune \/ ChunkDone \/ Finish
HexNext == BeginHex \/ HexChunk
RawNext == CarveNext \/ HexNext

RawSpec == RawInit /\ [][RawNext]_rawVars

----------------------------------------------------------------------------
(* Properties                                                              *)

\* A pattern ends at a byte, and all of it can be read.
Ends(pattern, at) ==
    /\ pattern # <<>> /\ at >= Len(pattern)
    /\ SubSeq(content.bytes, at - Len(pattern) + 1, at) = pattern
    /\ \A k \in (at - Len(pattern) + 1)..at : SectorOf(k) \notin content.bad

\* What one pass over the whole range finds, byte for byte, with no chunks, no
\* halves and no automaton: the carves that get their footer.
OnePass ==
    LET ids(end, part(_)) ==
            SetToSortSeq({i \in DOMAIN Signatures : Ends(part(Signatures[i]), end)},
                         LAMBDA a, b : \/ Len(part(Signatures[a])) > Len(part(Signatures[b]))
                                       \/ Len(part(Signatures[a])) = Len(part(Signatures[b])) /\ a < b)
        pass(acc, at) ==
            LET active == FoldLeft(LAMBDA set, id : Opened(set, id, at), acc.active,
                                   ids(at, LAMBDA s : s.header))
                closes == UNION {Closed(active, id, at) : id \in Range(ids(at, LAMBDA s : s.footer))}
            IN  [active |-> active \ closes, found |-> acc.found \cup {CarvedFile(c, at, "footer") : c \in closes}]
        after[at \in 0..(EndOfRange * SectorBytes)] ==
            IF at = 0 THEN [active |-> {}, found |-> {}]
            ELSE CHOOSE r \in {pass(acc, at) : acc \in {after[at - 1]}} : TRUE
    IN  after[EndOfRange * SectorBytes].found

\* However the range falls into chunks, and the chunks into halves around bad
\* sectors, the carver emits the files one pass over the range would find, each
\* once (scanRangeSingle, buildAhoCorasick); a bad sector in the middle of a
\* pattern is excepted, since the automaton goes on behind it as if it were not
\* there.
RawScanIsExact ==
    carver.pc = "done" /\ ~bridged =>
      /\ {r \in Range(carved) : r.how = "footer"} = OnePass
      /\ Cardinality(Range(carved)) = Len(carved)

\* The chunk of the search that holds a byte
ChunkReads(at) ==
    LET first == ((at - 1) \div RawChunk) * ChunkSectors
    IN  Reads(first, Least(ChunkSectors, EndOfRange - first))

\* Where the needle stands in the whole sectors of the disk
Standing(needle) ==
    {k \in 1..(EndOfRange * SectorBytes - Len(needle) + 1) :
        SubSeq(content.bytes, k, k + Len(needle) - 1) = needle}
Through(needle, k) == k..(k + Len(needle) - 1)

\* A search for bytes returns places of the needle, each once and in order, and
\* none that any byte of was not read for.  A place it does not return lies
\* behind the last one it may return, or in a chunk that did not read, and then
\* the search says so: the edges of its chunks hide none (searchRawBytes).
HexSearchIsExact ==
    hex.pc = "done" =>
      /\ \A i, j \in DOMAIN hex.hits : i < j => hex.hits[i] < hex.hits[j]
      /\ \A i \in DOMAIN hex.hits :
           hex.hits[i] \in Standing(hex.needle) /\ \A at \in Through(hex.needle, hex.hits[i]) : ChunkReads(at)
      /\ \A k \in Standing(hex.needle) \ Range(hex.hits) :
           \/ Len(hex.hits) = MaxHits /\ hex.hits[MaxHits] < k
           \/ hex.unread /\ \E at \in Through(hex.needle, k) : ~ChunkReads(at)
=============================================================================
