----------------------------- MODULE VirtualRaid -----------------------------
(***************************************************************************)
(* Reads of a RAID set assembled from its members (fs/virtual_raid.cpp,    *)
(* fs/raid_layout.cpp, fs/raid6_math.cpp): where each level finds a block, *)
(* and how it rebuilds one that its member does not give.                  *)
(*                                                                         *)
(* The unit is a sector.  Data is symbolic: a value is a linear            *)
(* combination of the array's sectors over a field, the set of the pairs   *)
(* <<sector, coefficient>> with a coefficient other than 0, so that one    *)
(* model stands for every content.  The field is GF(4), in which the       *)
(* generator 2 of the code's GF(256) has order 3: as many data disks as    *)
(* the exponents tell apart.                                               *)
(***************************************************************************)
EXTENDS Integers, FiniteSets

CONSTANTS
    Arrays,      \* the arrays considered, see Array
    MaxFailed,   \* bound: disks marked failed
    MaxBad,      \* bound: member sectors that cannot be read
    MaxRead,     \* bound: sectors of one read
    MarkedDuring \* the levels for which a disk is marked failed during a read too

Levels == {"RAID0", "RAID1", "RAID5", "RAID6", "RAID10", "JBOD", "RAID1E"}
Algorithms == {"leftAsymmetric", "leftSymmetric", "rightAsymmetric", "rightSymmetric"}

\* What initFromMembers and the constructors accept.  Members differ in size;
\* the data of member d starts at base[d] and, for a concatenation, may end
\* before the member does: extent[d], 0 when it is not given.
Array(a) ==
    /\ a.level \in Levels /\ a.algorithm \in Algorithms
    /\ a.n \in Nat /\ a.n >= CASE a.level = "RAID6" -> 4
                               [] a.level \in {"RAID5", "RAID1E"} -> 3
                               [] OTHER -> 2
    /\ a.level = "RAID10" => a.n % 2 = 0
    /\ a.block \in Nat \ {0}
    /\ \A f \in {a.size, a.base, a.extent} : f \in [0..(a.n - 1) -> Nat]
    /\ \A d \in 0..(a.n - 1) :
         a.base[d] < a.size[d] /\ a.base[d] + a.extent[d] <= a.size[d]

ASSUME RaidAssumption ==
    /\ \A a \in Arrays : Array(a)
    /\ MarkedDuring \subseteq Levels \ {"RAID1", "JBOD"}
    /\ MaxFailed \in Nat /\ MaxBad \in Nat /\ MaxRead \in Nat \ {0}

VARIABLES
    array,
    diskActive,   \* the members not marked failed
    bad,          \* <<member, sector>> that cannot be read
    answer        \* the last read and what it gave

raidVars == <<array, diskActive, bad, answer>>

Disks == 0..(array.n - 1)
NoAnswer == [offset |-> 0, length |-> 0, kind |-> "none", data |-> <<>>]

----------------------------------------------------------------------------
(* raid6_math: GF(4) in place of GF(256)                                   *)

Order == 3
gfExp == [e \in 0..(Order - 1) |-> IF e = 0 THEN 1 ELSE IF e = 1 THEN 2 ELSE 3]
gfLog(a) == CHOOSE e \in DOMAIN gfExp : gfExp[e] = a
gfPow(e) == gfExp[e % Order]
gfMul(a, b) == IF a = 0 \/ b = 0 THEN 0 ELSE gfExp[(gfLog(a) + gfLog(b)) % Order]
gfDiv(a, b) == IF a = 0 THEN 0 ELSE gfExp[(gfLog(a) + Order - gfLog(b)) % Order]
gfXor(a, b) == ((a + b) % 2) + 2 * (((a \div 2) + (b \div 2)) % 2)

Coef(v, l) == IF \E x \in v : x[1] = l THEN (CHOOSE x \in v : x[1] = l)[2] ELSE 0

\* The exclusive or of the values f[d], d in S: bit by bit
Xor(f, S) ==
    LET odd(l, bit) == Cardinality({d \in S : (Coef(f[d], l) \div bit) % 2 = 1}) % 2
        c(l) == odd(l, 1) + 2 * odd(l, 2)
    IN  {<<l, c(l)>> : l \in {m \in UNION {{x[1] : x \in f[d]} : d \in S} : c(m) # 0}}
Plus(u, v) == Xor(<<u, v>>, {1, 2})
Scale(v, k) == {<<x[1], gfMul(x[2], k)>> : x \in v}
Divide(v, k) == {<<x[1], gfDiv(x[2], k)>> : x \in v}

----------------------------------------------------------------------------
(* raid_layout                                                             *)

raid5ParityDisk(stripe, n, algorithm) ==
    LET i == stripe % n
    IN  IF algorithm \in {"rightAsymmetric", "rightSymmetric"} THEN i ELSE (n - 1) - i

\* Mutant: the left-symmetric order starts at the parity disk.
raid5DataDiskFromParity(stripe, b, n, algorithm) ==
    LET parity == raid5ParityDisk(stripe, n, algorithm)
    IN  CASE algorithm = "leftSymmetric" -> (parity + b) % n
          [] algorithm = "rightSymmetric" -> ((parity + n - 1) - b) % n
          [] OTHER -> (IF b >= parity THEN b + 1 ELSE b) % n

raid5DataDisk(stripe, b, n, algorithm) ==
    LET parity == raid5ParityDisk(stripe, n, algorithm)
    IN  CASE algorithm = "leftSymmetric" -> (parity + 1 + b) % n
          [] algorithm = "rightSymmetric" -> ((parity + n - 1) - b) % n
          [] OTHER -> (IF b >= parity THEN b + 1 ELSE b) % n

raid6PDisk(stripe, n) == (n - 1) - (stripe % n)
raid6QDisk(stripe, n) ==
    LET p == raid6PDisk(stripe, n) IN IF p = 0 THEN n - 1 ELSE p - 1
raid6DataDisks(stripe, n) == (0..(n - 1)) \ {raid6PDisk(stripe, n), raid6QDisk(stripe, n)}

\* slotOf: how many data disks of the stripe come before d
slotOf(d, stripe, n) == Cardinality({c \in raid6DataDisks(stripe, n) : c < d})
raid6DataDisk(stripe, b, n) ==
    CHOOSE d \in raid6DataDisks(stripe, n) : slotOf(d, stripe, n) = b

raid10MemberA(block, n) == (block % (n \div 2)) * 2
raid10MemberB(block, n) == (block % (n \div 2)) * 2 + 1
raid1eDisk(block, copy, n) == (block * 2 + copy) % n
raid1eRow(block, copy, n) == (block * 2 + copy) \div n

----------------------------------------------------------------------------
(* Sizes                                                                   *)

memberPayload(a, d) == a.size[d] - a.base[d]
memberExtent(a, d) == IF a.extent[d] > 0 THEN a.extent[d] ELSE memberPayload(a, d)
\* The smallest member bounds them all.
payload(a) ==
    CHOOSE p \in {memberPayload(a, d) : d \in 0..(a.n - 1)} :
      \A d \in 0..(a.n - 1) : p <= memberPayload(a, d)

extentsBefore(a) ==
    LET before[d \in 0..a.n] == IF d = 0 THEN 0 ELSE before[d - 1] + memberExtent(a, d - 1)
    IN  before

capacity(a) ==
    LET usable == (payload(a) \div a.block) * a.block
    IN  CASE a.level = "JBOD"   -> extentsBefore(a)[a.n]
          [] a.level = "RAID1"  -> payload(a)
          [] a.level = "RAID0"  -> usable * a.n
          [] a.level = "RAID5"  -> usable * (a.n - 1)
          [] a.level = "RAID6"  -> usable * (a.n - 2)
          [] a.level = "RAID10" -> usable * (a.n \div 2)
          [] a.level = "RAID1E" -> (usable * a.n) \div 2

----------------------------------------------------------------------------
(* What the members hold: the array as its controller wrote it.  Sectors   *)
(* before the data and after the last whole block hold something else.     *)

Junk == {<<-1, 1>>}
Pure(l) == {<<l, 1>>}

\* The role of member d in a row: a data slot, or one of
ParityP == -1
ParityQ == -2
Role5(d, row, n, algorithm) ==
    LET p == IF algorithm \in {"rightAsymmetric", "rightSymmetric"}
             THEN row % n ELSE n - 1 - (row % n)
    IN  CASE d = p -> ParityP
          [] d # p /\ algorithm = "leftSymmetric"  -> (d + n - p - 1) % n
          [] d # p /\ algorithm = "rightSymmetric" -> (p + n - d - 1) % n
          [] OTHER -> IF d < p THEN d ELSE d - 1
Role6(d, row, n) ==
    LET p == n - 1 - (row % n)
        q == (p + n - 1) % n
    IN  CASE d = p -> ParityP [] d = q -> ParityQ
          [] OTHER -> d - Cardinality({c \in {p, q} : c < d})

\* Sector s of the payload of member d
Stored(a, d, s) ==
    LET row == s \div a.block
        off == s % a.block
        striped(b) == b * a.block + off
        at(k, nData) == striped(row * nData + k)
        stripe(role, nData) ==
          CASE role = ParityP -> {<<at(k, nData), 1>> : k \in 0..(nData - 1)}
            [] role = ParityQ -> {<<at(k, nData), gfPow(k)>> : k \in 0..(nData - 1)}
            [] OTHER -> Pure(at(role, nData))
    IN  CASE a.level = "JBOD"  -> Pure(extentsBefore(a)[d] + s)
          [] a.level = "RAID1" -> IF s < payload(a) THEN Pure(s) ELSE Junk
          [] row >= payload(a) \div a.block /\ a.level \notin {"JBOD", "RAID1"} -> Junk
          [] OTHER ->
            (CASE a.level = "RAID0"  -> Pure(striped(row * a.n + d))
               [] a.level = "RAID5"  -> stripe(Role5(d, row, a.n, a.algorithm), a.n - 1)
               [] a.level = "RAID6"  -> stripe(Role6(d, row, a.n), a.n - 2)
               [] a.level = "RAID10" -> Pure(striped(row * (a.n \div 2) + (d \div 2)))
               [] a.level = "RAID1E" -> Pure(striped(((row * a.n) + d) \div 2)))

\* The sectors the array has: those of whole blocks, and both copies of a
\* mirrored one.
Sectors(a) ==
    LET rows == payload(a) \div a.block
        blocks(k) == 0..((rows * k * a.block) - 1)
    IN  CASE a.level = "JBOD"   -> {s \in 0..(extentsBefore(a)[a.n] - 1) : TRUE}
          [] a.level = "RAID1"  -> 0..(payload(a) - 1)
          [] a.level = "RAID0"  -> blocks(a.n)
          [] a.level = "RAID5"  -> blocks(a.n - 1)
          [] a.level = "RAID6"  -> blocks(a.n - 2)
          [] a.level = "RAID10" -> blocks(a.n \div 2)
          [] a.level = "RAID1E" -> 0..((((rows * a.n) \div 2) * a.block) - 1)

----------------------------------------------------------------------------
(* Reads                                                                   *)

\* readMemberAligned: len sectors of member d from its payload's sector o on
MemberOk(d, o, len) ==
    LET first == array.base[d] + o
    IN  /\ first + len <= array.size[d]
        /\ \A s \in first..(first + len - 1) : <<d, s>> \notin bad
Member(d, s) == Stored(array, d, s)
Usable(active, d, o, len) == d \in active /\ MemberOk(d, o, len)

Unread == [ok |-> FALSE, data |-> <<>>]
Given(f) == [ok |-> TRUE, data |-> f]
Direct(d, o, len) == Given([i \in 0..(len - 1) |-> Member(d, o + i)])

\* A piece of a read is len sectors of a block, from sector from on.  The
\* active disks are looked up as the piece goes: now is what the first look
\* finds, later what the next ones find.
Raid0Piece(block, from, len, now) ==
    LET d == block % array.n
        o == (block \div array.n) * array.block + from
    IN  IF Usable(now, d, o, len) THEN Direct(d, o, len) ELSE Unread

\* The exclusive or of the blocks of the members S, for the sectors asked for
Rebuilt(S, o, from, len) ==
    Given([i \in 0..(len - 1) |-> Xor([d \in S |-> Member(d, o + from + i)], S)])

\* The other disks' blocks are read whole.
Raid5Piece(block, from, len, now, later) ==
    LET stripe == block \div (array.n - 1)
        data == raid5DataDisk(stripe, block % (array.n - 1), array.n, array.algorithm)
        o == stripe * array.block
    IN  IF Usable(now, data, o + from, len) THEN Direct(data, o + from, len)
        ELSE IF \A d \in Disks \ {data} : Usable(later, d, o, array.block)
        THEN Rebuilt(Disks \ {data}, o, from, len) ELSE Unread

\* A sector of a lost disk, from what the disks that are left leave of P and Q.
\* weight gives the factor in Q of every lost disk.
Solved(data, weight, pLeft, qLeft, pOk) ==
    LET failed == DOMAIN weight
        first == CHOOSE d \in failed : \A c \in failed : d <= c
        second == CHOOSE d \in failed : \A c \in failed : c <= d
        xFirst == Divide(Plus(Scale(pLeft, weight[second]), qLeft), gfXor(weight[first], weight[second]))
    IN  CASE Cardinality(failed) = 1 /\ pOk  -> pLeft
          [] Cardinality(failed) = 1 /\ ~pOk -> Divide(qLeft, weight[data])
          [] Cardinality(failed) = 2 /\ data = first -> xFirst
          [] Cardinality(failed) = 2 /\ data # first -> Plus(pLeft, xFirst)

\* The failed data disks are counted at the first look; the sums then run over
\* the ones that are active, and pass over the others.  With two failed, a
\* disk whose read failed is in the sums unless it is marked.
Raid6Rebuilt(block, from, len, now, later) ==
    LET n == array.n
        stripe == block \div (n - 2)
        o == stripe * array.block
        p == raid6PDisk(stripe, n)
        q == raid6QDisk(stripe, n)
        data == raid6DataDisk(stripe, block % (n - 2), n)
        g(d) == gfPow(slotOf(d, stripe, n))
        failed == {d \in raid6DataDisks(stripe, n) : d \notin now \/ d = data}
        rest == (raid6DataDisks(stripe, n) \cap later)
                \ (IF Cardinality(failed) = 1 THEN failed ELSE {})
        restOk == \A d \in rest : MemberOk(d, o, array.block)
        value(d, i) == Member(d, o + from + i)
        pSum(i) == Xor([d \in rest \cup {p} |-> value(d, i)], rest \cup {p})
        qSum(i) == Plus(value(q, i), Xor([d \in rest |-> Scale(value(d, i), g(d))], rest))
        pOk == Usable(later, p, o, array.block)
        qOk == Usable(later, q, o, array.block)
    IN  IF restOk /\ \/ Cardinality(failed) = 1 /\ (pOk \/ qOk)
                     \/ Cardinality(failed) = 2 /\ pOk /\ qOk
        THEN Given([i \in 0..(len - 1) |->
                     Solved(data, [d \in failed |-> g(d)], pSum(i), qSum(i), pOk)])
        ELSE Unread

\* Mutant: P is needed for one failed disk too, and Q not used.
Raid6PieceByP(block, from, len, now, later) ==
    LET stripe == block \div (array.n - 2)
        data == raid6DataDisk(stripe, block % (array.n - 2), array.n)
        o == stripe * array.block + from
    IN  IF Usable(now, data, o, len) THEN Direct(data, o, len)
        ELSE IF raid6PDisk(stripe, array.n) \notin later THEN Unread
        ELSE Raid6Rebuilt(block, from, len, now, later)

Raid6Piece(block, from, len, now, later) ==
    LET stripe == block \div (array.n - 2)
        data == raid6DataDisk(stripe, block % (array.n - 2), array.n)
        o == stripe * array.block + from
    IN  IF Usable(now, data, o, len) THEN Direct(data, o, len)
        ELSE Raid6Rebuilt(block, from, len, now, later)

\* The first copy that can be read, of two
Either(active, d1, o1, d2, o2, len) ==
    CASE Usable(active, d1, o1, len) -> Direct(d1, o1, len)
      [] ~Usable(active, d1, o1, len) /\ Usable(active, d2, o2, len) -> Direct(d2, o2, len)
      [] OTHER -> Unread

Raid10Piece(block, from, len, now) ==
    LET o == (block \div (array.n \div 2)) * array.block + from
    IN  Either(now, raid10MemberA(block, array.n), o, raid10MemberB(block, array.n), o, len)

Raid1ePiece(block, from, len, now) ==
    LET o(c) == raid1eRow(block, c, array.n) * array.block + from
    IN  Either(now, raid1eDisk(block, 0, array.n), o(0),
                    raid1eDisk(block, 1, array.n), o(1), len)

Piece(block, from, len, now, later) ==
    CASE array.level = "RAID0"  -> Raid0Piece(block, from, len, now)
      [] array.level = "RAID5"  -> Raid5Piece(block, from, len, now, later)
      [] array.level = "RAID6"  -> Raid6Piece(block, from, len, now, later)
      [] array.level = "RAID10" -> Raid10Piece(block, from, len, now)
      [] array.level = "RAID1E" -> Raid1ePiece(block, from, len, now)

Joined(pieces, offset, length) ==
    LET first == offset \div array.block
        from(b) == IF b = first THEN offset % array.block ELSE 0
        sector(l) == LET b == l \div array.block IN pieces[b].data[(l % array.block) - from(b)]
    IN  IF \A b \in DOMAIN pieces : pieces[b].ok
        THEN Given([i \in 0..(length - 1) |-> sector(offset + i)])
        ELSE Unread

\* Block by block, all of them or none.  A disk marked during the read is
\* found so from the second look at block at on.
Striped(offset, length, marked, at) ==
    LET first == offset \div array.block
        last == (offset + length - 1) \div array.block
        from(b) == IF b = first THEN offset % array.block ELSE 0
        to(b) == IF b = last THEN (offset + length - 1) % array.block ELSE array.block - 1
        pieces == [b \in first..last |->
                     Piece(b, from(b), (to(b) - from(b)) + 1,
                           IF b > at THEN diskActive \ marked ELSE diskActive,
                           IF b >= at THEN diskActive \ marked ELSE diskActive)]
    IN  Joined(pieces, offset, length)

\* The first mirror that gives the whole range
Mirrored(offset, length) ==
    LET good == {d \in Disks : Usable(diskActive, d, offset, length)}
    IN  IF good = {} THEN Unread
        ELSE Direct(CHOOSE d \in good : \A c \in good : d <= c, offset, length)

\* Member after member
Concatenated(offset, length) ==
    LET before == extentsBefore(array)
        holder(l) == CHOOSE d \in Disks : before[d] <= l /\ l < before[d + 1]
        sector(l) == Member(holder(l), l - before[holder(l)])
    IN  IF \A l \in offset..(offset + length - 1) :
             Usable(diskActive, holder(l), l - before[holder(l)], 1)
        THEN Given([i \in 0..(length - 1) |-> sector(offset + i)])
        ELSE Unread

Contents(offset, length, marked, at) ==
    CASE array.level = "JBOD"  -> Concatenated(offset, length)
      [] array.level = "RAID1" -> Mirrored(offset, length)
      [] OTHER -> Striped(offset, length, marked, at)

Outcome(offset, length, marked, at) ==
    LET told(beyond, r) ==
          [offset |-> offset, length |-> length, data |-> r.data,
           kind |-> CASE beyond -> "outOfRange" [] ~beyond /\ r.ok -> "data"
                      [] OTHER -> "unreadable"]
    IN  IF offset + length > capacity(array) THEN told(TRUE, Unread)
        ELSE told(FALSE, Contents(offset, length, marked, at))

----------------------------------------------------------------------------
RaidInit ==
    /\ array \in Arrays /\ diskActive = Disks /\ bad = {} /\ answer = NoAnswer

Read ==
    /\ answer = NoAnswer
    /\ \E offset \in 0..capacity(array), length \in 1..MaxRead :
         answer' = Outcome(offset, length, {}, 0)
    /\ UNCHANGED <<array, diskActive, bad>>

\* A read on a worker, and the user interface's thread marks a disk meanwhile
\* (FailRaidDisk, bridge_wipe.cpp).
ReadWhileMarked ==
    /\ array.level \in MarkedDuring /\ answer = NoAnswer
    /\ Cardinality(Disks \ diskActive) < MaxFailed
    /\ \E offset \in 0..(capacity(array) - 1), length \in 1..MaxRead, d \in diskActive :
         \E at \in (offset \div array.block)..((offset + length - 1) \div array.block) :
           /\ diskActive' = diskActive \ {d}
           /\ answer' = Outcome(offset, length, {d}, at)
    /\ UNCHANGED <<array, bad>>

\* fail_disk
FailDisk ==
    /\ answer = NoAnswer /\ Cardinality(Disks \ diskActive) < MaxFailed
    /\ \E d \in diskActive : diskActive' = diskActive \ {d}
    /\ UNCHANGED <<array, bad, answer>>

\* A sector of a member cannot be read any more.
GoesBad ==
    /\ answer = NoAnswer /\ Cardinality(bad) < MaxBad
    /\ \E d \in Disks : \E s \in array.base[d]..(array.size[d] - 1) :
         bad' = bad \cup {<<d, s>>}
    /\ UNCHANGED <<array, diskActive, answer>>

Answered == answer # NoAnswer /\ answer' = NoAnswer /\ UNCHANGED <<array, diskActive, bad>>

RaidNext == Read \/ ReadWhileMarked \/ FailDisk \/ GoesBad \/ Answered

RaidSpec == RaidInit /\ [][RaidNext]_raidVars

----------------------------------------------------------------------------
(* Properties                                                              *)

\* Whatever has failed, a read that gives data gives the array's data: a
\* degraded read never returns another block, stale parity or zeros.
ReadsAreTrue ==
    answer.kind = "data" =>
      \A i \in DOMAIN answer.data : answer.data[i] = Pure(answer.offset + i)

Gone(d, o, len) == ~Usable(diskActive, d, o, len)
GoneInRow(row) == {d \in Disks : Gone(d, row * array.block, array.block)}
Touched == (answer.offset \div array.block)..((answer.offset + answer.length - 1) \div array.block)

\* What each level promises to survive (virtual_raid.h:34-46).  RAID 6 is held to two
\* members marked failed, or to one that cannot be read.
Survivable(block) ==
    LET n == array.n
        marked == Disks \ diskActive
    IN  CASE array.level = "RAID0" ->
               \A d \in Disks : ~Gone(d, (block \div n) * array.block, array.block)
          [] array.level = "RAID5" -> Cardinality(GoneInRow(block \div (n - 1))) <= 1
          [] array.level = "RAID6" ->
               LET gone == GoneInRow(block \div (n - 2))
               IN  Cardinality(gone) <= 1 \/ (gone = marked /\ Cardinality(gone) <= 2)
          [] array.level = "RAID10" ->
               LET pair == block % (n \div 2)
               IN  ~({2 * pair, 2 * pair + 1} \subseteq GoneInRow(block \div (n \div 2)))
          [] array.level = "RAID1E" ->
               \E c \in {0, 1} : raid1eDisk(block, c, n) \notin GoneInRow(raid1eRow(block, c, n))

\* A read fails only when more was lost than the level promises to survive,
\* at any distance from the block borders.
RedundancyHonoured ==
    answer.kind = "unreadable" =>
      CASE array.level = "JBOD"  -> diskActive # Disks \/ bad # {}
        [] array.level = "RAID1" -> \A d \in Disks : Gone(d, answer.offset, answer.length)
        [] OTHER -> \E b \in Touched : ~Survivable(b)
=============================================================================
